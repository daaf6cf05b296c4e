---------------------------- MODULE KcpArqProofs ----------------------------
(***************************************************************************)
(* Proofs about KcpArq for every value of its constants: type correctness, *)
(* the inductive invariant IInv with the safety properties it implies, and *)
(* that KcpArq implements MsgChannel.  The last needs more than IInv, also *)
(* MessagesKept: ikcp_recv cuts the stream where ikcp_send did.            *)
(***************************************************************************)
EXTENDS KcpArq, SequenceTheorems, WellFoundedInduction, TLAPS

-----------------------------------------------------------------------------
(* Operators the model is built from *)

\* The two endpoints are each other's remote.
LEMMA RemoteFacts ==
  ASSUME NEW p \in Peer
  PROVE  /\ Remote(p) \in Peer
         /\ Remote(p) # p
         /\ Remote(Remote(p)) = p
         /\ \A q \in Peer : q = p \/ q = Remote(p)
BY PeerAssumption DEF Peer, Remote

\* Every set of naturals that is not empty has a least element, Min's value.
LEMMA NatMin ==
  ASSUME NEW T \in SUBSET Nat, T # {}
  PROVE  Min(T) \in T /\ \A x \in T : Min(T) <= x
<1>1. PICK m \in T : \A x \in T : <<x, m>> \notin OpToRel(<, Nat)
  BY NatLessThanWellFounded, WFMin, Zenon
<1>2. \A x \in T : ~(x < m)
  BY <1>1, Zenon DEF OpToRel
<1>3. \A x \in T : m <= x
  BY <1>2
<1> QED
  BY <1>3 DEF Min

\* Frontier passes over nothing that is missing, and stops within the room.
LEMMA FrontierFacts ==
  ASSUME NEW have, NEW r \in Nat, NEW room \in Nat
  PROVE  /\ Frontier(have, r, room) \in r .. r + room
         /\ \A i \in r .. Frontier(have, r, room) - 1 : i \in have
         /\ \/ Frontier(have, r, room) = r + room
            \/ Frontier(have, r, room) \notin have
<1> DEFINE T == {n \in r .. r + room : n = r + room \/ n \notin have}
<1>1. T \in SUBSET Nat /\ r + room \in T
  OBVIOUS
<1>2. Min(T) \in T /\ \A x \in T : Min(T) <= x
  BY <1>1, NatMin
<1>3. Frontier(have, r, room) = Min(T)
  BY DEF Frontier
<1>4. ASSUME NEW i \in r .. Min(T) - 1
      PROVE  i \in have
  BY <1>2
<1> QED
  BY <1>2, <1>3, <1>4

\* imin and imax on naturals and integers.
LEMMA MinMaxFacts ==
  ASSUME NEW a \in Int, NEW b \in Int
  PROVE  /\ imin(a, b) \in Int /\ imin(a, b) <= a /\ imin(a, b) <= b
         /\ imax(a, b) \in Int /\ imax(a, b) >= a /\ imax(a, b) >= b
         /\ imin(a, b) = a \/ imin(a, b) = b
         /\ imax(a, b) = a \/ imax(a, b) = b
BY DEF imin, imax

\* The fragments of a message count down to zero.
LEMMA FragmentsFacts ==
  ASSUME NEW m \in Nat, NEW count \in Nat
  PROVE  /\ Fragments(m, count) \in Seq(Segment)
         /\ Len(Fragments(m, count)) = count
         /\ \A i \in 1..count : Fragments(m, count)[i].frg = count - i
BY DEF Fragments, Segment

\* MsgsSent is the number of the last message of the stream.
LEMMA MsgsSentType ==
  ASSUME NEW p \in Peer, stream \in [Peer -> Seq(Segment)]
  PROVE  MsgsSent(p) \in Nat
<1>1. CASE stream[p] = <<>>
  BY <1>1 DEF MsgsSent
<1>2. CASE stream[p] # <<>>
  <2>1. stream[p] \in Seq(Segment) /\ Len(stream[p]) \in 1..Len(stream[p])
    BY <1>2, EmptySeq
  <2>2. stream[p][Len(stream[p])] \in Segment
    BY <2>1
  <2> QED
    BY <1>2, <2>2 DEF MsgsSent, Segment
<1> QED
  BY <1>1, <1>2

\* Buffer f holds every number from r to n - 1.
Covers(f, r, n) == \A s \in r .. n - 1 : s \in DOMAIN f

\* A queue is the stretch of a stream that starts behind its base-th segment.
Stretch(queue, str, base) ==
  \A i \in 1..Len(queue) : queue[i] = str[base + i]

\* A buffer holds segments of a stream at their numbers.
ReadsOff(f, str) == \A s \in DOMAIN f : f[s] = str[s + 1]

\* The move loop appends the segments numbered r to n - 1 of a buffer.
LEMMA MoveType ==
  ASSUME NEW queue \in Seq(Segment), NEW f, IsBuffer(f),
         NEW r \in Nat, NEW n \in Nat, r <= n, Covers(f, r, n)
  PROVE  /\ MovedTo(queue, f, r, n) \in Seq(Segment)
         /\ Len(MovedTo(queue, f, r, n)) = Len(queue) + (n - r)
<1>1. n - r \in Nat /\ \A i \in 1 .. n - r : r + i - 1 \in r .. n - 1
  OBVIOUS
<1>2. \A i \in 1 .. n - r : f[r + i - 1] \in Segment
  BY <1>1 DEF IsBuffer, Covers
<1>3. /\ [i \in 1 .. n - r |-> f[r + i - 1]] \in Seq(Segment)
      /\ Len([i \in 1 .. n - r |-> f[r + i - 1]]) = n - r
  BY <1>1, <1>2
<1> QED
  BY <1>3, ConcatProperties DEF MovedTo

\* A queue that is a stretch of a stream stays one when the stream's next
\* segments are moved in.
LEMMA MoveStretch ==
  ASSUME NEW queue \in Seq(Segment), NEW f, IsBuffer(f),
         NEW r \in Nat, NEW n \in Nat, r <= n, Covers(f, r, n),
         NEW str, ReadsOff(f, str),
         NEW base \in Nat, base + Len(queue) = r, Stretch(queue, str, base)
  PROVE  Stretch(MovedTo(queue, f, r, n), str, base)
<1>1. PICK len \in Nat : len = Len(queue)
  BY LenProperties
<1>2. PICK tail : tail = [k \in 1 .. n - r |-> f[r + k - 1]]
  OBVIOUS
<1>3. n - r \in Nat /\ \A k \in 1 .. n - r : r + k - 1 \in r .. n - 1
  OBVIOUS
<1>4. ASSUME NEW k \in 1 .. n - r
      PROVE  tail[k] \in Segment /\ tail[k] = str[r + k]
  <2>1. PICK s : s = r + k - 1
    OBVIOUS
  <2>2. s \in DOMAIN f /\ s + 1 = r + k
    BY <1>3, <2>1 DEF Covers
  <2>3. f[s] \in Segment /\ f[s] = str[s + 1]
    BY <2>2 DEF ReadsOff, IsBuffer
  <2> QED
    BY <1>2, <2>1, <2>2, <2>3
<1>5. tail \in Seq(Segment) /\ Len(tail) = n - r
  <2>1. \A k \in 1 .. n - r : f[r + k - 1] \in Segment
    BY <1>2, <1>4
  <2>2. /\ [k \in 1 .. n - r |-> f[r + k - 1]] \in Seq(Segment)
        /\ Len([k \in 1 .. n - r |-> f[r + k - 1]]) = n - r
    BY ONLY <1>3, <2>1
  <2> QED
    BY <1>2, <2>2
<1>6. /\ Len(queue \o tail) = len + (n - r)
      /\ \A i \in 1 .. len + (n - r) :
           (queue \o tail)[i] = IF i <= len THEN queue[i] ELSE tail[i - len]
  <2>1. /\ Len(queue \o tail) = Len(queue) + Len(tail)
        /\ \A i \in 1 .. Len(queue) + Len(tail) :
             (queue \o tail)[i] = IF i <= Len(queue) THEN queue[i] ELSE tail[i - Len(queue)]
    BY ONLY <1>5, ConcatProperties, queue \in Seq(Segment)
  <2> QED
    BY <1>1, <1>5, <2>1
<1>7. ASSUME NEW i \in 1 .. len + (n - r)
      PROVE  (queue \o tail)[i] = str[base + i]
  <2>1. CASE i <= len
    BY <1>1, <1>6, <2>1 DEF Stretch
  <2>2. CASE ~(i <= len)
    <3>1. i - len \in 1 .. n - r /\ r + (i - len) = base + i
      BY ONLY <1>1, <2>2, i \in 1 .. len + (n - r), r \in Nat, n \in Nat,
              base \in Nat, base + Len(queue) = r
    <3>2. (queue \o tail)[i] = tail[i - len]
      BY <1>6, <2>2
    <3> QED
      BY <1>4, <3>1, <3>2
  <2> QED
    BY <2>1, <2>2
<1> QED
  BY <1>2, <1>6, <1>7 DEF Stretch, MovedTo

\* Dropping the first k segments of a sequence.
LEMMA DropType ==
  ASSUME NEW queue \in Seq(Segment), NEW k \in 0..Len(queue)
  PROVE  /\ SubSeq(queue, k + 1, Len(queue)) \in Seq(Segment)
         /\ Len(SubSeq(queue, k + 1, Len(queue))) = Len(queue) - k
<1>1. Len(queue) \in Nat /\ \A i \in k + 1 .. Len(queue) : queue[i] \in Segment
  OBVIOUS
<1> QED
  BY <1>1, SubSeqProperties

LEMMA DropElement ==
  ASSUME NEW queue \in Seq(Segment), NEW k \in 0..Len(queue),
         NEW i \in 1 .. Len(queue) - k
  PROVE  SubSeq(queue, k + 1, Len(queue))[i] = queue[k + i]
<1>1. Len(queue) \in Nat /\ \A j \in k + 1 .. Len(queue) : queue[j] \in Segment
  OBVIOUS
<1>2. \A j \in 1 .. Len(queue) - (k + 1) + 1 :
        SubSeq(queue, k + 1, Len(queue))[j] = queue[(k + 1) + j - 1]
  BY <1>1, SubSeqProperties
<1> QED
  BY <1>1, <1>2

-----------------------------------------------------------------------------
(* What the parts of a step do to a well-typed state *)

\* The room that the receive queue has left is a natural number.
LEMMA WndUnusedType ==
  ASSUME TypeOK, NEW p \in Peer
  PROVE  WndUnused(p) \in Nat
BY DEF TypeOK, WndUnused, imax

\* The tail of ikcp_recv moves the segments from rcv_nxt to some n.
LEMMA RefillFacts ==
  ASSUME TypeOK, NEW p \in Peer, NEW k \in 0..Len(rcv_queue[p]), Refill(p, k)
  PROVE  \E n \in Nat :
           /\ rcv_nxt[p] <= n
           /\ Covers(rcv_buf[p], rcv_nxt[p], n)
           /\ rcv_nxt' = [rcv_nxt EXCEPT ![p] = n]
           /\ rcv_buf' = [rcv_buf EXCEPT ![p] =
                            [s \in {x \in DOMAIN @ : x >= n} |-> @[s]]]
           /\ rcv_queue' = [rcv_queue EXCEPT ![p] = Refilled(p, k, n)]
           /\ probe' \in [Peer -> BOOLEAN]
<1> DEFINE room == imax(0, rcv_wnd[p] - (Len(rcv_queue[p]) - k))
           n == Frontier(DOMAIN rcv_buf[p], rcv_nxt[p], room)
<1>1. room \in Nat /\ rcv_nxt[p] \in Nat
  BY DEF TypeOK, imax
<1>2. /\ n \in rcv_nxt[p] .. rcv_nxt[p] + room
      /\ \A i \in rcv_nxt[p] .. n - 1 : i \in DOMAIN rcv_buf[p]
  BY <1>1, FrontierFacts
<1>3. n \in Nat /\ rcv_nxt[p] <= n
  BY <1>1, <1>2
<1>4. probe' \in [Peer -> BOOLEAN]
  BY DEF Refill, TypeOK
<1>5. Covers(rcv_buf[p], rcv_nxt[p], n)
  BY <1>2 DEF Covers
<1> QED
  BY <1>3, <1>4, <1>5 DEF Refill

\* The queue it leaves: the segments not taken, then those moved.
LEMMA RefilledType ==
  ASSUME TypeOK, NEW p \in Peer, NEW k \in 0..Len(rcv_queue[p]),
         NEW n \in Nat, rcv_nxt[p] <= n, Covers(rcv_buf[p], rcv_nxt[p], n)
  PROVE  /\ Refilled(p, k, n) \in Seq(Segment)
         /\ Len(Refilled(p, k, n)) = Len(rcv_queue[p]) - k + (n - rcv_nxt[p])
<1>1. rcv_queue[p] \in Seq(Segment) /\ rcv_nxt[p] \in Nat /\ IsBuffer(rcv_buf[p])
  BY DEF TypeOK
<1>2. PICK rest : rest = SubSeq(rcv_queue[p], k + 1, Len(rcv_queue[p]))
  OBVIOUS
<1>3. rest \in Seq(Segment) /\ Len(rest) = Len(rcv_queue[p]) - k
  BY <1>1, <1>2, DropType
<1>4. /\ MovedTo(rest, rcv_buf[p], rcv_nxt[p], n) \in Seq(Segment)
      /\ Len(MovedTo(rest, rcv_buf[p], rcv_nxt[p], n)) = Len(rest) + (n - rcv_nxt[p])
  BY <1>1, <1>3, MoveType
<1> QED
  BY <1>2, <1>3, <1>4 DEF Refilled

\* rcv_nxt only grows while the PUSHes of a datagram are taken, and every
\* number it passes was received by then.
LEMMA RcvNxtAtFacts ==
  ASSUME TypeOK, NEW p \in Peer, NEW push, DOMAIN push \subseteq Nat, NEW s \in Nat
  PROVE  /\ RcvNxtAt(p, push, s) \in Nat
         /\ rcv_nxt[p] <= RcvNxtAt(p, push, s)
         /\ \A i \in rcv_nxt[p] .. RcvNxtAt(p, push, s) - 1 :
              i \in DOMAIN rcv_buf[p] \/ (i \in DOMAIN push /\ i < s)
<1> DEFINE r == rcv_nxt[p]
           earlier == {x \in DOMAIN push : x < s}
           n == Frontier(DOMAIN rcv_buf[p] \cup earlier, r, WndUnused(p))
<1>1. r \in Nat /\ WndUnused(p) \in Nat
  BY WndUnusedType DEF TypeOK
<1>2. /\ n \in r .. r + WndUnused(p)
      /\ \A i \in r .. n - 1 : i \in DOMAIN rcv_buf[p] \cup earlier
  BY <1>1, FrontierFacts
<1>3. RcvNxtAt(p, push, s) = n \/ RcvNxtAt(p, push, s) = r
  BY DEF RcvNxtAt
<1> HIDE DEF n
<1> QED
  BY <1>1, <1>2, <1>3

LEMMA RcvNxtAfterFacts ==
  ASSUME TypeOK, NEW p \in Peer, NEW push
  PROVE  /\ RcvNxtAfter(p, push) \in Nat
         /\ rcv_nxt[p] <= RcvNxtAfter(p, push)
         /\ Covers(Received(p, push), rcv_nxt[p], RcvNxtAfter(p, push))
<1> DEFINE r == rcv_nxt[p]
           n == Frontier(DOMAIN rcv_buf[p] \cup Parsed(p, push), r, WndUnused(p))
<1>1. r \in Nat /\ WndUnused(p) \in Nat
  BY WndUnusedType DEF TypeOK
<1>2. /\ n \in r .. r + WndUnused(p)
      /\ \A i \in r .. n - 1 : i \in DOMAIN rcv_buf[p] \cup Parsed(p, push)
  BY <1>1, FrontierFacts
<1>3. RcvNxtAfter(p, push) = n \/ RcvNxtAfter(p, push) = r
  BY DEF RcvNxtAfter
<1>4. DOMAIN Received(p, push) = DOMAIN rcv_buf[p] \cup Parsed(p, push)
  BY DEF Received
<1> HIDE DEF n
<1> QED
  BY <1>1, <1>2, <1>3, <1>4 DEF Covers

LEMMA ReceivedType ==
  ASSUME TypeOK, NEW p \in Peer, NEW push, IsBuffer(push)
  PROVE  IsBuffer(Received(p, push))
<1>1. IsBuffer(rcv_buf[p])
  BY DEF TypeOK
<1>2. Parsed(p, push) \subseteq DOMAIN push
  BY DEF Parsed
<1>3. DOMAIN Received(p, push) = DOMAIN rcv_buf[p] \cup Parsed(p, push)
  BY DEF Received
<1>4. ASSUME NEW s \in DOMAIN Received(p, push)
      PROVE  Received(p, push)[s] \in Segment
  BY <1>1, <1>2, <1>3 DEF Received, IsBuffer
<1> QED
  BY <1>1, <1>2, <1>3, <1>4 DEF IsBuffer

\* What ikcp_input does to the receive side.
LEMMA InputPushesFacts ==
  ASSUME TypeOK, NEW p \in Peer, NEW push, IsBuffer(push), InputPushes(p, push)
  PROVE  /\ acklist' \in [Peer -> SUBSET Nat]
         /\ rcv_nxt' \in [Peer -> Nat]
         /\ DOMAIN rcv_buf' = Peer /\ \A q \in Peer : IsBuffer(rcv_buf'[q])
         /\ rcv_queue' \in [Peer -> Seq(Segment)]
<1> DEFINE n == RcvNxtAfter(p, push)
           seg == Received(p, push)
<1>1. /\ n \in Nat /\ rcv_nxt[p] \in Nat /\ rcv_nxt[p] <= n
      /\ Covers(seg, rcv_nxt[p], n)
  BY RcvNxtAfterFacts DEF TypeOK
<1>2. IsBuffer(seg)
  BY ReceivedType
<1>3. acklist' \in [Peer -> SUBSET Nat]
  BY DEF InputPushes, Acknowledged, IsBuffer, TypeOK
<1>4. rcv_nxt' \in [Peer -> Nat]
  BY <1>1 DEF InputPushes, TypeOK
<1>5. ASSUME NEW q \in Peer
      PROVE  IsBuffer(rcv_buf'[q])
  <2>1. CASE q = p
    BY <1>2, <2>1 DEF InputPushes, IsBuffer, TypeOK
  <2>2. CASE q # p
    BY <2>2 DEF InputPushes, TypeOK
  <2> QED
    BY <2>1, <2>2
<1>6. MovedTo(rcv_queue[p], seg, rcv_nxt[p], n) \in Seq(Segment)
  <2>1. rcv_queue[p] \in Seq(Segment)
    BY DEF TypeOK
  <2> HIDE DEF n, seg
  <2> QED
    BY <1>1, <1>2, <2>1, MoveType
<1>7. rcv_queue' \in [Peer -> Seq(Segment)]
  BY <1>6 DEF InputPushes, TypeOK
<1>8. DOMAIN rcv_buf' = Peer
  BY DEF InputPushes, TypeOK
<1> QED
  BY <1>3, <1>4, <1>5, <1>7, <1>8

\* snd_una after ikcp_shrink_buf: no unacknowledged number is below it.
LEMMA LowestUnackedFacts ==
  ASSUME NEW unacked \in SUBSET Nat, NEW nxt \in Nat
  PROVE  /\ LowestUnacked(unacked, nxt) \in Nat
         /\ LowestUnacked(unacked, nxt) \in unacked \cup {nxt}
         /\ \A s \in unacked : LowestUnacked(unacked, nxt) <= s
<1>1. CASE unacked = {}
  BY <1>1 DEF LowestUnacked
<1>2. CASE unacked # {}
  <2>1. Min(unacked) \in unacked /\ \A s \in unacked : Min(unacked) <= s
    BY <1>2, NatMin
  <2>2. LowestUnacked(unacked, nxt) = Min(unacked)
    BY <1>2 DEF LowestUnacked
  <2> QED
    BY <2>1, <2>2
<1> QED
  BY <1>1, <1>2

\* What ikcp_input does to the send side.
LEMMA InputAcksFacts ==
  ASSUME TypeOK, NEW p \in Peer, NEW d, d.wnd \in Nat, InputAcks(p, d)
  PROVE  /\ DOMAIN snd_buf' = Peer /\ \A q \in Peer : IsBuffer(snd_buf'[q])
         /\ snd_una' \in [Peer -> Nat]
         /\ rmt_wnd' \in [Peer -> Nat]
<1> DEFINE left == StillUnacked(p, d)
<1>1. IsBuffer(snd_buf[p]) /\ left \subseteq DOMAIN snd_buf[p] /\ snd_nxt[p] \in Nat
  BY DEF StillUnacked, TypeOK
<1>2. LowestUnacked(left, snd_nxt[p]) \in Nat
  BY <1>1, LowestUnackedFacts DEF IsBuffer
<1> HIDE DEF left
<1>3. ASSUME NEW q \in Peer
      PROVE  IsBuffer(snd_buf'[q])
  <2>1. CASE q = p
    BY <1>1, <2>1 DEF InputAcks, IsBuffer, TypeOK, left
  <2>2. CASE q # p
    BY <2>2 DEF InputAcks, TypeOK
  <2> QED
    BY <2>1, <2>2
<1> QED
  BY <1>2, <1>3 DEF InputAcks, TypeOK, left

\* ikcp_flush numbers no more segments than snd_queue has.
LEMMA MovedFacts ==
  ASSUME TypeOK, NEW p \in Peer, NEW c \in Nat
  PROVE  Moved(p, c) \in 0..Len(snd_queue[p])
<1> DEFINE cwnd == imin(c, imin(snd_wnd[p], rmt_wnd[p]))
<1>1. /\ snd_wnd[p] \in Nat /\ rmt_wnd[p] \in Nat
      /\ snd_una[p] \in Nat /\ snd_nxt[p] \in Nat /\ Len(snd_queue[p]) \in Nat
  BY DEF TypeOK
<1>2. cwnd \in Nat
  BY <1>1 DEF imin
<1>3. Moved(p, c) = imax(0, imin(Len(snd_queue[p]), snd_una[p] + cwnd - snd_nxt[p]))
  BY DEF Moved
<1> HIDE DEF cwnd
<1> QED
  BY <1>1, <1>2, <1>3 DEF imin, imax

\* The numbered segments are well typed.
LEMMA NumberedType ==
  ASSUME TypeOK, NEW p \in Peer, NEW n \in 0..Len(snd_queue[p])
  PROVE  IsBuffer(Numbered(p, n))
<1>1. /\ IsBuffer(snd_buf[p]) /\ snd_nxt[p] \in Nat
      /\ snd_queue[p] \in Seq(Segment) /\ Len(snd_queue[p]) \in Nat
  BY DEF TypeOK
<1>2. DOMAIN Numbered(p, n) = DOMAIN snd_buf[p] \cup snd_nxt[p] .. snd_nxt[p] + n - 1
  BY DEF Numbered
<1>3. ASSUME NEW s \in DOMAIN Numbered(p, n)
      PROVE  s \in Nat /\ Numbered(p, n)[s] \in Segment
  <2>1. CASE s \in DOMAIN snd_buf[p]
    BY <1>1, <2>1 DEF Numbered, IsBuffer
  <2>2. CASE s \notin DOMAIN snd_buf[p]
    <3>1. s \in Nat /\ s - snd_nxt[p] + 1 \in 1..Len(snd_queue[p])
      BY <1>1, <1>2, <2>2
    <3>2. snd_queue[p][s - snd_nxt[p] + 1] \in Segment
      BY <1>1, <3>1
    <3> QED
      BY <1>2, <2>2, <3>1, <3>2 DEF Numbered
  <2> QED
    BY <2>1, <2>2
<1> QED
  BY <1>3 DEF IsBuffer

\* The network holds nothing after a flush but what it held and what was sent.
LEMMA TransmitFacts ==
  ASSUME NEW p, NEW out, Transmit(p, out)
  PROVE  \A d \in net' : d \in net \/ d \in out
BY DEF Transmit

\* A datagram ikcp_flush emits goes to the remote endpoint, carries rcv_nxt as
\* its una, and no segment or acknowledgement but those it was given.
LEMMA OutputFacts ==
  ASSUME TypeOK, NEW p \in Peer, NEW ack, NEW ask, NEW tell, NEW push,
         NEW d \in Output(p, ack, ask, tell, push)
  PROVE  /\ d.to = Remote(p) /\ d.wnd \in Nat /\ d.una = rcv_nxt[p]
         /\ d.ack = ack \/ d.ack = {}
         /\ d.ask \in {ask, FALSE} /\ d.tell \in {tell, FALSE}
         /\ DOMAIN d.push \subseteq DOMAIN push
<1>0. \/ d = Datagram(p, ack, ask, tell, push)
      \/ d = Datagram(p, ack, ask, tell, <<>>)
      \/ \E x \in DOMAIN push :
           d = Datagram(p, {}, FALSE, FALSE, [y \in {x} |-> push[x]])
  BY Zenon DEF Output
<1>1. WndUnused(p) % WireWnd \in Nat
  <2>1. WndUnused(p) \in Nat /\ WireWnd \in Nat \ {0}
    BY WndUnusedType, WindowAssumption
  <2> QED
    BY ONLY <2>1
<1>2. CASE d = Datagram(p, ack, ask, tell, push)
  BY <1>1, <1>2 DEF Datagram
<1>3. CASE d = Datagram(p, ack, ask, tell, <<>>)
  BY <1>1, <1>3 DEF Datagram
<1>4. ASSUME NEW x \in DOMAIN push,
             d = Datagram(p, {}, FALSE, FALSE, [y \in {x} |-> push[x]])
      PROVE  /\ d.to = Remote(p) /\ d.wnd \in Nat /\ d.una = rcv_nxt[p]
             /\ d.ack = {} /\ d.ask = FALSE /\ d.tell = FALSE
             /\ DOMAIN d.push = {x}
  BY <1>1, <1>4 DEF Datagram
<1> QED
  BY <1>0, <1>2, <1>3, <1>4

LEMMA OutputElement ==
  ASSUME NEW p, NEW ack, NEW ask, NEW tell, NEW push,
         NEW d \in Output(p, ack, ask, tell, push), NEW s \in DOMAIN d.push
  PROVE  d.push[s] = push[s]
<1>0. \/ d = Datagram(p, ack, ask, tell, push)
      \/ d = Datagram(p, ack, ask, tell, <<>>)
      \/ \E x \in DOMAIN push :
           d = Datagram(p, {}, FALSE, FALSE, [y \in {x} |-> push[x]])
  BY Zenon DEF Output
<1>1. CASE d = Datagram(p, ack, ask, tell, push)
  BY <1>1 DEF Datagram
<1>2. CASE d = Datagram(p, ack, ask, tell, <<>>)
  BY <1>2 DEF Datagram
<1>3. ASSUME NEW x \in DOMAIN push,
             d = Datagram(p, {}, FALSE, FALSE, [y \in {x} |-> push[x]])
      PROVE  DOMAIN d.push = {x} /\ d.push[x] = push[x]
  BY <1>3 DEF Datagram
<1> QED
  BY <1>0, <1>1, <1>2, <1>3

-----------------------------------------------------------------------------
(* Type correctness *)

LEMMA TypeInit == Init => TypeOK
<1> SUFFICES ASSUME Init PROVE TypeOK
  OBVIOUS
<1>1. \A p \in Peer : IsBuffer(snd_buf[p]) /\ IsBuffer(rcv_buf[p])
  BY DEF Init, IsBuffer
<1> QED
  BY <1>1, WindowAssumption, BoundAssumption DEF Init, TypeOK

LEMMA TypeSend ==
  ASSUME TypeOK, NEW p \in Peer, NEW count \in Counts, Send(p, count)
  PROVE  TypeOK'
<1>1. PICK new \in Seq(Segment) :
        /\ stream' = [stream EXCEPT ![p] = @ \o new]
        /\ snd_queue' = [snd_queue EXCEPT ![p] = @ \o new]
  <2>0. stream \in [Peer -> Seq(Segment)]
    BY DEF TypeOK
  <2>1. MsgsSent(p) \in Nat /\ MsgsSent(p) + 1 \in Nat
    BY <2>0, MsgsSentType
  <2>2. count \in Nat
    BY BoundAssumption
  <2>3. Fragments(MsgsSent(p) + 1, count) \in Seq(Segment)
    BY <2>1, <2>2, FragmentsFacts
  <2> QED
    BY <2>3 DEF Send
<1>2. stream[p] \o new \in Seq(Segment) /\ snd_queue[p] \o new \in Seq(Segment)
  BY <1>1, ConcatProperties DEF TypeOK
<1>3. stream' \in [Peer -> Seq(Segment)] /\ snd_queue' \in [Peer -> Seq(Segment)]
  BY <1>1, <1>2 DEF TypeOK
<1> QED
  BY <1>3 DEF Send, TypeOK, rcvVars, wndVars, rmtVars, netVars

\* The tail of ikcp_recv keeps the receive side well typed.
LEMMA RefillType ==
  ASSUME TypeOK, NEW p \in Peer, NEW k \in 0..Len(rcv_queue[p]), Refill(p, k)
  PROVE  /\ rcv_nxt' \in [Peer -> Nat]
         /\ DOMAIN rcv_buf' = Peer /\ \A q \in Peer : IsBuffer(rcv_buf'[q])
         /\ rcv_queue' \in [Peer -> Seq(Segment)]
         /\ probe' \in [Peer -> BOOLEAN]
<1>1. PICK n \in Nat :
        /\ rcv_nxt[p] <= n
        /\ Covers(rcv_buf[p], rcv_nxt[p], n)
        /\ rcv_nxt' = [rcv_nxt EXCEPT ![p] = n]
        /\ rcv_buf' = [rcv_buf EXCEPT ![p] =
                         [s \in {x \in DOMAIN @ : x >= n} |-> @[s]]]
        /\ rcv_queue' = [rcv_queue EXCEPT ![p] = Refilled(p, k, n)]
        /\ probe' \in [Peer -> BOOLEAN]
  BY RefillFacts
<1>2. Refilled(p, k, n) \in Seq(Segment)
  BY <1>1, RefilledType
<1>3. ASSUME NEW q \in Peer
      PROVE  IsBuffer(rcv_buf'[q])
  <2>1. CASE q = p
    BY <1>1, <2>1 DEF IsBuffer, TypeOK
  <2>2. CASE q # p
    BY <1>1, <2>2 DEF TypeOK
  <2> QED
    BY <2>1, <2>2
<1> QED
  BY <1>1, <1>2, <1>3 DEF TypeOK

LEMMA TypeRecv ==
  ASSUME TypeOK, NEW p \in Peer, Recv(p)
  PROVE  TypeOK'
<1>1. PICK k \in 1..Len(rcv_queue[p]) :
        /\ delivered' = [delivered EXCEPT
                           ![p] = Append(@, SubSeq(rcv_queue[p], 1, k))]
        /\ Refill(p, k)
  BY DEF Recv
<1>2. SubSeq(rcv_queue[p], 1, k) \in Seq(Segment)
  BY <1>1, SubSeqProperties DEF TypeOK
<1>3. delivered' \in [Peer -> Seq(Seq(Segment))]
  BY <1>1, <1>2, AppendProperties DEF TypeOK
<1>4. k \in 0..Len(rcv_queue[p])
  BY <1>1
<1>5. /\ rcv_nxt' \in [Peer -> Nat]
      /\ DOMAIN rcv_buf' = Peer /\ \A q \in Peer : IsBuffer(rcv_buf'[q])
      /\ rcv_queue' \in [Peer -> Seq(Segment)]
      /\ probe' \in [Peer -> BOOLEAN]
  BY <1>1, <1>4, RefillType
<1> QED
  BY <1>3, <1>5 DEF Recv, TypeOK, sndVars, wndVars, rmtVars, netVars

LEMMA TypePeek ==
  ASSUME TypeOK, NEW p \in Peer, Peek(p)
  PROVE  TypeOK'
<1>1. 0 \in 0..Len(rcv_queue[p]) /\ Refill(p, 0)
  BY DEF Peek, TypeOK
<1>2. /\ rcv_nxt' \in [Peer -> Nat]
      /\ DOMAIN rcv_buf' = Peer /\ \A q \in Peer : IsBuffer(rcv_buf'[q])
      /\ rcv_queue' \in [Peer -> Seq(Segment)]
      /\ probe' \in [Peer -> BOOLEAN]
  BY <1>1, RefillType
<1> QED
  BY <1>2 DEF Peek, TypeOK, sndVars, wndVars, rmtVars, netVars

LEMMA TypeWndSize ==
  ASSUME TypeOK, NEW p \in Peer, NEW sndwnd \in SndWnds[p], NEW rcvwnd \in RcvWnds[p],
         WndSize(p, sndwnd, rcvwnd)
  PROVE  TypeOK'
<1>1. /\ sndwnd > 0 => sndwnd \in Nat \ {0}
      /\ imax(rcvwnd, WND_RCV) \in Nat \ {0}
  BY WindowAssumption DEF imax
<1>2. snd_wnd' \in [Peer -> Nat \ {0}] /\ rcv_wnd' \in [Peer -> Nat \ {0}]
  BY <1>1 DEF WndSize, TypeOK
<1> QED
  BY <1>2 DEF WndSize, TypeOK, sndVars, rcvVars, rmtVars, netVars

LEMMA TypeInput ==
  ASSUME TypeOK, NEW p \in Peer, NEW d, DatagramOK(d), Input(p, d),
         net' \subseteq net, faults' \in 0..MaxFaults
  PROVE  TypeOK'
<1>1. /\ DOMAIN snd_buf' = Peer /\ \A q \in Peer : IsBuffer(snd_buf'[q])
      /\ snd_una' \in [Peer -> Nat]
      /\ rmt_wnd' \in [Peer -> Nat]
  BY InputAcksFacts DEF Input, DatagramOK
<1>2. IsBuffer(d.push)
  BY DEF DatagramOK, IsBuffer
<1>3. /\ acklist' \in [Peer -> SUBSET Nat]
      /\ rcv_nxt' \in [Peer -> Nat]
      /\ DOMAIN rcv_buf' = Peer /\ \A q \in Peer : IsBuffer(rcv_buf'[q])
      /\ rcv_queue' \in [Peer -> Seq(Segment)]
  BY <1>2, InputPushesFacts DEF Input
<1>4. probe' \in [Peer -> BOOLEAN]
  BY DEF Input, TypeOK, DatagramOK
<1>5. \A e \in net' : DatagramOK(e)
  BY DEF TypeOK
<1> QED
  BY <1>1, <1>3, <1>4, <1>5 DEF Input, TypeOK, wndVars

\* What ikcp_flush emits is well typed.
LEMMA OutputType ==
  ASSUME TypeOK, NEW p \in Peer, NEW due \in BOOLEAN, NEW push, IsBuffer(push),
         NEW d \in Output(p, acklist[p], due, probe[p], push)
  PROVE  DatagramOK(d)
<1>1. /\ d.to = Remote(p) /\ d.wnd \in Nat /\ d.una = rcv_nxt[p]
      /\ d.ack = acklist[p] \/ d.ack = {}
      /\ d.ask \in {due, FALSE} /\ d.tell \in {probe[p], FALSE}
      /\ DOMAIN d.push \subseteq DOMAIN push
  BY OutputFacts
<1>2. \A s \in DOMAIN d.push : d.push[s] = push[s]
  BY OutputElement
<1>3. DOMAIN d.push \subseteq Nat /\ \A s \in DOMAIN d.push : d.push[s] \in Segment
  BY <1>1, <1>2 DEF IsBuffer
<1>4. d.to \in Peer /\ d.una \in Nat
  BY <1>1, RemoteFacts DEF TypeOK
<1>5. d.ack \subseteq Nat /\ d.ask \in BOOLEAN /\ d.tell \in BOOLEAN
  BY <1>1 DEF TypeOK
<1> QED
  BY <1>1, <1>3, <1>4, <1>5 DEF DatagramOK

LEMMA TypeFlush ==
  ASSUME TypeOK, NEW p \in Peer, NEW c \in Nat,
         NEW resend \in SUBSET DOMAIN snd_buf[p], NEW due \in BOOLEAN,
         Flush(p, c, resend, due)
  PROVE  TypeOK'
<1>1. PICK n \in 0..Len(snd_queue[p]) : n = Moved(p, c)
  BY MovedFacts
<1>2. PICK buf : buf = Numbered(p, n)
  OBVIOUS
<1>3. PICK push : push = [s \in resend \cup snd_nxt[p] .. snd_nxt[p] + n - 1 |-> buf[s]]
  OBVIOUS
<1>4. /\ acklist' = [acklist EXCEPT ![p] = {}]
      /\ probe' = [probe EXCEPT ![p] = FALSE]
      /\ probing' = [probing EXCEPT ![p] = rmt_wnd[p] = 0]
      /\ snd_queue' = [snd_queue EXCEPT ![p] = SubSeq(@, n + 1, Len(@))]
      /\ snd_buf' = [snd_buf EXCEPT ![p] = buf]
      /\ snd_nxt' = [snd_nxt EXCEPT ![p] = @ + n]
      /\ Transmit(p, Output(p, acklist[p], due, probe[p], push))
      /\ UNCHANGED <<stream, snd_una, delivered, rcv_nxt, rcv_buf, rcv_queue,
                     rmt_wnd, wndVars, faults>>
  BY <1>1, <1>2, <1>3 DEF Flush
<1>5. IsBuffer(buf)
  BY <1>2, NumberedType
<1>6. IsBuffer(push)
  <2>1. DOMAIN buf = DOMAIN snd_buf[p] \cup snd_nxt[p] .. snd_nxt[p] + n - 1
    BY <1>2 DEF Numbered
  <2> QED
    BY <1>3, <1>5, <2>1 DEF IsBuffer
<1>7. \A d \in net' : DatagramOK(d)
  <2>1. \A d \in Output(p, acklist[p], due, probe[p], push) : DatagramOK(d)
    BY <1>6, OutputType
  <2>2. \A d \in net' : d \in net \/ d \in Output(p, acklist[p], due, probe[p], push)
    BY <1>4, TransmitFacts
  <2> QED
    BY <2>1, <2>2 DEF TypeOK
<1>8. \A q \in Peer : IsBuffer(snd_buf'[q])
  <2>1. \A q \in Peer : snd_buf'[q] = buf \/ snd_buf'[q] = snd_buf[q]
    BY <1>4
  <2> QED
    BY <1>5, <2>1 DEF TypeOK
<1>9. snd_queue' \in [Peer -> Seq(Segment)]
  <2>1. SubSeq(snd_queue[p], n + 1, Len(snd_queue[p])) \in Seq(Segment)
    BY DropType DEF TypeOK
  <2> QED
    BY <1>4, <2>1 DEF TypeOK
<1>10. snd_nxt' \in [Peer -> Nat]
  BY <1>4 DEF TypeOK
<1>11. /\ acklist' \in [Peer -> SUBSET Nat]
       /\ probe' \in [Peer -> BOOLEAN]
       /\ probing' \in [Peer -> BOOLEAN]
  BY <1>4 DEF TypeOK
<1> QED
  BY <1>4, <1>7, <1>8, <1>9, <1>10, <1>11 DEF TypeOK, wndVars

LEMMA TypeStep == TypeOK /\ [Next]_vars => TypeOK'
<1> SUFFICES ASSUME TypeOK, [Next]_vars
             PROVE  TypeOK'
  OBVIOUS
<1>1. ASSUME NEW p \in Peer, NEW count \in Counts, Send(p, count)
      PROVE  TypeOK'
  BY <1>1, TypeSend
<1>2. ASSUME NEW p \in Peer, Recv(p)
      PROVE  TypeOK'
  BY <1>2, TypeRecv
<1>3. ASSUME NEW p \in Peer, Peek(p)
      PROVE  TypeOK'
  BY <1>3, TypePeek
<1>4. ASSUME NEW p \in Peer, NEW sndwnd \in SndWnds[p], NEW rcvwnd \in RcvWnds[p],
             WndSize(p, sndwnd, rcvwnd)
      PROVE  TypeOK'
  BY <1>4, TypeWndSize
<1>5. ASSUME NEW p \in Peer, AnyFlush(p)
      PROVE  TypeOK'
  <2>1. PICK c \in 0..snd_wnd[p], resend \in SUBSET DOMAIN snd_buf[p], due \in BOOLEAN :
          Flush(p, c, resend, due)
    BY <1>5 DEF AnyFlush
  <2>2. c \in Nat
    BY <2>1
  <2> QED
    BY <2>1, <2>2, TypeFlush
<1>6. ASSUME NEW p \in Peer, Deliver(p)
      PROVE  TypeOK'
  <2>1. PICK d \in net : Input(p, d) /\ net' = net \ {d} /\ UNCHANGED faults
    BY <1>6 DEF Deliver
  <2>2. DatagramOK(d) /\ faults' \in 0..MaxFaults /\ net' \subseteq net
    BY <2>1 DEF TypeOK
  <2> QED
    BY <2>1, <2>2, TypeInput
<1>7. ASSUME NEW p \in Peer, DeliverCopy(p)
      PROVE  TypeOK'
  <2>1. PICK d \in net : Input(p, d) /\ UNCHANGED net
    BY <1>7 DEF DeliverCopy
  <2>2. DatagramOK(d) /\ faults' \in 0..MaxFaults /\ net' \subseteq net
    BY <1>7, <2>1, BoundAssumption DEF DeliverCopy, TypeOK
  <2> QED
    BY <2>1, <2>2, TypeInput
<1>8. CASE Lose
  BY <1>8, BoundAssumption
  DEF Lose, TypeOK, sndVars, rcvVars, wndVars, rmtVars
<1>9. CASE UNCHANGED vars
  BY <1>9 DEF vars, sndVars, rcvVars, wndVars, rmtVars, netVars, TypeOK
<1> QED
  BY <1>1, <1>2, <1>3, <1>4, <1>5, <1>6, <1>7, <1>8, <1>9 DEF Next

\* The fields of both control blocks and every datagram in flight keep their
\* types (ikcpcb and the header that ikcp_encode_seg writes).
THEOREM TypeCorrect == Spec => []TypeOK
BY TypeInit, TypeStep, PTL DEF Spec

-----------------------------------------------------------------------------
(* The inductive invariant *)

\* What no step undoes: numbered segments, data taken, and rcv_nxt.
Progress ==
  \A p \in Peer :
    /\ snd_nxt[p] <= snd_nxt'[p]
    /\ \A s \in 0 .. snd_nxt[p] - 1 : stream'[p][s + 1] = stream[p][s + 1]
    /\ Held(p) \subseteq Held(p)'
    /\ rcv_nxt[p] <= rcv_nxt'[p]

\* A buffer that agrees with a stream goes on doing so.
LEMMA AgreesStays ==
  ASSUME TypeOK, TypeOK', Progress, NEW p \in Peer, NEW f, DOMAIN f \subseteq Nat, Agrees(p, f)
  PROVE  Agrees(p, f)'
<1>1. snd_nxt[p] \in Nat /\ snd_nxt'[p] \in Nat
  BY DEF TypeOK
<1>2. /\ snd_nxt[p] <= snd_nxt'[p]
      /\ \A s \in 0 .. snd_nxt[p] - 1 : stream'[p][s + 1] = stream[p][s + 1]
  BY DEF Progress
<1>3. ASSUME NEW s \in DOMAIN f
      PROVE  s < snd_nxt'[p] /\ f[s] = stream'[p][s + 1]
  <2>1. s \in Nat /\ s < snd_nxt[p] /\ f[s] = stream[p][s + 1]
    BY DEF Agrees
  <2> QED
    BY <1>1, <1>2, <2>1
<1> QED
  BY <1>3 DEF Agrees

\* A datagram in flight stays truthful while its sender and receiver move on.
LEMMA TruthfulStays ==
  ASSUME TypeOK, TypeOK', Progress, NEW d, DatagramOK(d), Truthful(d)
  PROVE  Truthful(d)'
<1>1. d.to \in Peer /\ Remote(d.to) \in Peer /\ DOMAIN d.push \subseteq Nat /\ d.una \in Nat
  BY RemoteFacts DEF DatagramOK
<1>2. Agrees(Remote(d.to), d.push)'
  BY <1>1, AgreesStays DEF Truthful
<1>3. d.ack \subseteq Held(d.to)'
  BY <1>1 DEF Truthful, Progress
<1>4. d.una <= rcv_nxt'[Remote(d.to)]
  <2>1. PICK q \in Peer : q = Remote(d.to)
    BY <1>1
  <2>2. rcv_nxt[q] \in Nat /\ rcv_nxt'[q] \in Nat
    BY DEF TypeOK
  <2>3. d.una <= rcv_nxt[q] /\ rcv_nxt[q] <= rcv_nxt'[q]
    BY <2>1 DEF Truthful, Progress
  <2> QED
    BY <1>1, <2>1, <2>2, <2>3
<1> QED
  BY <1>2, <1>3, <1>4 DEF Truthful

\* A queue without its first segments starts later in the same stream.
LEMMA DropStretch ==
  ASSUME NEW queue \in Seq(Segment), NEW k \in 0..Len(queue), NEW str,
         NEW base \in Int, Stretch(queue, str, base)
  PROVE  Stretch(SubSeq(queue, k + 1, Len(queue)), str, base + k)
<1>1. PICK rest : rest = SubSeq(queue, k + 1, Len(queue))
  OBVIOUS
<1>2. Len(queue) \in Nat /\ Len(rest) = Len(queue) - k
  BY <1>1, DropType
<1>3. ASSUME NEW i \in 1..Len(rest)
      PROVE  rest[i] = str[(base + k) + i]
  <2>1. i \in 1 .. Len(queue) - k /\ k + i \in 1..Len(queue) /\ base + (k + i) = (base + k) + i
    BY ONLY <1>2, i \in 1..Len(rest), k \in 0..Len(queue), base \in Int
  <2>2. rest[i] = queue[k + i]
    BY <1>1, <2>1, DropElement
  <2>3. queue[k + i] = str[base + (k + i)]
    BY <2>1 DEF Stretch
  <2> QED
    BY <2>1, <2>2, <2>3
<1> QED
  BY <1>1, <1>3 DEF Stretch

\* A queue whose first k segments have been read.
Rest(queue, k) == SubSeq(queue, k + 1, Len(queue))

\* The heart of the receive side, for ikcp_recv and ikcp_input alike: k
\* segments leave the queue, and those of buffer f move in up to n - 1.
LEMMA MoveInStream ==
  ASSUME NEW queue \in Seq(Segment), NEW k \in 0..Len(queue),
         NEW f, IsBuffer(f), NEW str, ReadsOff(f, str),
         NEW r \in Nat, NEW n \in Nat, r <= n, Covers(f, r, n),
         NEW read \in Nat, read + Len(queue) = r, Stretch(queue, str, read),
         NEW new, new = MovedTo(Rest(queue, k), f, r, n)
  PROVE  /\ Len(new) \in Nat
         /\ Len(new) <= n
         /\ Stretch(new, str, n - Len(new))
<1>1. PICK len \in Nat : len = Len(queue)
  BY LenProperties
<1>2. PICK rest \in Seq(Segment) : rest = Rest(queue, k)
  BY DropType DEF Rest
<1>3. Len(rest) = len - k
  BY <1>1, <1>2, DropType DEF Rest
<1>4. PICK base \in Nat : base = read + k
  OBVIOUS
<1>5. Stretch(rest, str, base)
  BY <1>2, <1>4, DropStretch DEF Rest
<1>6. new = MovedTo(rest, f, r, n)
  BY <1>2
<1>7. new \in Seq(Segment) /\ Len(new) = Len(rest) + (n - r)
  <2>1. /\ MovedTo(rest, f, r, n) \in Seq(Segment)
        /\ Len(MovedTo(rest, f, r, n)) = Len(rest) + (n - r)
    BY MoveType, rest \in Seq(Segment)
  <2> QED
    BY ONLY <1>6, <2>1
<1>8. PICK new_len \in Nat : new_len = Len(new)
  BY <1>7, LenProperties
<1>9. base + Len(rest) = r /\ n - new_len = base /\ new_len <= n
  <2>1. PICK left \in Nat : left = Len(rest)
    BY LenProperties
  <2>2. left = len - k /\ k \in 0..len /\ read + len = r
    BY ONLY <1>1, <1>3, <2>1, k \in 0..Len(queue), read + Len(queue) = r
  <2>3. new_len = left + (n - r)
    BY ONLY <1>7, <1>8, <2>1
  <2>4. base + left = r /\ n - new_len = base /\ new_len <= n
    BY ONLY <1>4, <2>2, <2>3, r <= n, r \in Nat, n \in Nat, read \in Nat,
            len \in Nat, base \in Nat, new_len \in Nat, left \in Nat
  <2> QED
    BY ONLY <2>1, <2>4
<1>10. Stretch(MovedTo(rest, f, r, n), str, base)
  BY <1>5, <1>9, MoveStretch
<1> QED
  BY <1>6, <1>8, <1>9, <1>10

\* So a step that moves segments on the receive side keeps its direction, and
\* takes the whole of the buffer it moves from.
LEMMA MoveKeepsDirection ==
  ASSUME TypeOK, NEW p \in Peer, NEW q \in Peer, q = Remote(p),
         Queued(p), Direction(p),
         NEW f, IsBuffer(f), Agrees(p, f), DOMAIN rcv_buf[q] \subseteq DOMAIN f,
         NEW k \in 0..Len(rcv_queue[q]),
         NEW n \in Nat, rcv_nxt[q] <= n, Covers(f, rcv_nxt[q], n),
         stream' = stream, snd_nxt' = snd_nxt,
         rcv_nxt'[q] = n,
         rcv_buf'[q] = [s \in {x \in DOMAIN f : x >= n} |-> f[s]],
         rcv_queue'[q] = MovedTo(SubSeq(rcv_queue[q], k + 1, Len(rcv_queue[q])),
                                 f, rcv_nxt[q], n)
  PROVE  /\ Agrees(p, rcv_buf[q])'
         /\ rcv_nxt'[q] <= snd_nxt'[p]
         /\ Held(p) \subseteq Held(p)'
         /\ DOMAIN f \subseteq Held(p)'
         /\ InStream(p)'
<1>1. PICK r \in Nat : r = rcv_nxt[q]
  BY DEF TypeOK
<1>2. PICK queue \in Seq(Segment) : queue = rcv_queue[q]
  BY DEF TypeOK
<1>3. PICK str \in Seq(Segment) : str = stream[p]
  BY DEF TypeOK
<1>4. PICK nxt \in Nat : nxt = snd_nxt[p]
  BY DEF TypeOK
<1>5. r <= nxt /\ \E read \in Nat : read + Len(queue) = r /\ Stretch(queue, str, read)
  <2>1. /\ r <= nxt /\ 0 <= r - Len(queue)
        /\ \A i \in 1..Len(queue) : queue[i] = str[r - Len(queue) + i]
    BY <1>1, <1>2, <1>3, <1>4 DEF Direction, InStream
  <2>2. Len(queue) \in Nat
    BY LenProperties
  <2>3. PICK read \in Nat : read = r - Len(queue)
    BY ONLY <2>1, <2>2, r \in Nat
  <2>4. read + Len(queue) = r
    BY ONLY <2>2, <2>3, r \in Nat
  <2> QED
    BY <2>1, <2>3, <2>4 DEF Stretch
<1>6. nxt <= Len(str)
  <2>1. Len(str) = nxt + Len(snd_queue[p]) /\ snd_queue[p] \in Seq(Segment)
    BY <1>3, <1>4 DEF Queued, TypeOK
  <2>2. Len(snd_queue[p]) \in Nat
    BY <2>1, LenProperties
  <2> QED
    BY ONLY <2>1, <2>2, nxt \in Nat
<1>7. DOMAIN f \subseteq Nat /\ \A s \in DOMAIN f : s < nxt /\ f[s] = str[s + 1]
  BY <1>3, <1>4 DEF IsBuffer, Agrees
<1>8. Agrees(p, rcv_buf[q])'
  BY <1>3, <1>4, <1>7 DEF Agrees
<1>9. r <= n /\ Covers(f, r, n)
  BY <1>1
<1>10. n <= nxt
  <2>1. CASE n = r
    BY <1>5, <2>1
  <2>2. CASE n # r
    <3>1. n - 1 \in r .. n - 1
      BY ONLY <1>9, <2>2, r \in Nat, n \in Nat
    <3>2. n - 1 < nxt
      BY <1>7, <1>9, <3>1 DEF Covers
    <3> QED
      BY ONLY <3>2, n \in Nat, nxt \in Nat
  <2> QED
    BY <2>1, <2>2
<1>11. Held(p) = 0 .. r - 1 \cup DOMAIN rcv_buf[q]
       /\ Held(p)' = 0 .. n - 1 \cup {x \in DOMAIN f : x >= n}
  BY <1>1 DEF Held
<1>12. DOMAIN f \subseteq Held(p)'
  BY <1>7, <1>11
<1>13. Held(p) \subseteq Held(p)'
  <2>1. 0 .. r - 1 \subseteq 0 .. n - 1
    BY ONLY <1>9, r \in Nat, n \in Nat
  <2> QED
    BY <1>11, <1>12, <2>1
<1>14. InStream(p)'
  <2>1. PICK new : new = MovedTo(Rest(queue, k), f, r, n)
    OBVIOUS
  <2>2. ReadsOff(f, str)
    BY <1>7 DEF ReadsOff
  <2>3. k \in 0..Len(queue)
    BY <1>2
  <2>4. Len(new) \in Nat /\ Len(new) <= n /\ Stretch(new, str, n - Len(new))
    <3>1. PICK read \in Nat : read + Len(queue) = r /\ Stretch(queue, str, read)
      BY <1>5
    <3> QED
      BY ONLY MoveInStream, <1>9, <2>1, <2>2, <2>3, <3>1, IsBuffer(f),
              queue \in Seq(Segment), r \in Nat, n \in Nat
  <2>5. rcv_queue'[q] = new /\ rcv_nxt'[q] = n /\ stream'[p] = str
    BY <1>1, <1>2, <1>3, <2>1 DEF Rest
  <2>6. 0 <= n - Len(new) /\ n <= Len(str)
    <3>1. Len(str) \in Nat
      BY LenProperties
    <3> QED
      BY ONLY <1>6, <1>10, <2>4, <3>1, n \in Nat, nxt \in Nat
  <2> QED
    BY <2>4, <2>5, <2>6 DEF InStream, Stretch
<1> QED
  BY <1>4, <1>8, <1>10, <1>12, <1>13, <1>14

\* A step that touches neither end of a direction, but for acknowledgements
\* that leave acklist, keeps it.
LEMMA DirectionStays ==
  ASSUME TypeOK, NEW p \in Peer, NEW q \in Peer, q = Remote(p), Direction(p),
         stream'[p] = stream[p], snd_buf'[p] = snd_buf[p],
         snd_una'[p] = snd_una[p], snd_nxt'[p] = snd_nxt[p],
         rcv_nxt'[q] = rcv_nxt[q], rcv_buf'[q] = rcv_buf[q],
         rcv_queue'[q] = rcv_queue[q], acklist'[q] \subseteq acklist[q]
  PROVE  Direction(p)' /\ Held(p)' = Held(p)
<1>1. Held(p)' = Held(p)
  BY DEF Held
<1>2. Agrees(p, snd_buf[p])' /\ Agrees(p, rcv_buf[q])'
  BY DEF Direction, Agrees
<1>3. snd_una'[p] <= snd_nxt'[p] /\ \A s \in DOMAIN snd_buf'[p] : s >= snd_una'[p]
  BY DEF Direction
<1>4. rcv_nxt'[q] <= snd_nxt'[p] /\ acklist'[q] \subseteq Held(p)'
  BY <1>1 DEF Direction
<1>5. InHands(p)'
  BY <1>1 DEF Direction, InHands
<1>6. InStream(p)'
  BY DEF Direction, InStream
<1> QED
  BY <1>1, <1>2, <1>3, <1>4, <1>5, <1>6 DEF Direction

\* The queue of p is still the end of its stream when neither has changed.
LEMMA QueuedStays ==
  ASSUME NEW p \in Peer, Queued(p), Fits(p),
         stream'[p] = stream[p], snd_nxt'[p] = snd_nxt[p],
         snd_queue'[p] = snd_queue[p], rcv_wnd'[p] = rcv_wnd[p]
  PROVE  Queued(p)' /\ Fits(p)'
BY DEF Queued, Fits

\* A step keeps the inductive invariant when it keeps both directions, undoes
\* nothing and sends only what is true.
LEMMA KeepsIInv ==
  ASSUME IInv, TypeOK', Progress,
         \A p \in Peer : Queued(p)' /\ Fits(p)' /\ Direction(p)',
         \A d \in net' : d \in net \/ Truthful(d)'
  PROVE  IInv'
<1>1. ASSUME NEW d \in net'
      PROVE  Truthful(d)'
  <2>1. CASE d \in net
    <3>1. TypeOK /\ DatagramOK(d) /\ Truthful(d)
      BY <2>1 DEF IInv, TypeOK
    <3> QED
      BY <3>1, TruthfulStays
  <2>2. CASE d \notin net
    BY <2>2
  <2> QED
    BY <2>1, <2>2
<1> QED
  BY <1>1 DEF IInv

\* The two endpoints of a step: one is p, the other its remote q.
LEMMA BothPeers ==
  ASSUME NEW p \in Peer
  PROVE  \E q \in Peer : /\ q = Remote(p) /\ p = Remote(q) /\ p # q
                         /\ \A x \in Peer : x = p \/ x = q
BY RemoteFacts

\* The receive side of q moves on with the segments of f, and p is its remote.
LEMMA ReceiveKeepsIInv ==
  ASSUME IInv, TypeOK', NEW p \in Peer, NEW q \in Peer,
         q = Remote(p), p = Remote(q), p # q,
         NEW f, IsBuffer(f), Agrees(p, f), DOMAIN rcv_buf[q] \subseteq DOMAIN f,
         NEW k \in 0..Len(rcv_queue[q]),
         NEW n \in Nat, rcv_nxt[q] <= n, Covers(f, rcv_nxt[q], n),
         stream' = stream, snd_nxt' = snd_nxt,
         rcv_nxt' = [rcv_nxt EXCEPT ![q] = n],
         rcv_buf' = [rcv_buf EXCEPT ![q] = [s \in {x \in DOMAIN f : x >= n} |-> f[s]]],
         rcv_queue' = [rcv_queue EXCEPT ![q] =
                         MovedTo(SubSeq(rcv_queue[q], k + 1, Len(rcv_queue[q])),
                                 f, rcv_nxt[q], n)],
         snd_buf'[p] = snd_buf[p], snd_una'[p] = snd_una[p],
         acklist'[q] \subseteq acklist[q] \cup DOMAIN f \cup 0 .. n - 1
  PROVE  Direction(p)' /\ Held(p) \subseteq Held(p)'
<1>1. TypeOK /\ Queued(p) /\ Direction(p)
  BY DEF IInv
<1>2. /\ rcv_nxt'[q] = n
      /\ rcv_buf'[q] = [s \in {x \in DOMAIN f : x >= n} |-> f[s]]
      /\ rcv_queue'[q] = MovedTo(SubSeq(rcv_queue[q], k + 1, Len(rcv_queue[q])),
                                 f, rcv_nxt[q], n)
  <2>1. q \in DOMAIN rcv_nxt /\ q \in DOMAIN rcv_buf /\ q \in DOMAIN rcv_queue
    BY <1>1 DEF TypeOK
  <2> QED
    BY <2>1
<1>3. /\ Agrees(p, rcv_buf[q])'
      /\ rcv_nxt'[q] <= snd_nxt'[p]
      /\ Held(p) \subseteq Held(p)'
      /\ DOMAIN f \subseteq Held(p)'
      /\ InStream(p)'
  BY <1>1, <1>2, MoveKeepsDirection, ZenonT(40)
<1>4. Agrees(p, snd_buf[p])'
  BY <1>1 DEF Direction, Agrees
<1>5. snd_una'[p] <= snd_nxt'[p] /\ \A s \in DOMAIN snd_buf'[p] : s >= snd_una'[p]
  BY <1>1 DEF Direction
<1>6. acklist'[q] \subseteq Held(p)'
  <2>1. 0 .. n - 1 \subseteq Held(p)'
    BY <1>2 DEF Held
  <2>2. acklist[q] \subseteq Held(p)
    BY <1>1 DEF Direction
  <2> QED
    BY <1>3, <2>1, <2>2
<1>7. InHands(p)'
  BY <1>1, <1>3 DEF Direction, InHands
<1> QED
  BY <1>3, <1>4, <1>5, <1>6, <1>7 DEF Direction

\* ikcp_recv, and its peeking form: k segments leave the queue of q.
LEMMA RefillKeepsIInv ==
  ASSUME IInv, TypeOK', NEW q \in Peer, NEW k \in 0..Len(rcv_queue[q]), Refill(q, k),
         UNCHANGED <<acklist, sndVars, wndVars, net>>
  PROVE  IInv'
<1>1. PICK p \in Peer : p = Remote(q) /\ q = Remote(p) /\ p # q
                        /\ \A x \in Peer : x = p \/ x = q
  BY BothPeers
<1>2. TypeOK /\ Direction(p) /\ Direction(q)
  BY DEF IInv
<1>3. PICK n \in Nat :
        /\ rcv_nxt[q] <= n
        /\ Covers(rcv_buf[q], rcv_nxt[q], n)
        /\ rcv_nxt' = [rcv_nxt EXCEPT ![q] = n]
        /\ rcv_buf' = [rcv_buf EXCEPT ![q] =
                         [s \in {x \in DOMAIN @ : x >= n} |-> @[s]]]
        /\ rcv_queue' = [rcv_queue EXCEPT ![q] = Refilled(q, k, n)]
        /\ probe' \in [Peer -> BOOLEAN]
  BY <1>2, RefillFacts
<1>4. PICK f : f = rcv_buf[q]
  OBVIOUS
<1>5. IsBuffer(f) /\ Agrees(p, f) /\ DOMAIN rcv_buf[q] \subseteq DOMAIN f
  BY <1>1, <1>2, <1>4 DEF TypeOK, Direction
<1>6. /\ stream' = stream /\ snd_nxt' = snd_nxt
      /\ snd_buf' = snd_buf /\ snd_una' = snd_una
      /\ acklist' = acklist /\ net' = net
      /\ snd_queue' = snd_queue /\ rcv_wnd' = rcv_wnd
  BY DEF sndVars, wndVars
<1>7. Direction(p)' /\ Held(p) \subseteq Held(p)'
  <2>1. /\ Covers(f, rcv_nxt[q], n)
        /\ rcv_buf' = [rcv_buf EXCEPT ![q] = [s \in {x \in DOMAIN f : x >= n} |-> f[s]]]
        /\ rcv_queue' = [rcv_queue EXCEPT ![q] =
                           MovedTo(SubSeq(rcv_queue[q], k + 1, Len(rcv_queue[q])),
                                   f, rcv_nxt[q], n)]
    BY <1>3, <1>4 DEF Refilled
  <2>2. acklist'[q] \subseteq acklist[q] \cup DOMAIN f \cup 0 .. n - 1
    BY <1>6
  <2> QED
    BY <1>1, <1>3, <1>5, <1>6, <2>1, <2>2, ReceiveKeepsIInv
<1>8. rcv_nxt'[p] = rcv_nxt[p] /\ rcv_buf'[p] = rcv_buf[p] /\ rcv_queue'[p] = rcv_queue[p]
  BY <1>1, <1>3
<1>9. Direction(q)' /\ Held(q)' = Held(q)
  BY <1>1, <1>2, <1>6, <1>8, DirectionStays
<1>10. Progress
  <2>1. \A x \in Peer : Held(x) \subseteq Held(x)'
    BY <1>1, <1>7, <1>9
  <2>2. rcv_nxt'[q] = n
    BY <1>2, <1>3 DEF TypeOK
  <2>3. \A x \in Peer : rcv_nxt[x] <= rcv_nxt'[x]
    <3>1. rcv_nxt[p] \in Nat
      BY <1>2 DEF TypeOK
    <3>2. rcv_nxt[p] <= rcv_nxt'[p] /\ rcv_nxt[q] <= rcv_nxt'[q]
      BY <1>3, <1>8, <2>2, <3>1
    <3> QED
      BY <1>1, <3>2
  <2>4. \A x \in Peer : snd_nxt[x] <= snd_nxt'[x]
    BY <1>2, <1>6 DEF TypeOK
  <2> QED
    BY <1>6, <2>1, <2>3, <2>4 DEF Progress
<1>11. \A x \in Peer : Queued(x)' /\ Fits(x)'
  BY <1>6, QueuedStays DEF IInv
<1> QED
  BY <1>1, <1>6, <1>7, <1>9, <1>10, <1>11, KeepsIInv

LEMMA RecvKeepsIInv ==
  ASSUME IInv, TypeOK', NEW p \in Peer, Recv(p)
  PROVE  IInv'
<1>1. PICK k \in 1..Len(rcv_queue[p]) : Refill(p, k)
  BY DEF Recv
<1>2. k \in 0..Len(rcv_queue[p]) /\ UNCHANGED <<acklist, sndVars, wndVars, net>>
  BY <1>1 DEF Recv, netVars
<1> QED
  BY <1>1, <1>2, RefillKeepsIInv

LEMMA PeekKeepsIInv ==
  ASSUME IInv, TypeOK', NEW p \in Peer, Peek(p)
  PROVE  IInv'
<1>1. Refill(p, 0) /\ UNCHANGED <<acklist, sndVars, wndVars, net>>
  BY DEF Peek, netVars
<1>2. 0 \in 0..Len(rcv_queue[p])
  BY DEF IInv, TypeOK
<1> QED
  BY <1>1, <1>2, RefillKeepsIInv

\* The acknowledgements of a datagram: what they remove from snd_buf is in the
\* receiver's hands, and snd_una goes no further than what is left.
LEMMA AcksKeepDirection ==
  ASSUME TypeOK, NEW p \in Peer, NEW q \in Peer, q = Remote(p), Direction(p),
         NEW d, d.una \in Nat, d.ack \subseteq Held(p), d.una <= rcv_nxt[q],
         InputAcks(p, d),
         stream' = stream, snd_nxt' = snd_nxt,
         rcv_nxt'[q] = rcv_nxt[q], rcv_buf'[q] = rcv_buf[q],
         rcv_queue'[q] = rcv_queue[q], acklist'[q] = acklist[q]
  PROVE  Direction(p)' /\ Held(p)' = Held(p)
<1>1. Held(p)' = Held(p)
  BY DEF Held
<1>2. PICK left : left = StillUnacked(p, d)
  OBVIOUS
<1>3. PICK nxt \in Nat : nxt = snd_nxt[p]
  BY DEF TypeOK
<1>4. PICK buf : buf = snd_buf[p]
  OBVIOUS
<1>5. /\ DOMAIN buf \subseteq Nat /\ snd_una[p] \in Nat /\ rcv_nxt[q] \in Nat
      /\ \A s \in DOMAIN buf : s < nxt /\ buf[s] = stream[p][s + 1]
      /\ \A s \in DOMAIN buf : s >= snd_una[p]
      /\ snd_una[p] <= nxt
  BY <1>3, <1>4 DEF TypeOK, IsBuffer, Direction, Agrees
<1>6. left \subseteq DOMAIN buf
  BY <1>2, <1>4 DEF StillUnacked
<1>7. ASSUME NEW s \in DOMAIN buf, s \notin left
      PROVE  s < d.una \/ s \in d.ack
  BY <1>2, <1>4, <1>5, <1>7 DEF StillUnacked
<1>8. /\ snd_buf'[p] = [s \in left |-> buf[s]]
      /\ snd_una'[p] = LowestUnacked(left, nxt)
  BY <1>2, <1>3, <1>4 DEF InputAcks, TypeOK
<1>9. /\ LowestUnacked(left, nxt) \in Nat
      /\ LowestUnacked(left, nxt) \in left \cup {nxt}
      /\ \A s \in left : LowestUnacked(left, nxt) <= s
  <2>1. left \in SUBSET Nat
    BY <1>5, <1>6
  <2> QED
    BY <2>1, LowestUnackedFacts
<1>10. PICK una \in Nat : una = LowestUnacked(left, nxt)
  BY <1>9
<1>11. una <= nxt
  BY <1>5, <1>6, <1>9, <1>10
<1>12. Agrees(p, snd_buf[p])'
  BY <1>3, <1>5, <1>6, <1>8 DEF Agrees
<1>13. snd_una'[p] <= snd_nxt'[p] /\ \A s \in DOMAIN snd_buf'[p] : s >= snd_una'[p]
  BY <1>3, <1>5, <1>6, <1>8, <1>9, <1>10, <1>11
<1>14. InHands(p)'
  <2>1. ASSUME NEW s \in 0 .. nxt - 1, s \notin left
        PROVE  s \in Held(p)
    <3>1. CASE s \notin DOMAIN buf
      BY <1>3, <1>4, <3>1 DEF Direction, InHands
    <3>2. CASE s \in DOMAIN buf
      <4>1. CASE s < d.una
        BY <1>5, <4>1 DEF Held
      <4>2. CASE s \in d.ack
        BY <4>2
      <4> QED
        BY <1>7, <2>1, <3>2, <4>1, <4>2
    <3> QED
      BY <3>1, <3>2
  <2> QED
    BY <1>1, <1>3, <1>8, <2>1 DEF InHands
<1>15. Agrees(p, rcv_buf[q])'
  BY DEF Direction, Agrees
<1>16. rcv_nxt'[q] <= snd_nxt'[p] /\ acklist'[q] \subseteq Held(p)'
  BY <1>1 DEF Direction
<1>17. InStream(p)'
  BY DEF Direction, InStream
<1> QED
  BY <1>1, <1>8, <1>10, <1>11, <1>12, <1>13, <1>14, <1>15, <1>16, <1>17 DEF Direction

\* What a datagram leaves in rcv_buf, before the move loop, is still the
\* sender's stream.
LEMMA ReceivedAgrees ==
  ASSUME NEW p \in Peer, NEW q \in Peer, NEW push, Agrees(p, rcv_buf[q]), Agrees(p, push)
  PROVE  Agrees(p, Received(q, push)) /\ DOMAIN rcv_buf[q] \subseteq DOMAIN Received(q, push)
<1>1. DOMAIN Received(q, push) = DOMAIN rcv_buf[q] \cup Parsed(q, push)
  BY DEF Received
<1>2. Parsed(q, push) \subseteq DOMAIN push
  BY DEF Parsed
<1>3. ASSUME NEW s \in DOMAIN Received(q, push)
      PROVE  s < snd_nxt[p] /\ Received(q, push)[s] = stream[p][s + 1]
  BY <1>1, <1>2 DEF Received, Agrees
<1> QED
  BY <1>1, <1>3 DEF Agrees

\* ikcp_ack_push runs before the segment is stored, yet every PUSH that is
\* acknowledged has been read or moved, or is stored by the end of the call.
LEMMA AcknowledgedIsTaken ==
  ASSUME TypeOK, NEW q \in Peer, NEW push, IsBuffer(push),
         NEW s \in Acknowledged(q, push)
  PROVE  s \in DOMAIN Received(q, push) \/ s \in 0 .. RcvNxtAfter(q, push) - 1
<1>1. s \in DOMAIN push /\ s \in Nat /\ DOMAIN push \subseteq Nat
  BY DEF Acknowledged, IsBuffer
<1>2. PICK r \in Nat : r = RcvNxtAt(q, push, s)
  BY <1>1, RcvNxtAtFacts
<1>3. \A i \in rcv_nxt[q] .. r - 1 : i \in DOMAIN rcv_buf[q] \/ i < s
  BY <1>1, <1>2, RcvNxtAtFacts
<1>4. DOMAIN Received(q, push) = DOMAIN rcv_buf[q] \cup Parsed(q, push)
  BY DEF Received
<1>5. CASE s >= r
  BY <1>2, <1>4, <1>5 DEF Parsed, Acknowledged
<1>6. CASE s < rcv_nxt[q]
  <2>1. rcv_nxt[q] <= RcvNxtAfter(q, push) /\ RcvNxtAfter(q, push) \in Nat
    BY RcvNxtAfterFacts
  <2> QED
    BY <1>1, <1>6, <2>1 DEF TypeOK
<1>7. CASE s < r /\ s >= rcv_nxt[q]
  <2>1. s \in rcv_nxt[q] .. r - 1 /\ ~(s < s)
    BY <1>1, <1>7 DEF TypeOK
  <2> QED
    BY <1>3, <1>4, <2>1
<1> QED
  BY <1>1, <1>2, <1>5, <1>6, <1>7 DEF TypeOK

LEMMA InputKeepsIInv ==
  ASSUME IInv, TypeOK', NEW q \in Peer, NEW d \in net, Input(q, d), net' \subseteq net
  PROVE  IInv'
<1>1. PICK p \in Peer : p = Remote(q) /\ q = Remote(p) /\ p # q
                        /\ \A x \in Peer : x = p \/ x = q
  BY BothPeers
<1>2. TypeOK /\ Direction(p) /\ Direction(q) /\ DatagramOK(d) /\ Truthful(d) /\ d.to = q
  BY DEF IInv, TypeOK, Input
<1>3. /\ stream' = stream /\ snd_nxt' = snd_nxt
      /\ snd_queue' = snd_queue /\ rcv_wnd' = rcv_wnd
  BY DEF Input, wndVars
<1>4. PICK push : push = d.push
  OBVIOUS
<1>5. IsBuffer(push) /\ Agrees(p, push)
  BY <1>1, <1>2, <1>4 DEF DatagramOK, Truthful, IsBuffer
<1>6. PICK f : f = Received(q, push)
  OBVIOUS
<1>7. IsBuffer(f) /\ Agrees(p, f) /\ DOMAIN rcv_buf[q] \subseteq DOMAIN f
  <2>1. Agrees(p, rcv_buf[q])
    BY <1>1, <1>2 DEF Direction
  <2> QED
    BY <1>2, <1>5, <1>6, <2>1, ReceivedType, ReceivedAgrees
<1>8. PICK n \in Nat : n = RcvNxtAfter(q, push)
  BY <1>2, RcvNxtAfterFacts
<1>9. rcv_nxt[q] <= n /\ Covers(f, rcv_nxt[q], n)
  BY <1>2, <1>6, <1>8, RcvNxtAfterFacts
<1>10. InputAcks(q, d) /\ InputPushes(q, push)
  BY <1>4 DEF Input
<1>11. /\ acklist' = [acklist EXCEPT ![q] = @ \cup Acknowledged(q, push)]
       /\ rcv_nxt' = [rcv_nxt EXCEPT ![q] = n]
       /\ rcv_buf' = [rcv_buf EXCEPT ![q] = [s \in {x \in DOMAIN f : x >= n} |-> f[s]]]
       /\ rcv_queue' = [rcv_queue EXCEPT ![q] = MovedTo(@, f, rcv_nxt[q], n)]
  BY <1>6, <1>8, <1>10 DEF InputPushes
<1>12. snd_buf'[p] = snd_buf[p] /\ snd_una'[p] = snd_una[p]
  BY <1>1, <1>10 DEF InputAcks
<1>13. /\ rcv_nxt'[p] = rcv_nxt[p] /\ rcv_buf'[p] = rcv_buf[p]
       /\ rcv_queue'[p] = rcv_queue[p] /\ acklist'[p] = acklist[p]
  BY <1>1, <1>11
<1>14. Direction(p)' /\ Held(p) \subseteq Held(p)'
  <2>1. PICK k \in 0..Len(rcv_queue[q]) : k = 0
    BY <1>2 DEF TypeOK
  <2>2. rcv_queue[q] = SubSeq(rcv_queue[q], k + 1, Len(rcv_queue[q]))
    <3>1. rcv_queue[q] \in Seq(Segment) /\ k + 1 = 1
      BY <1>2, <2>1 DEF TypeOK
    <3> QED
      BY <3>1, SubSeqFull
  <2>3. rcv_queue' = [rcv_queue EXCEPT ![q] =
                        MovedTo(SubSeq(rcv_queue[q], k + 1, Len(rcv_queue[q])),
                                f, rcv_nxt[q], n)]
    BY <1>11, <2>2
  <2>4. acklist'[q] \subseteq acklist[q] \cup DOMAIN f \cup 0 .. n - 1
    <3>1. acklist'[q] = acklist[q] \cup Acknowledged(q, push)
      BY <1>2, <1>11 DEF TypeOK
    <3>2. ASSUME NEW s \in Acknowledged(q, push)
          PROVE  s \in DOMAIN f \/ s \in 0 .. n - 1
      BY <1>2, <1>5, <1>6, <1>8, AcknowledgedIsTaken
    <3> QED
      BY <3>1, <3>2
  <2> QED
    BY <1>1, <1>3, <1>7, <1>9, <1>11, <1>12, <2>3, <2>4, ReceiveKeepsIInv
<1>15. Direction(q)' /\ Held(q)' = Held(q)
  <2>1. d.una \in Nat /\ d.ack \subseteq Held(q) /\ d.una <= rcv_nxt[p]
    BY <1>1, <1>2 DEF DatagramOK, Truthful
  <2> QED
    BY <1>1, <1>2, <1>3, <1>10, <1>13, <2>1, AcksKeepDirection
<1>16. Progress
  <2>1. \A x \in Peer : Held(x) \subseteq Held(x)'
    BY <1>1, <1>14, <1>15
  <2>2. rcv_nxt'[q] = n
    BY <1>2, <1>11 DEF TypeOK
  <2>3. \A x \in Peer : rcv_nxt[x] <= rcv_nxt'[x]
    <3>1. rcv_nxt[p] \in Nat
      BY <1>2 DEF TypeOK
    <3>2. rcv_nxt[p] <= rcv_nxt'[p] /\ rcv_nxt[q] <= rcv_nxt'[q]
      BY <1>9, <1>13, <2>2, <3>1
    <3> QED
      BY <1>1, <3>2
  <2>4. \A x \in Peer : snd_nxt[x] <= snd_nxt'[x]
    BY <1>2, <1>3 DEF TypeOK
  <2> QED
    BY <1>3, <2>1, <2>3, <2>4 DEF Progress
<1>17. \A x \in Peer : Queued(x)' /\ Fits(x)'
  BY <1>3, QueuedStays DEF IInv
<1> QED
  BY <1>1, <1>14, <1>15, <1>16, <1>17, KeepsIInv

\* The segments ikcp_flush numbers are the stream's next ones.
LEMMA NumberedAgrees ==
  ASSUME TypeOK, NEW p \in Peer, Queued(p), Agrees(p, snd_buf[p]),
         NEW n \in 0..Len(snd_queue[p]),
         NEW s \in DOMAIN Numbered(p, n)
  PROVE  s < snd_nxt[p] + n /\ Numbered(p, n)[s] = stream[p][s + 1]
<1>1. PICK nxt \in Nat : nxt = snd_nxt[p]
  BY DEF TypeOK
<1>2. snd_queue[p] \in Seq(Segment) /\ Len(snd_queue[p]) \in Nat /\ n \in Nat
  BY DEF TypeOK
<1>3. s \in DOMAIN snd_buf[p] \/ s \in nxt .. nxt + n - 1
  BY <1>1 DEF Numbered
<1>4. CASE s \in DOMAIN snd_buf[p]
  <2>1. s \in Nat /\ s < nxt /\ snd_buf[p][s] = stream[p][s + 1]
    BY <1>1, <1>4 DEF Agrees, TypeOK, IsBuffer
  <2>2. Numbered(p, n)[s] = snd_buf[p][s]
    BY <1>4 DEF Numbered
  <2> QED
    BY <1>1, <1>2, <2>1, <2>2
<1>5. CASE s \notin DOMAIN snd_buf[p]
  <2>1. PICK i \in 1..Len(snd_queue[p]) : i = s - nxt + 1
    BY <1>2, <1>3, <1>5
  <2>2. snd_queue[p][i] = stream[p][nxt + i]
    BY <1>1, <2>1 DEF Queued
  <2>3. Numbered(p, n)[s] = snd_queue[p][i]
    BY <1>1, <1>5, <2>1 DEF Numbered
  <2>4. nxt + i = s + 1 /\ s < nxt + n
    BY <1>2, <1>3, <1>5, <2>1
  <2> QED
    BY <1>1, <2>2, <2>3, <2>4
<1> QED
  BY <1>4, <1>5

\* snd_queue without the segments that got a number is still the stream's end.
LEMMA QueuedAfterFlush ==
  ASSUME TypeOK, NEW p \in Peer, Queued(p), NEW n \in 0..Len(snd_queue[p]),
         stream'[p] = stream[p], snd_nxt'[p] = snd_nxt[p] + n,
         snd_queue'[p] = SubSeq(snd_queue[p], n + 1, Len(snd_queue[p]))
  PROVE  Queued(p)'
<1>1. PICK nxt \in Nat : nxt = snd_nxt[p]
  BY DEF TypeOK
<1>2. PICK queue \in Seq(Segment) : queue = snd_queue[p]
  BY DEF TypeOK
<1>3. PICK str \in Seq(Segment) : str = stream[p]
  BY DEF TypeOK
<1>4. PICK rest : rest = SubSeq(queue, n + 1, Len(queue))
  OBVIOUS
<1>5. Len(queue) \in Nat /\ n \in 0..Len(queue) /\ Len(rest) = Len(queue) - n
  BY <1>2, <1>4, DropType
<1>6. Len(str) = nxt + Len(queue) /\ Stretch(queue, str, nxt)
  BY <1>1, <1>2, <1>3 DEF Queued, Stretch
<1>7. Stretch(rest, str, nxt + n)
  BY <1>4, <1>5, <1>6, DropStretch
<1>8. Len(str) = nxt + n + Len(rest)
  BY <1>5, <1>6
<1>9. stream'[p] = str /\ snd_nxt'[p] = nxt + n /\ snd_queue'[p] = rest
  BY <1>1, <1>2, <1>3, <1>4
<1> QED
  BY <1>7, <1>8, <1>9 DEF Queued, Stretch

LEMMA FlushKeepsIInv ==
  ASSUME IInv, TypeOK', NEW p \in Peer, NEW c \in Nat,
         NEW resend \in SUBSET DOMAIN snd_buf[p], NEW due \in BOOLEAN,
         Flush(p, c, resend, due)
  PROVE  IInv'
<1>1. PICK q \in Peer : q = Remote(p) /\ p = Remote(q) /\ p # q
                        /\ \A x \in Peer : x = p \/ x = q
  BY BothPeers
<1>2. TypeOK /\ Direction(p) /\ Direction(q) /\ Queued(p)
  BY DEF IInv
<1>3. PICK n \in 0..Len(snd_queue[p]) : n = Moved(p, c)
  BY <1>2, MovedFacts
<1>4. PICK buf : buf = Numbered(p, n)
  OBVIOUS
<1>5. PICK push : push = [s \in resend \cup snd_nxt[p] .. snd_nxt[p] + n - 1 |-> buf[s]]
  OBVIOUS
<1>6. /\ acklist' = [acklist EXCEPT ![p] = {}]
      /\ snd_queue' = [snd_queue EXCEPT ![p] = SubSeq(@, n + 1, Len(@))]
      /\ snd_buf' = [snd_buf EXCEPT ![p] = buf]
      /\ snd_nxt' = [snd_nxt EXCEPT ![p] = @ + n]
      /\ Transmit(p, Output(p, acklist[p], due, probe[p], push))
      /\ UNCHANGED <<stream, snd_una, rcv_nxt, rcv_buf, rcv_queue, rcv_wnd>>
  BY <1>3, <1>4, <1>5 DEF Flush, wndVars
<1>7. PICK nxt \in Nat : nxt = snd_nxt[p]
  BY <1>2 DEF TypeOK
<1>8. n \in Nat /\ snd_nxt'[p] = nxt + n /\ nxt <= nxt + n
  <2>1. n \in Nat
    BY <1>2, <1>3 DEF TypeOK
  <2> QED
    BY <1>2, <1>6, <1>7, <2>1 DEF TypeOK
<1>9. DOMAIN buf = DOMAIN snd_buf[p] \cup nxt .. nxt + n - 1
  BY <1>4, <1>7 DEF Numbered
<1>10. \A s \in DOMAIN buf : s < nxt + n /\ buf[s] = stream[p][s + 1]
  <2>1. Agrees(p, snd_buf[p])
    BY <1>2 DEF Direction
  <2> QED
    BY <1>2, <1>4, <1>7, <2>1, NumberedAgrees
<1>11. Queued(p)' /\ Fits(p)'
  <2>1. Queued(p)'
    BY <1>2, <1>6, QueuedAfterFlush DEF TypeOK
  <2>2. Fits(p)'
    BY <1>6 DEF IInv, Fits
  <2> QED
    BY <2>1, <2>2
<1>12. Queued(q)' /\ Fits(q)'
  BY <1>1, <1>2, <1>6, QueuedStays DEF IInv, TypeOK
<1>13. Held(p)' = Held(p) /\ Held(q)' = Held(q)
  BY <1>6 DEF Held
<1>14. Direction(p)'
  <2>1. snd_buf'[p] = buf
    BY <1>2, <1>6 DEF TypeOK
  <2>2. Agrees(p, snd_buf[p])'
    BY <1>6, <1>8, <1>10, <2>1 DEF Agrees
  <2>3. snd_una'[p] <= snd_nxt'[p] /\ \A s \in DOMAIN snd_buf'[p] : s >= snd_una'[p]
    <3>1. /\ snd_una[p] \in Nat /\ snd_una[p] <= nxt
          /\ \A s \in DOMAIN snd_buf[p] : s >= snd_una[p]
      BY <1>2, <1>7 DEF TypeOK, Direction
    <3>2. \A s \in nxt .. nxt + n - 1 : s >= snd_una[p]
      BY ONLY <1>8, <3>1, nxt \in Nat
    <3> QED
      BY <1>6, <1>8, <1>9, <2>1, <3>1, <3>2
  <2>4. Agrees(p, rcv_buf[q])'
    <3>1. ASSUME NEW s \in DOMAIN rcv_buf[q]
          PROVE  s < nxt + n /\ rcv_buf[q][s] = stream[p][s + 1]
      <4>1. s \in Nat /\ s < nxt /\ rcv_buf[q][s] = stream[p][s + 1]
        BY <1>1, <1>2, <1>7 DEF Direction, Agrees, TypeOK, IsBuffer
      <4> QED
        BY <1>8, <4>1
    <3> QED
      BY <1>6, <1>8, <3>1 DEF Agrees
  <2>5. rcv_nxt'[q] <= snd_nxt'[p]
    <3>1. rcv_nxt[q] \in Nat /\ rcv_nxt[q] <= nxt
      BY <1>1, <1>2, <1>7 DEF Direction, TypeOK
    <3> QED
      BY <1>6, <1>8, <3>1
  <2>6. acklist'[q] \subseteq Held(p)'
    BY <1>1, <1>2, <1>6, <1>13 DEF Direction
  <2>7. InHands(p)'
    <3>1. ASSUME NEW s \in 0 .. nxt + n - 1, s \notin DOMAIN buf
          PROVE  s \in Held(p)
      <4>1. s \in 0 .. nxt - 1 /\ s \notin DOMAIN snd_buf[p]
        BY <1>8, <1>9, <3>1
      <4> QED
        BY <1>2, <1>7, <4>1 DEF Direction, InHands
    <3> QED
      BY <1>8, <1>13, <2>1, <3>1 DEF InHands
  <2>8. InStream(p)'
    BY <1>1, <1>2, <1>6 DEF Direction, InStream
  <2> QED
    BY <1>1, <2>2, <2>3, <2>4, <2>5, <2>6, <2>7, <2>8 DEF Direction
<1>15. Direction(q)'
  <2>1. /\ stream'[q] = stream[q] /\ snd_buf'[q] = snd_buf[q]
        /\ snd_una'[q] = snd_una[q] /\ snd_nxt'[q] = snd_nxt[q]
        /\ rcv_nxt'[p] = rcv_nxt[p] /\ rcv_buf'[p] = rcv_buf[p]
        /\ rcv_queue'[p] = rcv_queue[p] /\ acklist'[p] \subseteq acklist[p]
    BY <1>1, <1>2, <1>6 DEF TypeOK
  <2> QED
    BY <1>1, <1>2, <2>1, DirectionStays
<1>16. Progress
  <2>1. snd_nxt[p] <= snd_nxt'[p] /\ snd_nxt[q] <= snd_nxt'[q]
    <3>1. snd_nxt[q] \in Nat /\ snd_nxt'[q] = snd_nxt[q]
      BY <1>1, <1>2, <1>6 DEF TypeOK
    <3> QED
      BY <1>7, <1>8, <3>1
  <2>2. \A x \in Peer : snd_nxt[x] <= snd_nxt'[x]
    BY <1>1, <2>1
  <2>3. \A x \in Peer : Held(x) \subseteq Held(x)'
    BY <1>1, <1>13
  <2>4. \A x \in Peer : rcv_nxt[x] <= rcv_nxt'[x]
    BY <1>2, <1>6 DEF TypeOK
  <2> QED
    BY <1>6, <2>2, <2>3, <2>4 DEF Progress
<1>17. ASSUME NEW d \in Output(p, acklist[p], due, probe[p], push)
       PROVE  Truthful(d)'
  <2>1. /\ d.to = q /\ d.una = rcv_nxt[p]
        /\ d.ack = acklist[p] \/ d.ack = {}
        /\ DOMAIN d.push \subseteq DOMAIN push
    <3>1. /\ d.to = Remote(p) /\ d.wnd \in Nat /\ d.una = rcv_nxt[p]
          /\ d.ack = acklist[p] \/ d.ack = {}
          /\ d.ask \in {due, FALSE} /\ d.tell \in {probe[p], FALSE}
          /\ DOMAIN d.push \subseteq DOMAIN push
      BY <1>2, OutputFacts
    <3> QED
      BY <1>1, <3>1
  <2>2. \A s \in DOMAIN d.push : d.push[s] = push[s]
    BY OutputElement
  <2>3. DOMAIN push \subseteq DOMAIN buf
    BY <1>5, <1>7, <1>9
  <2>4. ASSUME NEW s \in DOMAIN d.push
        PROVE  s < nxt + n /\ d.push[s] = stream[p][s + 1]
    <3>1. s \in DOMAIN push /\ s \in DOMAIN buf
      BY <2>1, <2>3
    <3> QED
      BY <1>5, <1>7, <1>10, <2>2, <3>1
  <2>5. Agrees(Remote(d.to), d.push)'
    BY <1>1, <1>6, <1>8, <2>1, <2>4 DEF Agrees
  <2>6. d.ack \subseteq Held(d.to)'
    BY <1>1, <1>2, <1>13, <2>1 DEF Direction
  <2>7. d.una <= rcv_nxt'[Remote(d.to)]
    <3>1. rcv_nxt[p] \in Nat
      BY <1>2 DEF TypeOK
    <3>2. Remote(d.to) = p /\ rcv_nxt'[p] = rcv_nxt[p]
      BY <1>1, <1>6, <2>1
    <3> QED
      BY <2>1, <3>1, <3>2
  <2> QED
    BY <2>5, <2>6, <2>7 DEF Truthful
<1>18. \A d \in net' : d \in net \/ Truthful(d)'
  BY <1>6, <1>17, TransmitFacts
<1> QED
  BY <1>1, <1>11, <1>12, <1>14, <1>15, <1>16, <1>18, KeepsIInv

\* A longer stream: what it held stays where it was, and new follows.
LEMMA ConcatElement ==
  ASSUME NEW old \in Seq(Segment), NEW new \in Seq(Segment),
         NEW len \in Nat, len = Len(old)
  PROVE  /\ old \o new \in Seq(Segment)
         /\ Len(old \o new) = len + Len(new)
         /\ \A i \in 1..len : (old \o new)[i] = old[i]
         /\ \A i \in 1..Len(new) : (old \o new)[len + i] = new[i]
<1>1. /\ old \o new \in Seq(Segment)
      /\ Len(old \o new) = Len(old) + Len(new)
      /\ \A i \in 1 .. Len(old) + Len(new) :
           (old \o new)[i] = IF i <= Len(old) THEN old[i] ELSE new[i - Len(old)]
  BY ONLY ConcatProperties, old \in Seq(Segment), new \in Seq(Segment)
<1>2. Len(new) \in Nat
  BY LenProperties
<1>3. ASSUME NEW i \in 1..len
      PROVE  (old \o new)[i] = old[i]
  BY <1>1, <1>2
<1>4. ASSUME NEW i \in 1..Len(new)
      PROVE  (old \o new)[len + i] = new[i]
  <2>1. PICK j : j = len + i
    OBVIOUS
  <2>2. j \in 1 .. len + Len(new) /\ ~(j <= len) /\ j - len = i
    BY <1>2, <2>1
  <2> QED
    BY <1>1, <2>1, <2>2
<1> QED
  BY <1>1, <1>3, <1>4

LEMMA SendKeepsIInv ==
  ASSUME IInv, TypeOK', NEW p \in Peer, NEW count \in Counts, Send(p, count)
  PROVE  IInv'
<1>1. PICK q \in Peer : q = Remote(p) /\ p = Remote(q) /\ p # q
                        /\ \A x \in Peer : x = p \/ x = q
  BY BothPeers
<1>2. TypeOK /\ Direction(p) /\ Direction(q) /\ Queued(p) /\ Fits(p)
  BY DEF IInv
<1>3. PICK new : new = Fragments(MsgsSent(p) + 1, count)
  OBVIOUS
<1>4. /\ stream' = [stream EXCEPT ![p] = @ \o new]
      /\ snd_queue' = [snd_queue EXCEPT ![p] = @ \o new]
      /\ count < WND_RCV
      /\ UNCHANGED <<snd_buf, snd_una, snd_nxt, rcv_nxt, rcv_buf, rcv_queue,
                     acklist, rcv_wnd, net>>
  BY <1>3 DEF Send, rcvVars, wndVars, netVars
<1>5. count \in Nat /\ WND_RCV \in Nat
  BY BoundAssumption, WindowAssumption
<1>6. /\ new \in Seq(Segment) /\ Len(new) = count
      /\ \A i \in 1..count : new[i].frg = count - i
  <2>1. PICK m \in Nat : m = MsgsSent(p) + 1
    <3>1. stream \in [Peer -> Seq(Segment)]
      BY <1>2 DEF TypeOK
    <3>2. MsgsSent(p) \in Nat
      BY <3>1, MsgsSentType
    <3> QED
      BY <3>2
  <2> QED
    BY <1>3, <1>5, <2>1, FragmentsFacts
<1>7. PICK nxt \in Nat : nxt = snd_nxt[p]
  BY <1>2 DEF TypeOK
<1>8. PICK queue \in Seq(Segment) : queue = snd_queue[p]
  BY <1>2 DEF TypeOK
<1>9. PICK str \in Seq(Segment) : str = stream[p]
  BY <1>2 DEF TypeOK
<1>10. PICK len \in Nat : len = Len(queue)
  BY LenProperties
<1>11. PICK all \in Nat : all = Len(str)
  BY LenProperties
<1>12. all = nxt + len /\ \A i \in 1..len : queue[i] = str[nxt + i]
  BY <1>2, <1>7, <1>8, <1>9, <1>10, <1>11 DEF Queued
<1>13. stream'[p] = str \o new /\ snd_queue'[p] = queue \o new
  BY <1>2, <1>4, <1>8, <1>9 DEF TypeOK
<1>14. /\ Len(str \o new) = all + count
       /\ \A i \in 1..all : (str \o new)[i] = str[i]
       /\ \A i \in 1..count : (str \o new)[all + i] = new[i]
  BY <1>6, <1>11, ConcatElement
<1>15. /\ Len(queue \o new) = len + count
       /\ \A i \in 1..len : (queue \o new)[i] = queue[i]
       /\ \A i \in 1..count : (queue \o new)[len + i] = new[i]
  BY <1>6, <1>10, ConcatElement, SMTT(30)
<1>16. Queued(p)'
  <2>1. Len(str \o new) = nxt + Len(queue \o new)
    BY <1>5, <1>12, <1>14, <1>15
  <2>2. ASSUME NEW i \in 1 .. len + count
        PROVE  (queue \o new)[i] = (str \o new)[nxt + i]
    <3>1. CASE i <= len
      <4>1. i \in 1..len /\ nxt + i \in 1..all
        BY <1>12, <3>1
      <4>2. (queue \o new)[i] = queue[i] /\ (str \o new)[nxt + i] = str[nxt + i]
        BY <1>14, <1>15, <4>1
      <4> QED
        BY <1>12, <4>1, <4>2
    <3>2. CASE ~(i <= len)
      <4>1. PICK j \in 1..count : i = len + j
        <5>1. i - len \in 1..count /\ i = len + (i - len)
          BY <1>5, <3>2
        <5> QED
          BY <5>1
      <4>2. nxt + i = all + j
        BY <1>12, <4>1
      <4>3. (queue \o new)[len + j] = new[j] /\ (str \o new)[all + j] = new[j]
        BY <1>14, <1>15
      <4> QED
        BY <4>1, <4>2, <4>3
    <3> QED
      BY <3>1, <3>2
  <2>3. snd_nxt'[p] = nxt
    BY <1>4, <1>7
  <2> QED
    BY <1>13, <1>15, <2>1, <2>2, <2>3 DEF Queued
<1>17. Fits(p)'
  <2>1. ASSUME NEW i \in 1 .. all + count
        PROVE  (str \o new)[i].frg + 1 < WND_RCV
    <3>1. CASE i <= all
      <4>1. i \in 1..Len(str) /\ (str \o new)[i] = str[i]
        BY <1>11, <1>14, <3>1
      <4> QED
        BY <1>2, <1>9, <4>1 DEF Fits
    <3>2. CASE ~(i <= all)
      <4>1. PICK j \in 1..count : i = all + j
        <5>1. i - all \in 1..count /\ i = all + (i - all)
          BY <1>5, <3>2
        <5> QED
          BY <5>1
      <4>2. (str \o new)[i] = new[j] /\ new[j].frg = count - j
        BY <1>6, <1>14, <4>1
      <4>3. count - j + 1 < WND_RCV
        BY <1>4, <1>5, <4>1
      <4> QED
        BY <4>2, <4>3
    <3> QED
      BY <3>1, <3>2
  <2> QED
    BY <1>2, <1>4, <1>13, <1>14, <2>1 DEF Fits
<1>18. Queued(q)' /\ Fits(q)'
  <2>1. stream'[q] = stream[q] /\ snd_queue'[q] = snd_queue[q]
    BY <1>1, <1>4
  <2> QED
    BY <1>4, <2>1, QueuedStays DEF IInv
<1>19. Held(p)' = Held(p) /\ Held(q)' = Held(q)
  BY <1>4 DEF Held
<1>20. Progress
  <2>1. ASSUME NEW s \in 0 .. nxt - 1
        PROVE  stream'[p][s + 1] = stream[p][s + 1]
    <3>1. s + 1 \in 1..all
      BY <1>12
    <3>2. (str \o new)[s + 1] = str[s + 1]
      BY <1>14, <3>1
    <3> QED
      BY <1>9, <1>13, <3>2
  <2>2. stream'[q] = stream[q]
    BY <1>1, <1>4
  <2>3. \A x \in Peer : \A s \in 0 .. snd_nxt[x] - 1 : stream'[x][s + 1] = stream[x][s + 1]
    BY <1>1, <1>7, <2>1, <2>2
  <2>4. \A x \in Peer : Held(x) \subseteq Held(x)'
    BY <1>1, <1>19
  <2>5. ASSUME NEW x \in Peer
        PROVE  snd_nxt[x] <= snd_nxt'[x] /\ rcv_nxt[x] <= rcv_nxt'[x]
    <3>1. snd_nxt[x] \in Nat /\ rcv_nxt[x] \in Nat
      BY <1>2 DEF TypeOK
    <3>2. snd_nxt'[x] = snd_nxt[x] /\ rcv_nxt'[x] = rcv_nxt[x]
      BY <1>4
    <3> QED
      BY <3>1, <3>2
  <2> QED
    BY <2>3, <2>4, <2>5 DEF Progress
<1>21. Direction(p)'
  <2>1. Agrees(p, snd_buf[p])' /\ Agrees(p, rcv_buf[q])'
    <3>1. PICK f : f = snd_buf[p]
      OBVIOUS
    <3>2. PICK g : g = rcv_buf[q]
      OBVIOUS
    <3>3. /\ DOMAIN f \subseteq Nat /\ Agrees(p, f)
          /\ DOMAIN g \subseteq Nat /\ Agrees(p, g)
      BY <1>1, <1>2, <3>1, <3>2 DEF Direction, TypeOK, IsBuffer
    <3>4. Agrees(p, f)' /\ Agrees(p, g)'
      BY <1>2, <1>20, <3>3, AgreesStays
    <3> QED
      BY <1>4, <3>1, <3>2, <3>4 DEF Agrees
  <2>2. snd_una'[p] <= snd_nxt'[p] /\ \A s \in DOMAIN snd_buf'[p] : s >= snd_una'[p]
    BY <1>2, <1>4 DEF Direction
  <2>3. rcv_nxt'[q] <= snd_nxt'[p] /\ acklist'[q] \subseteq Held(p)'
    BY <1>1, <1>2, <1>4, <1>19 DEF Direction
  <2>4. InHands(p)'
    BY <1>2, <1>4, <1>19 DEF Direction, InHands
  <2>5. InStream(p)'
    <3>1. PICK r \in Nat : r = rcv_nxt[q]
      BY <1>2 DEF TypeOK
    <3>2. PICK rq \in Seq(Segment) : rq = rcv_queue[q]
      BY <1>2 DEF TypeOK
    <3>3. PICK k \in Nat : k = Len(rq)
      BY LenProperties
    <3>4. /\ 0 <= r - k /\ r <= all
          /\ \A i \in 1..k : rq[i] = str[r - k + i]
      BY <1>1, <1>2, <1>9, <1>11, <3>1, <3>2, <3>3 DEF Direction, InStream
    <3>5. ASSUME NEW i \in 1..k
          PROVE  rq[i] = (str \o new)[r - k + i]
      <4>1. r - k + i \in 1..all
        BY <3>4
      <4>2. (str \o new)[r - k + i] = str[r - k + i]
        BY <1>14, <4>1
      <4> QED
        BY <3>4, <4>2
    <3>6. r <= all + count
      BY <1>5, <3>4
    <3>7. rcv_nxt'[q] = r /\ rcv_queue'[q] = rq /\ stream'[p] = str \o new
      BY <1>4, <1>13, <3>1, <3>2
    <3>8. /\ 0 <= r - Len(rq) /\ r <= Len(str \o new)
          /\ \A i \in 1..Len(rq) : rq[i] = (str \o new)[r - Len(rq) + i]
      BY <1>14, <3>3, <3>4, <3>5, <3>6
    <3> QED
      BY <1>1, <3>7, <3>8 DEF InStream
  <2> QED
    BY <1>1, <2>1, <2>2, <2>3, <2>4, <2>5 DEF Direction
<1>22. Direction(q)'
  <2>1. stream'[q] = stream[q] /\ acklist'[p] \subseteq acklist[p]
    BY <1>1, <1>4
  <2> QED
    BY <1>1, <1>2, <1>4, <2>1, DirectionStays
<1>23. \A d \in net' : d \in net \/ Truthful(d)'
  BY <1>4
<1> QED
  BY <1>1, <1>16, <1>17, <1>18, <1>20, <1>21, <1>22, <1>23, KeepsIInv

\* ikcp_wndsize may change a window at any time: no window falls below WND_RCV.
LEMMA WndSizeKeepsIInv ==
  ASSUME IInv, TypeOK', NEW p \in Peer, NEW sndwnd \in SndWnds[p],
         NEW rcvwnd \in RcvWnds[p], WndSize(p, sndwnd, rcvwnd)
  PROVE  IInv'
<1>1. /\ TypeOK
      /\ stream' = stream /\ snd_queue' = snd_queue /\ snd_buf' = snd_buf
      /\ snd_una' = snd_una /\ snd_nxt' = snd_nxt
      /\ rcv_nxt' = rcv_nxt /\ rcv_buf' = rcv_buf /\ rcv_queue' = rcv_queue
      /\ acklist' = acklist /\ net' = net
      /\ \/ rcv_wnd' = [rcv_wnd EXCEPT ![p] = imax(rcvwnd, WND_RCV)]
         \/ rcv_wnd' = [rcv_wnd EXCEPT ![p] = @]
  BY DEF WndSize, sndVars, rcvVars, netVars, IInv
<1>2. ASSUME NEW x \in Peer
      PROVE  Direction(x)' /\ Held(x)' = Held(x)
  <2>1. Remote(x) \in Peer /\ Direction(x)
    BY RemoteFacts DEF IInv
  <2>2. PICK y \in Peer : y = Remote(x)
    BY <2>1
  <2>3. acklist'[y] \subseteq acklist[y]
    BY <1>1
  <2> QED
    BY <1>1, <2>1, <2>2, <2>3, DirectionStays
<1>3. ASSUME NEW x \in Peer
      PROVE  Queued(x)' /\ Fits(x)'
  <2>1. rcv_wnd'[x] >= WND_RCV
    <3>1. CASE x = p
      <4>1. rcvwnd \in Int /\ WND_RCV \in Int
        BY WindowAssumption
      <4>2. imax(rcvwnd, WND_RCV) >= WND_RCV
        BY <4>1, MinMaxFacts
      <4>3. rcv_wnd'[p] = imax(rcvwnd, WND_RCV) \/ rcv_wnd'[p] = rcv_wnd[p]
        BY <1>1 DEF TypeOK
      <4>4. rcv_wnd[p] >= WND_RCV
        BY DEF IInv, Fits
      <4> QED
        BY <3>1, <4>2, <4>3, <4>4
    <3>2. CASE x # p
      <4>1. rcv_wnd'[x] = rcv_wnd[x]
        BY <1>1, <3>2 DEF TypeOK
      <4>2. rcv_wnd[x] >= WND_RCV
        BY DEF IInv, Fits
      <4> QED
        BY <4>1, <4>2
    <3> QED
      BY <3>1, <3>2
  <2>2. Queued(x) /\ Fits(x)
    BY DEF IInv
  <2> QED
    BY <1>1, <2>1, <2>2 DEF Queued, Fits
<1>4. Progress
  <2>1. ASSUME NEW x \in Peer
        PROVE  snd_nxt[x] <= snd_nxt'[x] /\ rcv_nxt[x] <= rcv_nxt'[x]
    <3>1. snd_nxt[x] \in Nat /\ rcv_nxt[x] \in Nat
      BY <1>1 DEF TypeOK
    <3> QED
      BY <1>1, <3>1
  <2> QED
    BY <1>1, <1>2, <2>1 DEF Progress
<1> QED
  BY <1>1, <1>2, <1>3, <1>4, KeepsIInv

\* A step in which at most datagrams are lost.
LEMMA LoseKeepsIInv ==
  ASSUME IInv, TypeOK', UNCHANGED <<sndVars, rcvVars, wndVars>>, net' \subseteq net
  PROVE  IInv'
<1>1. /\ TypeOK
      /\ stream' = stream /\ snd_queue' = snd_queue /\ snd_buf' = snd_buf
      /\ snd_una' = snd_una /\ snd_nxt' = snd_nxt
      /\ rcv_nxt' = rcv_nxt /\ rcv_buf' = rcv_buf /\ rcv_queue' = rcv_queue
      /\ acklist' = acklist /\ rcv_wnd' = rcv_wnd
  BY DEF sndVars, rcvVars, wndVars, IInv
<1>2. ASSUME NEW x \in Peer
      PROVE  Direction(x)' /\ Held(x)' = Held(x)
  <2>1. Remote(x) \in Peer /\ Direction(x)
    BY RemoteFacts DEF IInv
  <2>2. PICK y \in Peer : y = Remote(x)
    BY <2>1
  <2>3. acklist'[y] \subseteq acklist[y]
    BY <1>1
  <2> QED
    BY <1>1, <2>1, <2>2, <2>3, DirectionStays
<1>3. \A x \in Peer : Queued(x)' /\ Fits(x)'
  BY <1>1, QueuedStays DEF IInv
<1>4. Progress
  <2>1. ASSUME NEW x \in Peer
        PROVE  snd_nxt[x] <= snd_nxt'[x] /\ rcv_nxt[x] <= rcv_nxt'[x]
    <3>1. snd_nxt[x] \in Nat /\ rcv_nxt[x] \in Nat
      BY <1>1 DEF TypeOK
    <3> QED
      BY <1>1, <3>1
  <2> QED
    BY <1>1, <1>2, <2>1 DEF Progress
<1> QED
  BY <1>2, <1>3, <1>4, KeepsIInv

LEMMA InitIInv == Init => IInv
<1> SUFFICES ASSUME Init PROVE IInv
  OBVIOUS
<1>1. TypeOK
  BY TypeInit
<1>2. ASSUME NEW p \in Peer
      PROVE  Queued(p) /\ Fits(p) /\ Direction(p)
  <2>1. PICK q \in Peer : q = Remote(p)
    BY RemoteFacts
  <2>2. /\ stream[p] = <<>> /\ snd_queue[p] = <<>> /\ snd_buf[p] = <<>>
        /\ snd_una[p] = 0 /\ snd_nxt[p] = 0 /\ rcv_wnd[p] = WND_RCV
        /\ rcv_nxt[q] = 0 /\ rcv_buf[q] = <<>> /\ rcv_queue[q] = <<>>
        /\ acklist[q] = {}
    BY DEF Init
  <2>3. Queued(p) /\ Fits(p)
    BY <2>2, WindowAssumption DEF Queued, Fits
  <2>4. InHands(p) /\ InStream(p)
    BY <2>1, <2>2 DEF InHands, InStream
  <2>5. Agrees(p, snd_buf[p]) /\ Agrees(p, rcv_buf[q])
    BY <2>2 DEF Agrees
  <2>6. \A s \in DOMAIN snd_buf[p] : s >= snd_una[p]
    BY <2>2
  <2> QED
    BY <2>1, <2>2, <2>3, <2>4, <2>5, <2>6 DEF Direction
<1>3. \A d \in net : Truthful(d)
  BY DEF Init
<1> QED
  BY <1>1, <1>2, <1>3 DEF IInv

LEMMA IInvStep == IInv /\ [Next]_vars => IInv'
<1> SUFFICES ASSUME IInv, [Next]_vars
             PROVE  IInv'
  OBVIOUS
<1>0. TypeOK'
  BY TypeStep DEF IInv
<1>1. ASSUME NEW p \in Peer, NEW count \in Counts, Send(p, count)
      PROVE  IInv'
  BY <1>0, <1>1, SendKeepsIInv
<1>2. ASSUME NEW p \in Peer, Recv(p)
      PROVE  IInv'
  BY <1>0, <1>2, RecvKeepsIInv
<1>3. ASSUME NEW p \in Peer, Peek(p)
      PROVE  IInv'
  BY <1>0, <1>3, PeekKeepsIInv
<1>4. ASSUME NEW p \in Peer, NEW sndwnd \in SndWnds[p], NEW rcvwnd \in RcvWnds[p],
             WndSize(p, sndwnd, rcvwnd)
      PROVE  IInv'
  BY <1>0, <1>4, WndSizeKeepsIInv
<1>5. ASSUME NEW p \in Peer, AnyFlush(p)
      PROVE  IInv'
  <2>1. PICK c \in 0..snd_wnd[p], resend \in SUBSET DOMAIN snd_buf[p], due \in BOOLEAN :
          Flush(p, c, resend, due)
    BY <1>5 DEF AnyFlush
  <2>2. c \in Nat
    BY <2>1
  <2> QED
    BY <1>0, <2>1, <2>2, FlushKeepsIInv
<1>6. ASSUME NEW p \in Peer, Deliver(p)
      PROVE  IInv'
  <2>1. PICK d \in net : Input(p, d) /\ net' \subseteq net
    BY <1>6 DEF Deliver
  <2> QED
    BY <1>0, <2>1, InputKeepsIInv
<1>7. ASSUME NEW p \in Peer, DeliverCopy(p)
      PROVE  IInv'
  <2>1. PICK d \in net : Input(p, d) /\ net' \subseteq net
    BY <1>7 DEF DeliverCopy
  <2> QED
    BY <1>0, <2>1, InputKeepsIInv
<1>8. CASE Lose
  <2>1. UNCHANGED <<sndVars, rcvVars, wndVars>> /\ net' \subseteq net
    BY <1>8 DEF Lose
  <2> QED
    BY <1>0, <2>1, LoseKeepsIInv
<1>9. CASE UNCHANGED vars
  <2>1. UNCHANGED <<sndVars, rcvVars, wndVars>> /\ net' \subseteq net
    BY <1>9 DEF vars, netVars
  <2> QED
    BY <1>0, <2>1, LoseKeepsIInv
<1> QED
  BY <1>1, <1>2, <1>3, <1>4, <1>5, <1>6, <1>7, <1>8, <1>9 DEF Next

\* Every reachable state satisfies the inductive invariant.
THEOREM Invariant == Spec => []IInv
BY InitIInv, IInvStep, PTL DEF Spec

\* No acknowledged data is ever lost, whatever the order, age or number of
\* copies in which datagrams arrive (ikcp_parse_una, ikcp_parse_ack and
\* ikcp_ack_push).
THEOREM AckedDataIsSafe == Spec => []NoAckedLoss
<1>1. IInv => NoAckedLoss
  BY DEF IInv, Direction, NoAckedLoss
<1> QED
  BY <1>1, Invariant, PTL

\* The receive queue is always the next stretch of the sender's stream, each
\* segment once and in order (ikcp_parse_data, ikcp_recv).
THEOREM ReadsInOrderOnce == Spec => []InOrderOnce
<1>1. IInv => InOrderOnce
  BY DEF IInv, Direction, InOrderOnce
<1> QED
  BY <1>1, Invariant, PTL

\* A full receive queue starts with a whole message, so that the reader always
\* makes room: the check on the count in ikcp_send and the least window in
\* ikcp_wndsize together.
THEOREM FullQueueReadable == Spec => []FullQueueIsReadable
<1>1. ASSUME IInv, NEW p \in Peer, Len(rcv_queue[p]) >= rcv_wnd[p]
      PROVE  Readable(p)
  <2>1. PICK q \in Peer : p = Remote(q)
    BY RemoteFacts
  <2>2. /\ TypeOK /\ WND_RCV \in Nat \ {0}
        /\ InStream(q) /\ Fits(p) /\ Fits(q)
    BY <1>1, WindowAssumption DEF IInv, Direction
  <2>3. PICK queue \in Seq(Segment) : queue = rcv_queue[p]
    BY <2>2 DEF TypeOK
  <2>4. PICK len \in Nat : len = Len(queue)
    BY LenProperties
  <2>5. PICK all \in Nat : all = Len(stream[q])
    BY <2>2, LenProperties DEF TypeOK
  <2>6. PICK r \in Nat : r = rcv_nxt[p]
    BY <2>2 DEF TypeOK
  <2>7. len >= WND_RCV /\ len >= 1
    <3>1. PICK wnd \in Nat : wnd = rcv_wnd[p]
      BY <2>2 DEF TypeOK
    <3>2. len >= wnd /\ wnd >= WND_RCV
      BY <1>1, <2>2, <2>3, <2>4, <3>1 DEF Fits
    <3> QED
      BY <2>2, <3>2
  <2>8. /\ 0 <= r - len /\ r <= all
        /\ \A i \in 1..len : queue[i] = stream[q][r - len + i]
    BY <2>1, <2>2, <2>3, <2>4, <2>5, <2>6 DEF InStream
  <2>9. PICK i \in 1..all : queue[1] = stream[q][i]
    <3>1. r - len + 1 \in 1..all /\ 1 \in 1..len
      BY <2>7, <2>8
    <3> QED
      BY <2>8, <3>1
  <2>10. queue[1].frg + 1 < WND_RCV
    BY <2>2, <2>5, <2>9 DEF Fits
  <2>11. queue # <<>> /\ Head(queue) = queue[1] /\ queue[1] \in Segment
    BY <2>4, <2>7
  <2>12. len >= queue[1].frg + 1
    BY <2>2, <2>7, <2>10, <2>11 DEF Segment
  <2> QED
    BY <2>3, <2>4, <2>11, <2>12 DEF Readable
<1>2. IInv => FullQueueIsReadable
  BY <1>1 DEF FullQueueIsReadable
<1> QED
  BY <1>2, Invariant, PTL

\* Acknowledgements leave nothing below snd_una in snd_buf, so that shrinking
\* it again never takes snd_una back.
LEMMA AcksAdvanceUna ==
  ASSUME IInv, NEW p \in Peer, NEW d, InputAcks(p, d)
  PROVE  \A x \in Peer : snd_una'[x] >= snd_una[x]
<1>1. TypeOK /\ Direction(p)
  BY DEF IInv
<1>2. PICK left : left = StillUnacked(p, d)
  OBVIOUS
<1>3. PICK nxt \in Nat : nxt = snd_nxt[p]
  BY <1>1 DEF TypeOK
<1>4. /\ left \subseteq DOMAIN snd_buf[p] /\ DOMAIN snd_buf[p] \subseteq Nat
      /\ \A s \in DOMAIN snd_buf[p] : s >= snd_una[p]
      /\ snd_una[p] \in Nat /\ snd_una[p] <= nxt
  BY <1>1, <1>2, <1>3 DEF StillUnacked, TypeOK, IsBuffer, Direction
<1>5. snd_una' = [snd_una EXCEPT ![p] = LowestUnacked(left, nxt)]
  BY <1>2, <1>3 DEF InputAcks
<1>6. LowestUnacked(left, nxt) \in Nat /\ LowestUnacked(left, nxt) \in left \cup {nxt}
  <2>1. left \in SUBSET Nat
    BY <1>4
  <2> QED
    BY <2>1, LowestUnackedFacts
<1>7. LowestUnacked(left, nxt) >= snd_una[p]
  BY <1>4, <1>6
<1>8. ASSUME NEW x \in Peer
      PROVE  snd_una'[x] >= snd_una[x]
  <2>1. CASE x = p
    BY <1>1, <1>5, <1>7, <2>1 DEF TypeOK
  <2>2. CASE x # p
    <3>1. snd_una'[x] = snd_una[x] /\ snd_una[x] \in Nat
      BY <1>1, <1>5, <2>2 DEF TypeOK
    <3> QED
      BY <3>1
  <2> QED
    BY <2>1, <2>2
<1> QED
  BY <1>8

\* No step takes snd_una back.
LEMMA UnaStep ==
  ASSUME IInv, [Next]_vars
  PROVE  \A p \in Peer : snd_una'[p] >= snd_una[p]
<1>1. ASSUME UNCHANGED snd_una
      PROVE  \A p \in Peer : snd_una'[p] >= snd_una[p]
  <2>1. ASSUME NEW p \in Peer
        PROVE  snd_una'[p] >= snd_una[p]
    <3>1. snd_una[p] \in Nat
      BY DEF IInv, TypeOK
    <3> QED
      BY <1>1, <3>1
  <2> QED
    BY <2>1
<1>2. ASSUME NEW p \in Peer, \E d \in net : Input(p, d)
      PROVE  \A x \in Peer : snd_una'[x] >= snd_una[x]
  <2>1. PICK d : InputAcks(p, d)
    BY <1>2 DEF Input
  <2> QED
    BY <2>1, AcksAdvanceUna
<1>3. CASE UNCHANGED vars
  BY <1>1, <1>3 DEF vars, sndVars
<1>4. CASE Next
  <2>1. ASSUME NEW p \in Peer, NEW count \in Counts, Send(p, count)
        PROVE  UNCHANGED snd_una
    BY <2>1 DEF Send
  <2>2. ASSUME NEW p \in Peer, Recv(p) \/ Peek(p)
        PROVE  UNCHANGED snd_una
    BY <2>2 DEF Recv, Peek, sndVars
  <2>3. ASSUME NEW p \in Peer, NEW sndwnd, NEW rcvwnd, WndSize(p, sndwnd, rcvwnd)
        PROVE  UNCHANGED snd_una
    BY <2>3 DEF WndSize, sndVars
  <2>4. ASSUME NEW p \in Peer, AnyFlush(p)
        PROVE  UNCHANGED snd_una
    BY <2>4 DEF AnyFlush, Flush
  <2>5. ASSUME NEW p \in Peer, Deliver(p) \/ DeliverCopy(p)
        PROVE  \E d \in net : Input(p, d)
    BY <2>5 DEF Deliver, DeliverCopy
  <2>6. ASSUME Lose
        PROVE  UNCHANGED snd_una
    BY <2>6 DEF Lose, sndVars
  <2> QED
    BY <1>1, <1>2, <1>4, <2>1, <2>2, <2>3, <2>4, <2>5, <2>6 DEF Next
<1> QED
  BY <1>3, <1>4

\* snd_una never goes back (ikcp_parse_una and ikcp_shrink_buf).
THEOREM UnaNeverGoesBack == Spec => UnaMonotone
<1>1. ASSUME IInv, [Next]_vars
      PROVE  [\A p \in Peer : snd_una'[p] >= snd_una[p]]_vars
  BY <1>1, UnaStep
<1> QED
  BY <1>1, Invariant, PTL DEF Spec, UnaMonotone

-----------------------------------------------------------------------------
(* The receiver's memory *)

\* What is left of the receive window is not more than the window.
LEMMA WndUnusedBound ==
  ASSUME TypeOK, NEW p \in Peer
  PROVE  /\ WndUnused(p) <= rcv_wnd[p]
         /\ Len(rcv_queue[p]) + WndUnused(p) <= imax(Len(rcv_queue[p]), rcv_wnd[p])
<1>1. PICK len \in Nat : len = Len(rcv_queue[p])
  BY LenProperties DEF TypeOK
<1>2. PICK wnd \in Nat : wnd = rcv_wnd[p]
  BY DEF TypeOK
<1> QED
  BY <1>1, <1>2 DEF WndUnused, imax

\* A step that leaves the receive side alone buffers nothing.
LEMMA UnchangedInWindow ==
  ASSUME TypeOK, NEW p \in Peer,
         rcv_queue'[p] = rcv_queue[p], rcv_buf'[p] = rcv_buf[p]
  PROVE  GrowsInWindow(p)
<1>1. PICK len \in Nat : len = Len(rcv_queue[p])
  BY LenProperties DEF TypeOK
<1>2. rcv_wnd[p] \in Nat
  BY DEF TypeOK
<1>3. len <= imax(len, rcv_wnd[p])
  BY <1>1, <1>2 DEF imax
<1> QED
  BY <1>1, <1>3 DEF GrowsInWindow

\* The move loop of ikcp_recv stops when the queue fills the window.
LEMMA RefillInWindow ==
  ASSUME TypeOK, NEW p \in Peer, NEW k \in 0..Len(rcv_queue[p]), Refill(p, k)
  PROVE  \A q \in Peer : GrowsInWindow(q)
<1>1. PICK len \in Nat : len = Len(rcv_queue[p])
  BY LenProperties DEF TypeOK
<1>2. PICK wnd \in Nat : wnd = rcv_wnd[p]
  BY DEF TypeOK
<1>3. PICK r \in Nat : r = rcv_nxt[p]
  BY DEF TypeOK
<1>4. PICK room \in Nat : room = imax(0, wnd - (len - k))
  BY <1>1, <1>2 DEF imax
<1>5. PICK n : n = Frontier(DOMAIN rcv_buf[p], r, room)
  OBVIOUS
<1>6. /\ n \in r .. r + room
      /\ \A i \in r .. n - 1 : i \in DOMAIN rcv_buf[p]
  BY <1>5, FrontierFacts
<1>7. /\ rcv_queue' = [rcv_queue EXCEPT ![p] = Refilled(p, k, n)]
      /\ rcv_buf' = [rcv_buf EXCEPT ![p] =
                       [s \in {x \in DOMAIN @ : x >= n} |-> @[s]]]
  BY <1>1, <1>2, <1>3, <1>4, <1>5 DEF Refill
<1>8. GrowsInWindow(p)
  <2>1. Len(Refilled(p, k, n)) = len - k + (n - r)
    <3>1. n \in Nat /\ rcv_nxt[p] <= n /\ Covers(rcv_buf[p], rcv_nxt[p], n)
      BY ONLY <1>3, <1>6, r \in Nat, room \in Nat DEF Covers
    <3>2. Len(Refilled(p, k, n)) = Len(rcv_queue[p]) - k + (n - rcv_nxt[p])
      BY ONLY <3>1, RefilledType, TypeOK, p \in Peer, k \in 0..Len(rcv_queue[p])
    <3> QED
      BY ONLY <1>1, <1>3, <3>2
  <2>2. rcv_queue'[p] = Refilled(p, k, n) /\ DOMAIN rcv_buf'[p] \subseteq DOMAIN rcv_buf[p]
    BY <1>7 DEF TypeOK
  <2>3. len - k + (n - r) <= imax(len, wnd)
    <3>1. k \in 0..len
      BY <1>1
    <3>2. PICK g \in Nat, d \in Nat : g = len - k /\ g <= len /\ d = n - r /\ d <= room
      BY ONLY <1>6, <3>1, len \in Nat, room \in Nat, r \in Nat
    <3>3. room = 0 \/ g + room = wnd
      BY ONLY <1>4, <3>2, wnd \in Nat, room \in Nat DEF imax
    <3>4. PICK most \in Nat : most = imax(len, wnd) /\ len <= most /\ wnd <= most
      BY ONLY len \in Nat, wnd \in Nat DEF imax
    <3>5. g + d <= most
      BY ONLY <3>2, <3>3, <3>4, wnd \in Nat, room \in Nat, len \in Nat
    <3> QED
      BY ONLY <3>2, <3>4, <3>5
  <2> QED
    BY <1>1, <1>2, <2>1, <2>2, <2>3 DEF GrowsInWindow
<1>9. ASSUME NEW q \in Peer, q # p
      PROVE  GrowsInWindow(q)
  BY <1>7, <1>9, UnchangedInWindow DEF TypeOK
<1> QED
  BY <1>8, <1>9

\* The rcv_nxt that a PUSH is measured against is not beyond the one the
\* datagram leaves: what moved it was parsed as well.
LEMMA RcvNxtAtBound ==
  ASSUME TypeOK, NEW p \in Peer, NEW push, IsBuffer(push), NEW s \in Parsed(p, push)
  PROVE  RcvNxtAt(p, push, s) <= RcvNxtAfter(p, push)
<1>1. PICK r \in Nat : r = rcv_nxt[p]
  BY DEF TypeOK
<1>2. PICK wnd \in Nat : wnd = rcv_wnd[p]
  BY DEF TypeOK
<1>3. PICK room \in Nat : room = WndUnused(p) /\ room <= wnd
  BY <1>2, WndUnusedType, WndUnusedBound
<1>4. PICK buf : buf = DOMAIN rcv_buf[p]
  OBVIOUS
<1>5. s \in DOMAIN push /\ DOMAIN push \subseteq Nat /\ s \in Nat
  BY DEF Parsed, IsBuffer
<1>6. PICK at \in Nat : at = RcvNxtAt(p, push, s)
  BY <1>5, RcvNxtAtFacts
<1>7. PICK after \in Nat : after = RcvNxtAfter(p, push)
  BY RcvNxtAfterFacts
<1>8. /\ after \in r .. r + room
      /\ after = r + room \/ after \notin buf \cup Parsed(p, push)
  <2>1. RcvNxtAfter(p, push) = Frontier(buf \cup Parsed(p, push), r, room)
    BY <1>1, <1>3, <1>4 DEF RcvNxtAfter
  <2> QED
    BY <1>7, <2>1, FrontierFacts
<1>9. /\ r <= at /\ at <= r + room
      /\ \A i \in r .. at - 1 : i \in buf \/ (i \in DOMAIN push /\ i < s)
  <2>1. at = r \/ at = Frontier(buf \cup {x \in DOMAIN push : x < s}, r, room)
    BY <1>1, <1>3, <1>4, <1>6 DEF RcvNxtAt
  <2>2. at <= r + room
    BY <2>1, FrontierFacts
  <2> QED
    BY <1>1, <1>4, <1>5, <1>6, <2>2, RcvNxtAtFacts
<1>10. ASSUME NEW i \in r .. at - 1, i \notin buf
       PROVE  i \in Parsed(p, push)
  <2>1. i \in Nat /\ i \in DOMAIN push /\ i < r + room
    BY <1>9, <1>10
  <2>2. PICK m \in Nat : m = RcvNxtAt(p, push, i)
    BY <1>5, <2>1, RcvNxtAtFacts
  <2>3. /\ r <= m
        /\ \A j \in r .. m - 1 : j \in buf \/ j < i
    BY <1>1, <1>4, <1>5, <2>1, <2>2, RcvNxtAtFacts
  <2>4. m <= i
    <3>1. SUFFICES ASSUME i < m
                   PROVE  FALSE
      BY <2>1, <2>2
    <3>2. i \in r .. m - 1
      BY <2>2, <3>1
    <3> QED
      BY <1>10, <2>3, <3>2
  <2>5. i < m + wnd
    BY <1>2, <1>3, <2>1, <2>2, <2>3
  <2> QED
    BY <1>2, <2>1, <2>2, <2>4, <2>5 DEF Parsed
<1>11. at <= after
  <2>1. SUFFICES ASSUME after < at
                 PROVE  FALSE
    BY <1>6, <1>7
  <2>2. after \in r .. at - 1 /\ after # r + room
    BY <1>8, <1>9, <2>1
  <2> QED
    BY <1>8, <1>10, <2>2
<1> QED
  BY <1>6, <1>7, <1>11

\* ikcp_input buffers a PUSH inside the window only, and the move loop of
\* ikcp_parse_data stops when the queue fills it.
LEMMA InputInWindow ==
  ASSUME TypeOK, NEW p \in Peer, NEW push, IsBuffer(push), InputPushes(p, push)
  PROVE  \A q \in Peer : GrowsInWindow(q)
<1>1. PICK len \in Nat : len = Len(rcv_queue[p])
  BY LenProperties DEF TypeOK
<1>2. PICK wnd \in Nat : wnd = rcv_wnd[p]
  BY DEF TypeOK
<1>3. PICK r \in Nat : r = rcv_nxt[p]
  BY DEF TypeOK
<1>4. PICK n \in Nat : n = RcvNxtAfter(p, push)
  BY RcvNxtAfterFacts
<1>5. PICK f : f = Received(p, push)
  OBVIOUS
<1>6. r <= n /\ Covers(f, r, n) /\ IsBuffer(f)
  BY <1>3, <1>4, <1>5, RcvNxtAfterFacts, ReceivedType
<1>7. /\ rcv_nxt' = [rcv_nxt EXCEPT ![p] = n]
      /\ rcv_buf' = [rcv_buf EXCEPT ![p] = [s \in {x \in DOMAIN f : x >= n} |-> f[s]]]
      /\ rcv_queue' = [rcv_queue EXCEPT ![p] = MovedTo(@, f, r, n)]
  BY <1>3, <1>4, <1>5 DEF InputPushes
<1>8. /\ rcv_nxt'[p] = n
      /\ rcv_queue'[p] = MovedTo(rcv_queue[p], f, r, n)
      /\ DOMAIN rcv_buf'[p] \subseteq DOMAIN f
  BY <1>7 DEF TypeOK
<1>9. Len(rcv_queue'[p]) <= imax(len, wnd)
  <2>1. PICK room \in Nat : room = WndUnused(p) /\ len + room <= imax(len, wnd)
    BY <1>1, <1>2, WndUnusedType, WndUnusedBound
  <2>2. n <= r + room
    <3>1. n = r \/ n = Frontier(DOMAIN rcv_buf[p] \cup Parsed(p, push), r, room)
      BY <1>3, <1>4, <2>1 DEF RcvNxtAfter
    <3> QED
      BY <3>1, FrontierFacts
  <2>3. Len(MovedTo(rcv_queue[p], f, r, n)) = len + (n - r)
    <3>1. rcv_queue[p] \in Seq(Segment)
      BY DEF TypeOK
    <3> QED
      BY <1>1, <1>6, <3>1, MoveType, ZenonT(40)
  <2>4. imax(len, wnd) \in Nat
    BY DEF imax
  <2> QED
    BY <1>8, <2>1, <2>2, <2>3, <2>4
<1>10. ASSUME NEW s \in DOMAIN rcv_buf'[p], s \notin DOMAIN rcv_buf[p]
       PROVE  s < rcv_nxt'[p] + wnd
  <2>1. s \in Parsed(p, push)
    BY <1>5, <1>8, <1>10 DEF Received
  <2>2. s \in Nat
    BY <2>1 DEF Parsed, IsBuffer
  <2>3. PICK at \in Nat : at = RcvNxtAt(p, push, s)
    BY <2>2, RcvNxtAtFacts DEF IsBuffer
  <2>4. s < at + wnd
    BY <1>2, <2>1, <2>3 DEF Parsed
  <2>5. at <= n
    BY <1>4, <2>1, <2>3, RcvNxtAtBound
  <2> QED
    BY <1>8, <2>2, <2>4, <2>5
<1>11. GrowsInWindow(p)
  BY <1>1, <1>2, <1>9, <1>10 DEF GrowsInWindow
<1>12. ASSUME NEW q \in Peer, q # p
       PROVE  GrowsInWindow(q)
  BY <1>7, <1>12, UnchangedInWindow DEF TypeOK
<1> QED
  BY <1>11, <1>12

\* No step buffers anything outside the window.
LEMMA GrowsStep ==
  ASSUME TypeOK, [Next]_vars
  PROVE  \A q \in Peer : GrowsInWindow(q)
<1>1. ASSUME UNCHANGED <<rcv_queue, rcv_buf>>
      PROVE  \A q \in Peer : GrowsInWindow(q)
  BY <1>1, UnchangedInWindow
<1>2. ASSUME NEW p \in Peer, NEW d \in net, Input(p, d)
      PROVE  \A q \in Peer : GrowsInWindow(q)
  <2>1. IsBuffer(d.push) /\ InputPushes(p, d.push)
    BY <1>2 DEF TypeOK, DatagramOK, IsBuffer, Input
  <2> QED
    BY <2>1, InputInWindow
<1>3. ASSUME NEW p \in Peer, Recv(p)
      PROVE  \A q \in Peer : GrowsInWindow(q)
  <2>1. PICK k \in 1..Len(rcv_queue[p]) : Refill(p, k)
    BY <1>3 DEF Recv
  <2>2. k \in 0..Len(rcv_queue[p])
    BY <2>1
  <2> QED
    BY <2>1, <2>2, RefillInWindow
<1>4. ASSUME NEW p \in Peer, Peek(p)
      PROVE  \A q \in Peer : GrowsInWindow(q)
  <2>1. 0 \in 0..Len(rcv_queue[p])
    BY LenProperties DEF TypeOK
  <2> QED
    BY <1>4, <2>1, RefillInWindow DEF Peek
<1>5. CASE UNCHANGED vars
  BY <1>1, <1>5 DEF vars, rcvVars
<1>6. CASE Next
  <2>1. ASSUME NEW p \in Peer, NEW count \in Counts, Send(p, count)
        PROVE  UNCHANGED <<rcv_queue, rcv_buf>>
    BY <2>1 DEF Send, rcvVars
  <2>2. ASSUME NEW p \in Peer, NEW sndwnd, NEW rcvwnd, WndSize(p, sndwnd, rcvwnd)
        PROVE  UNCHANGED <<rcv_queue, rcv_buf>>
    BY <2>2 DEF WndSize, rcvVars
  <2>3. ASSUME NEW p \in Peer, AnyFlush(p)
        PROVE  UNCHANGED <<rcv_queue, rcv_buf>>
    BY <2>3 DEF AnyFlush, Flush
  <2>4. ASSUME NEW p \in Peer, Deliver(p) \/ DeliverCopy(p)
        PROVE  \E d \in net : Input(p, d)
    BY <2>4 DEF Deliver, DeliverCopy
  <2>5. ASSUME Lose
        PROVE  UNCHANGED <<rcv_queue, rcv_buf>>
    BY <2>5 DEF Lose, rcvVars
  <2> QED
    BY <1>1, <1>2, <1>3, <1>4, <1>6, <2>1, <2>2, <2>3, <2>4, <2>5 DEF Next
<1> QED
  BY <1>5, <1>6

\* The receive window bounds what an endpoint buffers, whatever arrives and
\* whenever the application changes it (ikcp_parse_data, ikcp_recv).
THEOREM ReceiverStaysBounded == Spec => ReceiverBounded
<1>1. ASSUME TypeOK, [Next]_vars
      PROVE  [\A p \in Peer : GrowsInWindow(p)]_vars
  BY <1>1, GrowsStep
<1> QED
  BY <1>1, TypeCorrect, PTL DEF Spec, ReceiverBounded, GrowsInWindow

-----------------------------------------------------------------------------
(* Messages in a stream *)

\* The ends of an interval.
LEMMA IntervalEnds ==
  ASSUME NEW a \in Int, NEW b \in Int, a <= b
  PROVE  Min(a..b) = a /\ Max(a..b) = b
<1>1. \A x \in a..b : (\A y \in a..b : x <= y) => x = a
  OBVIOUS
<1>2. \A x \in a..b : (\A y \in a..b : x >= y) => x = b
  OBVIOUS
<1>3. a \in a..b /\ (\A y \in a..b : a <= y) /\ b \in a..b /\ (\A y \in a..b : b >= y)
  OBVIOUS
<1> QED
  BY <1>1, <1>2, <1>3 DEF Min, Max

\* The fields of a segment of a stream.
LEMMA SegmentAt ==
  ASSUME NEW str \in Seq(Segment), NEW i \in 1..Len(str)
  PROVE  str[i] \in Segment /\ str[i].msg \in Nat /\ str[i].frg \in Nat
<1>1. str[i] \in Segment
  BY ElementOfSeq
<1> QED
  BY <1>1 DEF Segment

\* A message that starts with the i-th segment, of frg f, stands in i to i + f.
LEMMA MessagePlaces ==
  ASSUME NEW str \in Seq(Segment), NEW n \in Nat, CountsDown(str), Numbers(str, n),
         NEW i \in 1..Len(str), StartsAt(str, i),
         NEW last, last = i + str[i].frg
  PROVE  /\ last \in i..Len(str)
         /\ str[i].msg \in 1..n
         /\ Places(str, str[i].msg) = i..last
         /\ MessageIn(str, str[i].msg) = SubSeq(str, i, last)
<1>1. PICK len \in Nat : len = Len(str)
  BY LenProperties
<1>2. \A j \in 1..len : str[j] \in Segment /\ str[j].msg \in Nat /\ str[j].frg \in Nat
  BY <1>1, SegmentAt
<1>3. /\ last \in i..len
      /\ \A j \in i..last : str[j].msg = str[i].msg
      /\ last < len => str[last + 1].msg = str[i].msg + 1
  <2>1. i \in 1..len /\ str[i].frg \in Nat
    BY ONLY <1>1, <1>2, i \in 1..Len(str)
  <2>2. /\ i + str[i].frg <= Len(str)
        /\ \A j \in i .. i + str[i].frg : str[j].msg = str[i].msg
        /\ i + str[i].frg < Len(str) => str[i + str[i].frg + 1].msg = str[i].msg + 1
    BY ONLY CountsDown(str), i \in 1..Len(str) DEF CountsDown
  <2>3. last \in i..len
    BY ONLY <1>1, <2>1, <2>2, last = i + str[i].frg
  <2> QED
    BY ONLY <1>1, <2>2, <2>3, last = i + str[i].frg
<1>4. \A j, k \in 1..len : j <= k => str[j].msg <= str[k].msg
  BY <1>1 DEF Numbers
<1>5. str[i].msg \in 1..n
  <2>1. str[1].msg = 1 /\ str[1].msg <= str[i].msg /\ str[i].msg <= n
    BY <1>1, <1>4 DEF Numbers
  <2> QED
    BY <1>1, <1>2, <2>1
<1>6. ASSUME NEW j \in 1..len, j < i
      PROVE  str[j].msg < str[i].msg
  <2>1. i - 1 \in 1..len /\ j <= i - 1 /\ i # 1
    BY <1>1, <1>6
  <2>2. str[i - 1].frg = 0
    BY <2>1 DEF StartsAt
  <2>3. str[(i - 1) + 0 + 1].msg = str[i - 1].msg + 1
    BY <1>1, <2>1, <2>2 DEF CountsDown
  <2>4. str[j].msg <= str[i - 1].msg
    BY <1>4, <2>1
  <2> QED
    BY <1>1, <1>2, <2>1, <2>3, <2>4
<1>7. ASSUME NEW j \in 1..len, j > last
      PROVE  str[j].msg > str[i].msg
  <2>1. last + 1 \in 1..len /\ last + 1 <= j /\ last < len
    BY <1>1, <1>3, <1>7
  <2>2. str[last + 1].msg <= str[j].msg
    BY <1>4, <2>1
  <2> QED
    BY <1>2, <1>3, <2>1, <2>2, <1>1
<1>8. ASSUME NEW j \in 1..len
      PROVE  str[j].msg = str[i].msg <=> j \in i..last
  BY <1>1, <1>2, <1>3, <1>6, <1>7
<1>9. Places(str, str[i].msg) = i..last
  BY <1>1, <1>3, <1>8 DEF Places
<1>10. Min(i..last) = i /\ Max(i..last) = last
  BY <1>1, <1>3, IntervalEnds
<1> QED
  BY <1>1, <1>3, <1>5, <1>9, <1>10 DEF MessageIn

\* The number of the last message of a well-formed stream.
LEMMA LastMessage ==
  ASSUME TypeOK, NEW p \in Peer, CountsDown(stream[p]), Numbers(stream[p], MsgsSent(p)),
         NEW len \in Nat, len = Len(stream[p])
  PROVE  /\ len = 0 => MsgsSent(p) = 0
         /\ len > 0 => stream[p][len].msg = MsgsSent(p) /\ stream[p][len].frg = 0
<1>1. stream[p] \in Seq(Segment)
  BY DEF TypeOK
<1>2. CASE len = 0
  <2>1. stream[p] = <<>>
    BY <1>1, <1>2, EmptySeq
  <2> QED
    BY <1>2, <2>1 DEF MsgsSent
<1>3. CASE len > 0
  <2>1. stream[p] # <<>> /\ len \in 1..Len(stream[p])
    BY <1>1, <1>3, EmptySeq
  <2>2. stream[p][len].frg \in Nat
    BY <1>1, <2>1, SegmentAt
  <2>3. len + stream[p][len].frg <= len
    BY <2>1 DEF CountsDown
  <2> QED
    BY <2>1, <2>2, <2>3, <1>3 DEF MsgsSent
<1> QED
  BY <1>2, <1>3

\* A stretch that two streams have in common.
LEMMA SameStretch ==
  ASSUME NEW str \in Seq(Segment), NEW other \in Seq(Segment),
         NEW i \in 1..Len(str), NEW j \in i..Len(str),
         Len(str) <= Len(other), \A k \in 1..Len(str) : other[k] = str[k]
  PROVE  SubSeq(other, i, j) = SubSeq(str, i, j)
<1>1. PICK len \in Nat : len = Len(str)
  BY LenProperties
<1>2. \A k \in i..j : k \in 1..len /\ str[k] \in Segment /\ other[k] = str[k]
  BY <1>1, SegmentAt
<1>3. i \in Int /\ j \in Int /\ i <= j
  BY <1>1
<1>4. /\ SubSeq(str, i, j) \in Seq(Segment) /\ Len(SubSeq(str, i, j)) = j - i + 1
      /\ \A k \in 1 .. j - i + 1 : SubSeq(str, i, j)[k] = str[i + k - 1]
  BY <1>2, <1>3, SubSeqProperties
<1>5. /\ SubSeq(other, i, j) \in Seq(Segment) /\ Len(SubSeq(other, i, j)) = j - i + 1
      /\ \A k \in 1 .. j - i + 1 : SubSeq(other, i, j)[k] = other[i + k - 1]
  BY <1>2, <1>3, SubSeqProperties
<1>6. \A k \in 1 .. j - i + 1 : i + k - 1 \in i..j
  BY <1>3
<1>7. \A k \in 1 .. j - i + 1 : SubSeq(other, i, j)[k] = SubSeq(str, i, j)[k]
  BY <1>2, <1>4, <1>5, <1>6
<1> QED
  BY ONLY <1>4, <1>5, <1>7, SeqEqual

\* CountsDown and Numbers of the first len elements of a function.
Counted(f, len) ==
  \A i \in 1..len :
    /\ f[i].msg \in Nat /\ f[i].frg \in Nat
    /\ i + f[i].frg <= len
    /\ \A j \in i .. i + f[i].frg :
         f[j].msg = f[i].msg /\ f[j].frg = i + f[i].frg - j
    /\ i + f[i].frg < len => f[i + f[i].frg + 1].msg = f[i].msg + 1

NumberedTo(f, len, n) ==
  /\ len > 0 => f[1].msg = 1
  /\ \A i, j \in 1..len : i <= j => f[i].msg <= f[j].msg
  /\ \A m \in 1..n : \E i \in 1..len : f[i].msg = m /\ StartsAt(f, i)
  /\ \A i \in 1..len : f[i].msg <= n

LEMMA CountedStream ==
  ASSUME NEW str \in Seq(Segment), NEW n, NEW len, len = Len(str)
  PROVE  /\ CountsDown(str) <=> Counted(str, len)
         /\ Numbers(str, n) <=> NumberedTo(str, len, n)
<1>1. \A i \in 1..len : str[i].msg \in Nat /\ str[i].frg \in Nat
  BY SegmentAt
<1> QED
  BY ONLY <1>1, len = Len(str) DEF CountsDown, Counted, Numbers, NumberedTo

\* g is f with the count segments of message n + 1 behind it.
Longer(f, g, len, count, n) ==
  /\ \A i \in 1..len : g[i] = f[i]
  /\ \A i \in len + 1 .. len + count : g[i].msg = n + 1 /\ g[i].frg = len + count - i
  /\ len = 0 => n = 0
  /\ len > 0 => f[len].msg = n /\ f[len].frg = 0

LEMMA LongerCounted ==
  ASSUME NEW f, NEW g, NEW len \in Nat, NEW count \in Nat \ {0}, NEW n \in Nat,
         Counted(f, len), Longer(f, g, len, count, n)
  PROVE  Counted(g, len + count)
<1> SUFFICES ASSUME NEW i \in 1 .. len + count, NEW last, last = i + g[i].frg
             PROVE  /\ g[i].msg \in Nat /\ g[i].frg \in Nat
                    /\ last <= len + count
                    /\ \A j \in i..last : g[j].msg = g[i].msg /\ g[j].frg = last - j
                    /\ last < len + count => g[last + 1].msg = g[i].msg + 1
  BY DEF Counted
<1>1. CASE i \in 1..len
  <2>1. g[i] = f[i] /\ f[i].msg \in Nat /\ f[i].frg \in Nat
    BY <1>1 DEF Longer, Counted
  <2>2. /\ last \in i..len
        /\ \A j \in i..last : f[j].msg = f[i].msg /\ f[j].frg = last - j
        /\ last < len => f[last + 1].msg = f[i].msg + 1
    BY <1>1, <2>1 DEF Counted
  <2>3. \A j \in i..last : j \in 1..len
    BY <1>1, <2>2
  <2>4. \A j \in i..last : g[j].msg = g[i].msg /\ g[j].frg = last - j
    BY <2>1, <2>2, <2>3 DEF Longer
  <2>5. ASSUME last < len
        PROVE  g[last + 1].msg = g[i].msg + 1
    <3>1. last + 1 \in 1..len
      BY <1>1, <2>2, <2>5
    <3> QED
      BY <2>1, <2>2, <2>5, <3>1 DEF Longer
  <2>6. ASSUME last = len
        PROVE  g[last + 1].msg = g[i].msg + 1
    <3>1. len > 0 /\ len \in i..last /\ len + 1 \in len + 1 .. len + count
      BY <1>1, <2>2, <2>6
    <3>2. f[len].msg = n /\ f[len].msg = f[i].msg /\ g[len + 1].msg = n + 1
      BY <2>2, <3>1 DEF Longer
    <3> QED
      BY <2>1, <2>6, <3>2
  <2> QED
    BY <2>1, <2>2, <2>4, <2>5, <2>6
<1>2. CASE i \in len + 1 .. len + count
  <2>1. g[i].msg = n + 1 /\ g[i].frg = len + count - i
    BY <1>2 DEF Longer
  <2>2. last = len + count /\ \A j \in i..last : j \in len + 1 .. len + count
    BY <1>2, <2>1
  <2>3. \A j \in i..last : g[j].msg = g[i].msg /\ g[j].frg = last - j
    BY <2>1, <2>2 DEF Longer
  <2>4. g[i].msg \in Nat /\ g[i].frg \in Nat
    BY <1>2, <2>1
  <2> QED
    BY <2>2, <2>3, <2>4
<1> QED
  BY <1>1, <1>2

LEMMA LongerNumbered ==
  ASSUME NEW f, NEW g, NEW len \in Nat, NEW count \in Nat \ {0}, NEW n \in Nat,
         Counted(f, len), NumberedTo(f, len, n), Longer(f, g, len, count, n)
  PROVE  /\ NumberedTo(g, len + count, n + 1)
         /\ StartsAt(g, len + 1) /\ g[len + 1].frg = count - 1
<1>1. g[len + 1].msg = n + 1 /\ g[len + 1].frg = count - 1
  <2>1. len + 1 \in len + 1 .. len + count /\ len + count - (len + 1) = count - 1
    OBVIOUS
  <2> QED
    BY <2>1 DEF Longer
<1>2. StartsAt(g, len + 1)
  <2>1. CASE len = 0
    BY <2>1 DEF StartsAt
  <2>2. CASE len > 0
    <3>1. (len + 1) - 1 = len /\ len \in 1..len
      BY <2>2
    <3> QED
      BY <2>2, <3>1 DEF StartsAt, Longer
  <2> QED
    BY <2>1, <2>2
<1>3. g[1].msg = 1
  <2>1. CASE len = 0
    BY <1>1, <2>1 DEF Longer
  <2>2. CASE len > 0
    <3>1. 1 \in 1..len
      BY <2>2
    <3> QED
      BY <2>2, <3>1 DEF NumberedTo, Longer
  <2> QED
    BY <2>1, <2>2
<1>4. ASSUME NEW i \in 1 .. len + count
      PROVE  \/ i \in 1..len /\ g[i] = f[i] /\ g[i].msg \in Nat /\ g[i].msg <= n
             \/ i \in len + 1 .. len + count /\ g[i].msg = n + 1
  <2>1. CASE i \in 1..len
    BY <2>1 DEF Counted, NumberedTo, Longer
  <2>2. CASE i \in len + 1 .. len + count
    BY <2>2 DEF Longer
  <2> QED
    BY <2>1, <2>2
<1>5. ASSUME NEW i \in 1 .. len + count, NEW j \in 1 .. len + count, i <= j
      PROVE  g[i].msg <= g[j].msg
  <2>1. CASE i \in 1..len /\ j \in 1..len
    BY <1>5, <2>1 DEF NumberedTo, Longer
  <2>2. CASE ~(i \in 1..len /\ j \in 1..len)
    <3>1. j \in len + 1 .. len + count
      BY <1>5, <2>2
    <3> QED
      BY <1>4, <3>1
  <2> QED
    BY <2>1, <2>2
<1>6. ASSUME NEW m \in 1 .. n + 1
      PROVE  \E i \in 1 .. len + count : g[i].msg = m /\ StartsAt(g, i)
  <2>1. CASE m = n + 1
    <3>1. len + 1 \in 1 .. len + count
      OBVIOUS
    <3> QED
      BY <1>1, <1>2, <2>1, <3>1
  <2>2. CASE m \in 1..n
    <3>1. PICK i \in 1..len : f[i].msg = m /\ StartsAt(f, i)
      BY <2>2 DEF NumberedTo
    <3>2. i = 1 \/ (i - 1 \in 1..len /\ f[i - 1].frg = 0)
      BY <3>1 DEF StartsAt
    <3>3. StartsAt(g, i) /\ g[i] = f[i]
      BY <3>2 DEF StartsAt, Longer
    <3>4. i \in 1 .. len + count
      OBVIOUS
    <3> QED
      BY <3>1, <3>3, <3>4
  <2> QED
    BY <2>1, <2>2
<1>7. \A i \in 1 .. len + count : g[i].msg <= n + 1
  BY <1>4
<1>8. NumberedTo(g, len + count, n + 1)
  BY <1>3, <1>5, <1>6, <1>7 DEF NumberedTo
<1> QED
  BY <1>1, <1>2, <1>8

\* A stream of n messages, len segments long, to which ikcp_send appends the
\* count segments of new.
Extends(all, str, len, n, new, count) ==
  /\ str \in Seq(Segment) /\ n \in Nat /\ len \in Nat /\ len = Len(str)
  /\ CountsDown(str) /\ Numbers(str, n)
  /\ len = 0 => n = 0
  /\ len > 0 => str[len].msg = n /\ str[len].frg = 0
  /\ count \in Nat /\ count # 0 /\ new = Fragments(n + 1, count)
  /\ all = str \o new

\* A message that ikcp_send has added reads back as it was, and the messages
\* before it as they did.
LEMMA SendFrames ==
  ASSUME NEW all, NEW str, NEW len, NEW n, NEW new, NEW count,
         Extends(all, str, len, n, new, count)
  PROVE  /\ all \in Seq(Segment)
         /\ Len(all) = len + count /\ all[len + count].msg = n + 1
         /\ CountsDown(all) /\ Numbers(all, n + 1)
         /\ MessageIn(all, n + 1) = new
         /\ \A m \in 1..n : MessageIn(all, m) = MessageIn(str, m)
<1>0. /\ str \in Seq(Segment) /\ n \in Nat /\ len \in Nat /\ len = Len(str)
      /\ CountsDown(str) /\ Numbers(str, n)
      /\ len = 0 => n = 0
      /\ len > 0 => str[len].msg = n /\ str[len].frg = 0
      /\ count \in Nat /\ count # 0 /\ new = Fragments(n + 1, count)
      /\ all = str \o new
  BY DEF Extends
<1>1. /\ new \in Seq(Segment) /\ Len(new) = count
      /\ \A i \in 1..count : new[i].frg = count - i /\ new[i].msg = n + 1
  <2>1. new \in Seq(Segment) /\ Len(new) = count
    <3>1. PICK m \in Nat : m = n + 1
      BY ONLY <1>0
    <3>2. Fragments(m, count) \in Seq(Segment) /\ Len(Fragments(m, count)) = count
      BY ONLY <1>0, FragmentsFacts
    <3> QED
      BY ONLY <1>0, <3>1, <3>2
  <2>2. \A i \in 1..count : new[i] = [msg |-> n + 1, frg |-> count - i]
    BY ONLY <1>0 DEF Fragments
  <2> QED
    BY ONLY <2>1, <2>2
<1>2. /\ all \in Seq(Segment) /\ Len(all) = len + count
      /\ \A i \in 1..len : all[i] = str[i]
      /\ \A i \in 1..count : all[len + i] = new[i]
  <2>1. /\ str \o new \in Seq(Segment)
        /\ Len(str \o new) = len + Len(new)
        /\ \A i \in 1..len : (str \o new)[i] = str[i]
        /\ \A i \in 1..Len(new) : (str \o new)[len + i] = new[i]
    BY ONLY <1>0, <1>1, ConcatElement
  <2> QED
    BY ONLY <1>0, <1>1, <2>1
<1>3. Counted(str, len) /\ NumberedTo(str, len, n)
  BY ONLY <1>0, CountedStream
<1>4. Longer(str, all, len, count, n)
  <2>1. ASSUME NEW i \in len + 1 .. len + count
        PROVE  all[i].msg = n + 1 /\ all[i].frg = len + count - i
    <3>1. i - len \in 1..count /\ i = len + (i - len) /\ count - (i - len) = len + count - i
      BY ONLY <1>0, i \in len + 1 .. len + count
    <3>2. all[i] = new[i - len]
      BY ONLY <1>2, <3>1
    <3> QED
      BY ONLY <1>1, <3>1, <3>2
  <2> QED
    BY ONLY <1>0, <1>2, <2>1 DEF Longer
<1>5. /\ Counted(all, len + count) /\ NumberedTo(all, len + count, n + 1)
      /\ StartsAt(all, len + 1) /\ all[len + 1].frg = count - 1
  <2>1. Counted(all, len + count)
    BY ONLY <1>0, <1>3, <1>4, LongerCounted
  <2>2. /\ NumberedTo(all, len + count, n + 1)
        /\ StartsAt(all, len + 1) /\ all[len + 1].frg = count - 1
    BY ONLY <1>0, <1>3, <1>4, LongerNumbered
  <2> QED
    BY ONLY <2>1, <2>2
<1>6. CountsDown(all) /\ Numbers(all, n + 1)
  BY ONLY <1>2, <1>5, CountedStream
<1>7. /\ len + 1 \in 1 .. len + count /\ len + count \in len + 1 .. len + count
      /\ len + count = (len + 1) + (count - 1)
  BY ONLY <1>0
<1>8. all[len + 1].msg = n + 1 /\ all[len + count].msg = n + 1
  <2>1. len + 1 \in len + 1 .. len + count
    BY ONLY <1>0
  <2> QED
    BY ONLY <1>4, <1>7, <2>1 DEF Longer
<1>9. MessageIn(all, n + 1) = new
  <2>1. MessageIn(all, n + 1) = SubSeq(all, len + 1, len + count)
    <3>1. PICK i : i = len + 1
      OBVIOUS
    <3>2. PICK last : last = len + count
      OBVIOUS
    <3>3. PICK more \in Nat : more = n + 1
      BY ONLY <1>0
    <3>4. i \in 1..Len(all) /\ StartsAt(all, i) /\ last = i + all[i].frg
      BY ONLY <1>2, <1>5, <1>7, <3>1, <3>2
    <3>5. MessageIn(all, all[i].msg) = SubSeq(all, i, last)
      BY ONLY <1>2, <1>6, <3>3, <3>4, MessagePlaces
    <3> QED
      BY ONLY <1>8, <3>1, <3>2, <3>5
  <2>2. \A k \in len + 1 .. len + count : all[k] \in Segment
    <3>1. \A k \in len + 1 .. len + count : k \in 1..Len(all)
      BY ONLY <1>0, <1>2
    <3> QED
      BY ONLY <1>2, <3>1, SegmentAt
  <2>3. /\ SubSeq(all, len + 1, len + count) \in Seq(Segment)
        /\ Len(SubSeq(all, len + 1, len + count)) =
             IF len + 1 <= len + count THEN (len + count) - (len + 1) + 1 ELSE 0
        /\ \A k \in 1 .. (len + count) - (len + 1) + 1 :
             SubSeq(all, len + 1, len + count)[k] = all[(len + 1) + k - 1]
    <3>1. len + 1 \in Int /\ len + count \in Int
      BY ONLY <1>0
    <3> QED
      BY ONLY <2>2, <3>1, SubSeqProperties
  <2>4. /\ (len + count) - (len + 1) + 1 = count /\ len + 1 <= len + count
        /\ \A k \in 1..count : (len + 1) + k - 1 = len + k
    BY ONLY <1>0
  <2>5. /\ Len(SubSeq(all, len + 1, len + count)) = Len(new)
        /\ \A k \in 1..Len(new) : SubSeq(all, len + 1, len + count)[k] = new[k]
    BY ONLY <1>1, <1>2, <2>3, <2>4
  <2>6. SubSeq(all, len + 1, len + count) = new
    BY ONLY <1>1, <2>3, <2>5, SeqEqual
  <2> QED
    BY ONLY <2>1, <2>6
<1>10. ASSUME NEW m \in 1..n
       PROVE  MessageIn(all, m) = MessageIn(str, m)
  <2>1. PICK i \in 1..len : str[i].msg = m /\ StartsAt(str, i)
    BY ONLY <1>3, m \in 1..n DEF NumberedTo
  <2>2. PICK last : last = i + str[i].frg
    OBVIOUS
  <2>3. i \in 1..Len(str) /\ i \in 1 .. len + count /\ i \in 1..Len(all)
    BY ONLY <1>0, <1>2, i \in 1..len
  <2>4. last \in i..Len(str) /\ MessageIn(str, m) = SubSeq(str, i, last)
    BY ONLY <1>0, <2>1, <2>2, <2>3, MessagePlaces
  <2>5. StartsAt(all, i) /\ all[i] = str[i]
    <3>1. i = 1 \/ i - 1 \in 1..len
      BY ONLY <1>0, i \in 1..len
    <3> QED
      BY ONLY <1>2, <2>1, <3>1, i \in 1..len DEF StartsAt
  <2>6. MessageIn(all, m) = SubSeq(all, i, last)
    <3>1. last = i + all[i].frg /\ all[i].msg = m
      BY ONLY <2>1, <2>2, <2>5
    <3>2. PICK more \in Nat : more = n + 1
      BY ONLY <1>0
    <3>3. MessageIn(all, all[i].msg) = SubSeq(all, i, last)
      BY ONLY <1>2, <1>6, <2>3, <2>5, <3>1, <3>2, MessagePlaces
    <3> QED
      BY ONLY <3>1, <3>3
  <2>7. SubSeq(all, i, last) = SubSeq(str, i, last)
    <3>1. Len(str) <= Len(all) /\ \A k \in 1..Len(str) : all[k] = str[k]
      BY ONLY <1>0, <1>2
    <3> QED
      BY ONLY <1>0, <1>2, <2>3, <2>4, <3>1, SameStretch
  <2> QED
    BY ONLY <2>4, <2>6, <2>7
<1> QED
  BY ONLY <1>2, <1>6, <1>8, <1>9, <1>10

-----------------------------------------------------------------------------
(* The merge loop of ikcp_recv *)

\* The all segments of queue are what follows the first read of a stream of n
\* messages, they start with a whole message, and the loop takes k of them.
Merges(queue, all, k, str, len, n, read) ==
  /\ str \in Seq(Segment) /\ n \in Nat /\ len \in Nat /\ len = Len(str)
  /\ CountsDown(str) /\ Numbers(str, n)
  /\ queue \in Seq(Segment) /\ all \in Nat /\ all = Len(queue)
  /\ read \in Nat /\ read + all <= len /\ Stretch(queue, str, read)
  /\ StartsAt(str, read + 1)
  /\ all >= 1 /\ (queue[1].frg = 0 \/ all >= queue[1].frg + 1)
  /\ k \in 1..all /\ IsMerge(queue, k)

\* Those k segments are the message that starts behind read, up to its end at.
WholeMessage(queue, k, str, n, read, at) ==
  /\ at = read + k
  /\ str[at].frg = 0
  /\ str[at].msg = str[read + 1].msg
  /\ str[at].msg \in 1..n
  /\ SubSeq(queue, 1, k) = MessageIn(str, str[at].msg)

\* Then the loop takes that message, no more and no less.
LEMMA MergeTakesMessage ==
  ASSUME NEW queue, NEW all, NEW str, NEW len, NEW n, NEW read, NEW k,
         Merges(queue, all, k, str, len, n, read)
  PROVE  \E at : WholeMessage(queue, k, str, n, read, at)
<1>0. /\ str \in Seq(Segment) /\ n \in Nat /\ len \in Nat /\ len = Len(str)
      /\ CountsDown(str) /\ Numbers(str, n)
      /\ queue \in Seq(Segment) /\ all \in Nat /\ all = Len(queue)
      /\ read \in Nat /\ read + all <= len /\ Stretch(queue, str, read)
      /\ StartsAt(str, read + 1)
      /\ all >= 1 /\ (queue[1].frg = 0 \/ all >= queue[1].frg + 1)
      /\ k \in 1..all /\ IsMerge(queue, k)
  BY DEF Merges
<1>1. Counted(str, len) /\ NumberedTo(str, len, n)
  BY ONLY <1>0, CountedStream
<1>2. PICK i : i = read + 1
  OBVIOUS
<1>3. i \in 1..len /\ i \in 1..Len(str)
  BY ONLY <1>0, <1>2
<1>4. PICK f : f = str[i].frg
  OBVIOUS
<1>5. /\ f \in Nat
      /\ \A j \in i .. i + f : str[j].msg = str[i].msg /\ str[j].frg = i + f - j
  BY ONLY <1>1, <1>3, <1>4 DEF Counted
<1>6. \A j \in 1..all : queue[j] = str[read + j]
  BY ONLY <1>0 DEF Stretch
<1>7. queue[1] = str[i] /\ all >= f + 1
  <2>1. 1 \in 1..all
    BY ONLY <1>0
  <2>2. queue[1] = str[i]
    BY ONLY <1>2, <1>6, <2>1
  <2> QED
    BY ONLY <1>0, <1>4, <1>5, <2>2
<1>8. ASSUME NEW j \in 1 .. f + 1
      PROVE  queue[j].frg = f + 1 - j /\ str[read + j].msg = str[i].msg
  <2>1. j \in 1..all /\ read + j \in i .. i + f /\ i + f - (read + j) = f + 1 - j
    BY ONLY <1>0, <1>2, <1>5, <1>7, j \in 1 .. f + 1
  <2> QED
    BY ONLY <1>5, <1>6, <2>1
<1>9. k = f + 1
  <2>1. /\ \A j \in 1 .. k - 1 : queue[j].frg # 0
        /\ queue[k].frg = 0 \/ k = all
    BY ONLY <1>0 DEF IsMerge
  <2>2. ~(k > f + 1)
    <3> SUFFICES ASSUME k > f + 1 PROVE FALSE
      OBVIOUS
    <3>1. f + 1 \in 1 .. k - 1 /\ f + 1 \in 1 .. f + 1 /\ f + 1 - (f + 1) = 0
      BY ONLY <1>0, <1>5, k > f + 1
    <3> QED
      BY ONLY <1>8, <2>1, <3>1
  <2>3. ~(k < f + 1)
    <3> SUFFICES ASSUME k < f + 1 PROVE FALSE
      OBVIOUS
    <3>1. k \in 1 .. f + 1 /\ f + 1 - k # 0 /\ k # all
      BY ONLY <1>0, <1>5, <1>7, k < f + 1
    <3> QED
      BY ONLY <1>8, <2>1, <3>1
  <2> QED
    BY ONLY <1>0, <1>5, <2>2, <2>3
<1>10. PICK last : last = i + str[i].frg
  OBVIOUS
<1>11. last = read + k /\ last \in i .. i + f
  <2>1. last = i + f
    BY ONLY <1>4, <1>10
  <2>2. read \in Nat
    BY ONLY <1>0
  <2> QED
    BY ONLY <1>2, <1>5, <1>9, <2>1, <2>2
<1>12. str[last].frg = 0 /\ str[last].msg = str[i].msg
  <2>1. str[last].frg = i + f - last /\ str[last].msg = str[i].msg
    BY ONLY <1>5, <1>11
  <2>2. i + f - last = 0
    BY ONLY <1>0, <1>2, <1>5, <1>9, <1>11
  <2> QED
    BY ONLY <2>1, <2>2
<1>13. /\ last \in i..Len(str) /\ str[i].msg \in 1..n
       /\ MessageIn(str, str[i].msg) = SubSeq(str, i, last)
  <2>1. StartsAt(str, i)
    BY ONLY <1>0, <1>2
  <2> QED
    BY ONLY <1>0, <1>3, <1>10, <2>1, MessagePlaces
<1>14. SubSeq(queue, 1, k) = SubSeq(str, i, last)
  <2>1. \A j \in 1..k : queue[j] \in Segment
    <3>1. \A j \in 1..k : j \in 1..Len(queue)
      BY ONLY <1>0
    <3> QED
      BY ONLY <1>0, <3>1, SegmentAt
  <2>2. /\ SubSeq(queue, 1, k) \in Seq(Segment)
        /\ Len(SubSeq(queue, 1, k)) = IF 1 <= k THEN k - 1 + 1 ELSE 0
        /\ \A j \in 1 .. k - 1 + 1 : SubSeq(queue, 1, k)[j] = queue[1 + j - 1]
    <3>1. k \in Int
      BY ONLY <1>0
    <3> QED
      BY ONLY <2>1, <3>1, SubSeqProperties
  <2>3. \A j \in i..last : str[j] \in Segment
    <3>1. \A j \in i..last : j \in 1..Len(str)
      BY ONLY <1>0, <1>3, <1>13
    <3> QED
      BY ONLY <1>0, <3>1, SegmentAt
  <2>4. /\ SubSeq(str, i, last) \in Seq(Segment)
        /\ Len(SubSeq(str, i, last)) = IF i <= last THEN last - i + 1 ELSE 0
        /\ \A j \in 1 .. last - i + 1 : SubSeq(str, i, last)[j] = str[i + j - 1]
    <3>1. i \in Int /\ last \in Int
      BY ONLY <1>3, <1>11, <1>5
    <3> QED
      BY ONLY <2>3, <3>1, SubSeqProperties
  <2>5. /\ k - 1 + 1 = k /\ 1 <= k /\ last - i + 1 = k /\ i <= last
        /\ \A j \in 1..k : 1 + j - 1 = j /\ i + j - 1 = read + j /\ j \in 1..all
    BY ONLY <1>0, <1>2, <1>11
  <2>6. /\ Len(SubSeq(queue, 1, k)) = Len(SubSeq(str, i, last))
        /\ \A j \in 1..Len(SubSeq(queue, 1, k)) : SubSeq(queue, 1, k)[j] = SubSeq(str, i, last)[j]
    BY ONLY <1>6, <2>2, <2>4, <2>5
  <2> QED
    BY ONLY <2>2, <2>4, <2>6, SeqEqual
<1>15. WholeMessage(queue, k, str, n, read, last)
  BY ONLY <1>2, <1>11, <1>12, <1>13, <1>14 DEF WholeMessage
<1> QED
  BY ONLY <1>15

\* The message behind a boundary is the one behind the message before it.
LEMMA NextMessage ==
  ASSUME NEW str \in Seq(Segment), NEW n \in Nat, CountsDown(str), Numbers(str, n),
         NEW len \in Nat, len = Len(str), NEW read \in Nat, read < len
  PROVE  /\ read = 0 => str[read + 1].msg = 1
         /\ read > 0 /\ str[read].frg = 0 => str[read + 1].msg = str[read].msg + 1
<1>1. Counted(str, len) /\ NumberedTo(str, len, n)
  BY CountedStream
<1>2. ASSUME read > 0, str[read].frg = 0
      PROVE  str[read + 1].msg = str[read].msg + 1
  <2>1. read \in 1..len /\ read + 0 = read
    BY ONLY <1>2, read \in Nat, len \in Nat, read < len
  <2> QED
    BY ONLY <1>1, <1>2, <2>1, read < len DEF Counted
<1> QED
  BY ONLY <1>1, <1>2, read \in Nat, len \in Nat, read < len DEF NumberedTo

-----------------------------------------------------------------------------
(* MessagesKept is an invariant, and what the steps do to the messages sent   *)
(* and read                                                                   *)

\* MessagesKept of one direction.
Kept(p) ==
  /\ CountsDown(stream[p])
  /\ Numbers(stream[p], MsgsSent(p))
  /\ ReadWhole(p)

LEMMA KeptInit == Init => MessagesKept
<1> SUFFICES ASSUME Init, NEW p \in Peer PROVE Kept(p)
  BY DEF MessagesKept, Kept
<1>1. PICK q \in Peer : q = Remote(p)
  BY RemoteFacts
<1>2. stream[p] = <<>> /\ delivered[q] = <<>> /\ rcv_nxt[q] = 0 /\ rcv_queue[q] = <<>>
  BY DEF Init
<1>3. Len(<<>>) = 0 /\ 1..0 = {} /\ 0 - 0 = 0 /\ ~(0 > 0)
  OBVIOUS
<1>4. MsgsSent(p) = 0 /\ ReadOf(p) = 0
  BY <1>1, <1>2, <1>3 DEF MsgsSent, ReadOf
<1>5. CountsDown(stream[p]) /\ Numbers(stream[p], 0)
  BY <1>2, <1>3 DEF CountsDown, Numbers
<1>6. ReadWhole(p)
  BY <1>1, <1>2, <1>3, <1>4 DEF ReadWhole
<1> QED
  BY <1>4, <1>5, <1>6 DEF Kept

\* A step that neither sends in a direction nor reads from it, though it may
\* move segments into the receive queue.
LEMMA KeptStays ==
  ASSUME NEW p \in Peer, Kept(p), NEW q \in Peer, q = Remote(p),
         stream'[p] = stream[p], delivered'[q] = delivered[q],
         rcv_nxt'[q] - Len(rcv_queue'[q]) = rcv_nxt[q] - Len(rcv_queue[q])
  PROVE  Kept(p)' /\ Messages(p)' = Messages(p)
<1>1. MsgsSent(p)' = MsgsSent(p) /\ ReadOf(p)' = ReadOf(p)
  BY DEF MsgsSent, ReadOf
<1>2. Messages(p)' = Messages(p)
  BY <1>1 DEF Messages
<1>3. CountsDown(stream[p])' /\ Numbers(stream[p], MsgsSent(p))'
  BY <1>1 DEF Kept, CountsDown, Numbers, StartsAt
<1>4. ReadWhole(p)'
  BY <1>1, <1>2 DEF Kept, ReadWhole
<1> QED
  BY <1>2, <1>3, <1>4 DEF Kept

\* The messages sent are a sequence of sequences of segments.
LEMMA MessagesType ==
  ASSUME TypeOK, NEW p \in Peer, Kept(p)
  PROVE  Messages(p) \in Seq(Seq(Segment)) /\ Len(Messages(p)) = MsgsSent(p)
<1>1. PICK str \in Seq(Segment) : str = stream[p]
  BY DEF TypeOK
<1>2. PICK n \in Nat : n = MsgsSent(p)
  BY MsgsSentType DEF TypeOK
<1>3. CountsDown(str) /\ Numbers(str, n)
  BY <1>1, <1>2 DEF Kept
<1>4. ASSUME NEW m \in 1..n
      PROVE  MessageIn(str, m) \in Seq(Segment)
  <2>1. PICK i \in 1..Len(str) : str[i].msg = m /\ StartsAt(str, i)
    BY ONLY <1>3, m \in 1..n DEF Numbers
  <2>2. PICK last : last = i + str[i].frg
    OBVIOUS
  <2>3. last \in i..Len(str) /\ MessageIn(str, m) = SubSeq(str, i, last)
    BY ONLY <1>3, <2>1, <2>2, MessagePlaces, str \in Seq(Segment), n \in Nat,
            i \in 1..Len(str)
  <2>4. PICK len \in Nat : len = Len(str)
    BY LenProperties
  <2>5. i \in Int /\ last \in Int /\ \A j \in i..last : j \in 1..Len(str)
    BY ONLY <2>3, <2>4, i \in 1..Len(str)
  <2>6. \A j \in i..last : str[j] \in Segment
    BY ONLY <2>5, SegmentAt, str \in Seq(Segment)
  <2>7. SubSeq(str, i, last) \in Seq(Segment)
    BY ONLY <2>5, <2>6, SubSeqProperties
  <2> QED
    BY ONLY <2>3, <2>7
<1>5. Messages(p) = [m \in 1..n |-> MessageIn(str, m)]
  BY <1>1, <1>2 DEF Messages
<1>6. /\ [m \in 1..n |-> MessageIn(str, m)] \in Seq(Seq(Segment))
      /\ Len([m \in 1..n |-> MessageIn(str, m)]) = n
  BY ONLY <1>4, n \in Nat
<1> QED
  BY ONLY <1>2, <1>5, <1>6

\* ikcp_send adds one message, and nothing else changes for the receiver.
LEMMA SendKept ==
  ASSUME IInv, NEW p \in Peer, NEW q \in Peer, q = Remote(p), Kept(p), TypeOK',
         NEW count \in Counts, Send(p, count)
  PROVE  /\ Kept(p)'
         /\ Messages(p)' = Append(Messages(p), Fragments(Len(Messages(p)) + 1, count))
<1>1. TypeOK /\ InStream(p)
  BY DEF IInv, Direction
<1>2. PICK str \in Seq(Segment) : str = stream[p]
  BY <1>1 DEF TypeOK
<1>3. PICK n \in Nat : n = MsgsSent(p)
  BY <1>1, MsgsSentType DEF TypeOK
<1>4. PICK len \in Nat : len = Len(str)
  BY LenProperties
<1>5. PICK new : new = Fragments(n + 1, count)
  OBVIOUS
<1>6. PICK all : all = str \o new
  OBVIOUS
<1>7. /\ stream'[p] = all
      /\ delivered' = delivered /\ rcv_nxt' = rcv_nxt /\ rcv_queue' = rcv_queue
  BY <1>1, <1>2, <1>3, <1>5, <1>6 DEF Send, rcvVars, TypeOK
<1>8. CountsDown(str) /\ Numbers(str, n) /\ ReadWhole(p)
  BY <1>2, <1>3 DEF Kept
<1>9. /\ len = 0 => n = 0
      /\ len > 0 => str[len].msg = n /\ str[len].frg = 0
  BY <1>1, <1>2, <1>3, <1>4, <1>8, LastMessage
<1>10. /\ all \in Seq(Segment)
       /\ Len(all) = len + count /\ all[len + count].msg = n + 1
       /\ CountsDown(all) /\ Numbers(all, n + 1)
       /\ MessageIn(all, n + 1) = new
       /\ \A m \in 1..n : MessageIn(all, m) = MessageIn(str, m)
  <2>1. count \in Nat /\ count # 0
    BY BoundAssumption
  <2>2. Extends(all, str, len, n, new, count)
    BY ONLY <1>4, <1>5, <1>6, <1>8, <1>9, <2>1, str \in Seq(Segment), n \in Nat
         DEF Extends
  <2> QED
    BY ONLY <2>2, SendFrames
<1>11. MsgsSent(p)' = n + 1
  <2>1. count \in Nat \ {0}
    BY BoundAssumption
  <2>2. all # <<>>
    <3>1. Len(all) # 0
      BY ONLY <1>10, <2>1, len \in Nat
    <3> QED
      BY ONLY <3>1, EmptySeq
  <2> QED
    BY <1>7, <1>10, <2>2 DEF MsgsSent
<1>12. Messages(p) = [m \in 1..n |-> MessageIn(str, m)]
       /\ Messages(p)' = [m \in 1 .. n + 1 |-> MessageIn(all, m)]
  BY <1>2, <1>3, <1>7, <1>11 DEF Messages
<1>13. Messages(p) \in Seq(Seq(Segment)) /\ Len(Messages(p)) = n
  BY <1>1, <1>3, MessagesType
<1>14. Messages(p)' = Append(Messages(p), new)
  <2>1. PICK old \in Seq(Seq(Segment)) : old = Messages(p)
    BY <1>13
  <2>2. Len(old) = n /\ \A m \in 1..n : old[m] = MessageIn(str, m)
    BY ONLY <1>12, <1>13, <2>1
  <2>3. new \in Seq(Segment)
    <3>1. count \in Nat
      BY BoundAssumption
    <3> QED
      BY ONLY <1>5, <3>1, FragmentsFacts, n \in Nat
  <2>4. PICK more : more = Append(old, new)
    OBVIOUS
  <2>5. /\ more \in Seq(Seq(Segment)) /\ Len(more) = n + 1
        /\ \A m \in 1..n : more[m] = old[m]
        /\ more[n + 1] = new
    <3>1. /\ Append(old, new) \in Seq(Seq(Segment))
          /\ Len(Append(old, new)) = Len(old) + 1
          /\ \A i \in 1..Len(old) : Append(old, new)[i] = old[i]
          /\ Append(old, new)[Len(old) + 1] = new
      <4>1. PICK S : S = Seq(Segment)
        OBVIOUS
      <4> QED
        BY ONLY <2>3, <4>1, AppendProperties, old \in Seq(Seq(Segment))
    <3> QED
      BY ONLY <2>2, <2>4, <3>1
  <2>6. DOMAIN more = 1 .. n + 1 /\ more = [m \in DOMAIN more |-> more[m]]
    BY ONLY <2>5, LenProperties
  <2>7. \A m \in 1 .. n + 1 : more[m] = MessageIn(all, m)
    <3>1. ASSUME NEW m \in 1 .. n + 1
          PROVE  m = n + 1 \/ m \in 1..n
      BY ONLY n \in Nat, m \in 1 .. n + 1
    <3> QED
      BY ONLY <1>10, <2>2, <2>5, <3>1
  <2>8. more = [m \in 1 .. n + 1 |-> MessageIn(all, m)]
    BY ONLY <2>6, <2>7
  <2> QED
    BY ONLY <1>12, <2>1, <2>4, <2>8
<1>15. ReadWhole(p)'
  <2>1. PICK read : read = ReadOf(p)
    OBVIOUS
  <2>2. PICK messages : messages = delivered[q]
    OBVIOUS
  <2>3. ReadOf(p)' = read /\ delivered'[q] = messages
    BY <1>7, <2>1, <2>2 DEF ReadOf
  <2>4. /\ read = 0 => Len(messages) = 0
        /\ read > 0 => str[read].msg = Len(messages) /\ str[read].frg = 0
        /\ \A m \in 1..Len(messages) : messages[m] = Messages(p)[m]
    BY <1>2, <1>8, <2>1, <2>2 DEF ReadWhole
  <2>5. read \in 0..len
    <3>1. 0 <= read /\ rcv_nxt[q] <= len /\ read = rcv_nxt[q] - Len(rcv_queue[q])
      BY <1>1, <1>2, <1>4, <2>1 DEF InStream, ReadOf
    <3>2. PICK r \in Nat : r = rcv_nxt[q]
      BY <1>1 DEF TypeOK
    <3>3. PICK l \in Nat : l = Len(rcv_queue[q])
      BY <1>1, LenProperties DEF TypeOK
    <3> QED
      BY ONLY <3>1, <3>2, <3>3, len \in Nat
  <2>6. PICK got \in Nat : got = Len(messages)
    BY <1>1, <2>2, LenProperties DEF TypeOK
  <2>7. got <= n
    <3>1. CASE read = 0
      BY ONLY <2>4, <2>6, <3>1, n \in Nat
    <3>2. CASE read > 0
      <4>1. read \in 1..Len(str)
        BY ONLY <1>4, <2>5, <3>2, len \in Nat
      <4>2. str[read].msg <= n
        BY ONLY <1>8, <4>1 DEF Numbers
      <4> QED
        BY ONLY <2>4, <2>6, <3>2, <4>2
    <3> QED
      BY ONLY <2>5, <3>1, <3>2, len \in Nat
  <2>8. read > 0 => all[read] = str[read]
    <3>1. PICK i \in Nat : i = read
      BY <2>5
    <3>2. /\ Len(str \o new) = len + Len(new)
          /\ \A j \in 1..len : (str \o new)[j] = str[j]
      <4>1. new \in Seq(Segment)
        <5>1. count \in Nat
          BY BoundAssumption
        <5> QED
          BY ONLY <1>5, <5>1, FragmentsFacts, n \in Nat
      <4> QED
        BY ONLY <1>4, <4>1, ConcatElement, str \in Seq(Segment), len \in Nat
    <3> QED
      BY ONLY <1>6, <2>5, <3>1, <3>2, len \in Nat
  <2>9. \A m \in 1..got : Messages(p)'[m] = Messages(p)[m]
    BY ONLY <1>10, <1>12, <2>7, n \in Nat, got \in Nat
  <2> QED
    BY <1>7, <2>3, <2>4, <2>6, <2>8, <2>9 DEF ReadWhole
<1>16. Kept(p)'
  BY <1>7, <1>10, <1>11, <1>15 DEF Kept
<1> QED
  BY <1>3, <1>5, <1>13, <1>14, <1>16

\* ikcp_recv returns the next message, whole.
LEMMA RecvKept ==
  ASSUME IInv, NEW p \in Peer, NEW q \in Peer, q = Remote(p), Kept(p), Recv(q)
  PROVE  /\ Kept(p)' /\ Messages(p)' = Messages(p)
         /\ Len(delivered[q]) + 1 <= Len(Messages(p))
         /\ delivered' = [delivered EXCEPT
              ![q] = Append(@, Messages(p)[Len(delivered[q]) + 1])]
<1>1. TypeOK /\ InStream(p)
  BY DEF IInv, Direction
<1>2. PICK str \in Seq(Segment) : str = stream[p]
  BY <1>1 DEF TypeOK
<1>3. PICK n \in Nat : n = MsgsSent(p)
  BY <1>1, MsgsSentType DEF TypeOK
<1>4. PICK len \in Nat : len = Len(str)
  BY LenProperties
<1>5. PICK queue \in Seq(Segment) : queue = rcv_queue[q]
  BY <1>1 DEF TypeOK
<1>6. PICK all \in Nat : all = Len(queue)
  BY LenProperties
<1>7. PICK r \in Nat : r = rcv_nxt[q]
  BY <1>1 DEF TypeOK
<1>8. PICK messages \in Seq(Seq(Segment)) : messages = delivered[q]
  BY <1>1 DEF TypeOK
<1>9. PICK got \in Nat : got = Len(messages)
  BY LenProperties
<1>10. CountsDown(str) /\ Numbers(str, n) /\ ReadWhole(p)
  BY <1>2, <1>3 DEF Kept
<1>11. PICK k \in 1..all : /\ IsMerge(queue, k) /\ Refill(q, k)
                          /\ delivered' = [delivered EXCEPT ![q] = Append(@, SubSeq(queue, 1, k))]
  BY <1>5, <1>6 DEF Recv
<1>12. stream' = stream
  BY DEF Recv, sndVars
<1>13. /\ 0 <= r - all /\ r <= len
       /\ \A i \in 1..all : queue[i] = str[(r - all) + i]
  BY <1>1, <1>2, <1>4, <1>5, <1>6, <1>7 DEF InStream
<1>14. PICK read \in Nat : read = r - all
  BY ONLY <1>13, r \in Nat, all \in Nat
<1>15. ReadOf(p) = read
  BY <1>5, <1>6, <1>7, <1>14 DEF ReadOf
<1>16. /\ read = 0 => got = 0
       /\ read > 0 => str[read].msg = got /\ str[read].frg = 0
       /\ \A m \in 1..got : messages[m] = Messages(p)[m]
  BY <1>2, <1>8, <1>9, <1>10, <1>15 DEF ReadWhole
<1>17. all >= 1 /\ (queue[1].frg = 0 \/ all >= queue[1].frg + 1)
  <2>1. all >= 1
    BY ONLY <1>11, all \in Nat
  <2>2. Head(queue) = queue[1]
    BY ONLY <1>6, <2>1, queue \in Seq(Segment)
  <2>3. Head(queue).frg = 0 \/ all >= Head(queue).frg + 1
    BY <1>5, <1>6 DEF Recv, Readable
  <2> QED
    BY ONLY <2>1, <2>2, <2>3
<1>18. read + all <= len /\ Stretch(queue, str, read)
  <2>1. read + all <= len
    BY ONLY <1>13, <1>14, r \in Nat, all \in Nat, len \in Nat
  <2> QED
    BY ONLY <1>6, <1>13, <1>14, <2>1 DEF Stretch
<1>19. StartsAt(str, read + 1)
  <2>1. read = 0 \/ (read > 0 /\ (read + 1) - 1 = read)
    BY ONLY read \in Nat
  <2> QED
    BY ONLY <1>16, <2>1 DEF StartsAt
<1>20. PICK at : WholeMessage(queue, k, str, n, read, at)
  <2>1. Merges(queue, all, k, str, len, n, read)
    BY ONLY <1>4, <1>6, <1>10, <1>11, <1>17, <1>18, <1>19, str \in Seq(Segment),
            queue \in Seq(Segment), n \in Nat, read \in Nat, k \in 1..all
         DEF Merges
  <2> QED
    BY ONLY <2>1, MergeTakesMessage
<1>21. /\ at = read + k /\ at \in Nat
       /\ str[at].frg = 0 /\ str[at].msg = str[read + 1].msg /\ str[at].msg \in 1..n
       /\ SubSeq(queue, 1, k) = MessageIn(str, str[at].msg)
  BY ONLY <1>20, read \in Nat, k \in 1..all, all \in Nat DEF WholeMessage
<1>22. str[at].msg = got + 1
  <2>1. read < len
    BY ONLY <1>17, <1>18, read \in Nat, all \in Nat, len \in Nat
  <2>2. /\ read = 0 => str[read + 1].msg = 1
        /\ read > 0 /\ str[read].frg = 0 => str[read + 1].msg = str[read].msg + 1
    BY ONLY <1>4, <1>10, <2>1, NextMessage, str \in Seq(Segment), n \in Nat,
            read \in Nat, len \in Nat
  <2>3. read = 0 \/ read > 0
    BY ONLY read \in Nat
  <2> QED
    BY ONLY <1>16, <1>21, <2>2, <2>3
<1>23. got + 1 \in 1..n /\ Len(Messages(p)) = n
  BY <1>1, <1>3, <1>21, <1>22, MessagesType
<1>24. Messages(p)' = Messages(p) /\ MsgsSent(p)' = MsgsSent(p)
  BY <1>12 DEF Messages, MsgsSent
<1>25. PICK message : message = SubSeq(queue, 1, k)
  OBVIOUS
<1>26. message = Messages(p)[got + 1]
  <2>1. Messages(p)[got + 1] = MessageIn(str, got + 1)
    BY <1>2, <1>3, <1>23 DEF Messages
  <2> QED
    BY ONLY <1>21, <1>22, <1>25, <2>1
<1>27. message \in Seq(Segment)
  <2>1. \A j \in 1..k : j \in 1..Len(queue)
    BY ONLY <1>6, k \in 1..all, all \in Nat
  <2>2. k \in Int /\ \A j \in 1..k : queue[j] \in Segment
    BY ONLY <2>1, SegmentAt, queue \in Seq(Segment), k \in 1..all
  <2> QED
    BY ONLY <1>25, <2>2, SubSeqProperties
<1>28. /\ Len(Append(messages, message)) = got + 1
       /\ \A m \in 1..got : Append(messages, message)[m] = messages[m]
       /\ Append(messages, message)[got + 1] = message
  <2>1. PICK S : S = Seq(Segment)
    OBVIOUS
  <2> QED
    BY ONLY <1>9, <1>27, <2>1, AppendProperties, messages \in Seq(Seq(Segment))
<1>29. delivered'[q] = Append(messages, message)
  BY <1>1, <1>8, <1>11, <1>25 DEF TypeOK
<1>30. ReadOf(p)' = at
  <2>1. PICK m \in Nat :
          /\ r <= m /\ Covers(rcv_buf[q], r, m)
          /\ rcv_nxt' = [rcv_nxt EXCEPT ![q] = m]
          /\ rcv_queue' = [rcv_queue EXCEPT ![q] = Refilled(q, k, m)]
    <3>1. k \in 0..Len(rcv_queue[q])
      BY <1>5, <1>6
    <3>2. PICK m \in Nat :
            /\ rcv_nxt[q] <= m
            /\ Covers(rcv_buf[q], rcv_nxt[q], m)
            /\ rcv_nxt' = [rcv_nxt EXCEPT ![q] = m]
            /\ rcv_buf' = [rcv_buf EXCEPT ![q] =
                             [s \in {x \in DOMAIN @ : x >= m} |-> @[s]]]
            /\ rcv_queue' = [rcv_queue EXCEPT ![q] = Refilled(q, k, m)]
            /\ probe' \in [Peer -> BOOLEAN]
      BY ONLY <1>1, <1>11, <3>1, RefillFacts, q \in Peer
    <3> QED
      BY ONLY <1>7, <3>2
  <2>2. Len(Refilled(q, k, m)) = all - k + (m - r)
    <3>1. k \in 0..Len(rcv_queue[q])
      BY <1>5, <1>6
    <3> QED
      BY <1>1, <1>5, <1>6, <1>7, <2>1, <3>1, RefilledType
  <2>3. rcv_nxt'[q] = m /\ Len(rcv_queue'[q]) = all - k + (m - r)
    BY <1>1, <2>1, <2>2 DEF TypeOK
  <2>4. m - (all - k + (m - r)) = at
    <3>1. at = read + k /\ read = r - all
      BY ONLY <1>14, <1>21
    <3> QED
      BY ONLY <3>1, r \in Nat, all \in Nat, m \in Nat, k \in 1..all
  <2> QED
    BY <2>3, <2>4 DEF ReadOf
<1>31. ReadWhole(p)'
  <2>1. PICK more : more = Append(messages, message)
    OBVIOUS
  <2>2. \A m \in 1..Len(more) : more[m] = Messages(p)[m]
    <3>1. ASSUME NEW m \in 1 .. got + 1
          PROVE  m = got + 1 \/ m \in 1..got
      BY ONLY got \in Nat, m \in 1 .. got + 1
    <3> QED
      BY ONLY <1>16, <1>26, <1>28, <2>1, <3>1
  <2>3. delivered'[q] = more /\ stream'[p] = str /\ Len(more) = got + 1
    BY <1>2, <1>12, <1>28, <1>29, <2>1
  <2>4. at # 0
    BY ONLY <1>21, read \in Nat, k \in 1..all, all \in Nat
  <2> QED
    BY <1>21, <1>22, <1>24, <1>30, <2>2, <2>3, <2>4 DEF ReadWhole
<1>32. Kept(p)'
  <2>1. CountsDown(stream[p])' /\ Numbers(stream[p], MsgsSent(p))'
    BY <1>12, <1>24 DEF Kept, CountsDown, Numbers, StartsAt
  <2> QED
    BY <1>31, <2>1 DEF Kept
<1>33. got + 1 <= Len(Messages(p))
  BY ONLY <1>23, n \in Nat, got \in Nat
<1>34. delivered' = [delivered EXCEPT ![q] = Append(@, Messages(p)[Len(delivered[q]) + 1])]
  BY ONLY <1>8, <1>9, <1>11, <1>25, <1>26
<1> QED
  BY ONLY <1>8, <1>9, <1>24, <1>32, <1>33, <1>34

\* Segments that move into the receive queue are not read yet.
LEMMA PeekKeepsRead ==
  ASSUME TypeOK, NEW q \in Peer, Peek(q)
  PROVE  \A x \in Peer : rcv_nxt'[x] - Len(rcv_queue'[x]) = rcv_nxt[x] - Len(rcv_queue[x])
<1>1. 0 \in 0..Len(rcv_queue[q]) /\ rcv_queue[q] \in Seq(Segment)
  BY LenProperties DEF TypeOK
<1>2. PICK m \in Nat :
        /\ rcv_nxt[q] <= m /\ Covers(rcv_buf[q], rcv_nxt[q], m)
        /\ rcv_nxt' = [rcv_nxt EXCEPT ![q] = m]
        /\ rcv_queue' = [rcv_queue EXCEPT ![q] = Refilled(q, 0, m)]
  BY <1>1, RefillFacts, ZenonT(40) DEF Peek
<1>3. Len(Refilled(q, 0, m)) = Len(rcv_queue[q]) - 0 + (m - rcv_nxt[q])
  BY <1>1, <1>2, RefilledType
<1>4. PICK r \in Nat : r = rcv_nxt[q]
  BY DEF TypeOK
<1>5. PICK all \in Nat : all = Len(rcv_queue[q])
  BY <1>1, LenProperties
<1>6. m - (all - 0 + (m - r)) = r - all
  OBVIOUS
<1>7. \A x \in Peer : x # q => rcv_nxt'[x] = rcv_nxt[x] /\ rcv_queue'[x] = rcv_queue[x]
  BY <1>2 DEF TypeOK
<1>8. rcv_nxt'[q] = m /\ rcv_queue'[q] = Refilled(q, 0, m)
  BY <1>2 DEF TypeOK
<1>9. rcv_nxt'[q] - Len(rcv_queue'[q]) = rcv_nxt[q] - Len(rcv_queue[q])
  BY ONLY <1>3, <1>4, <1>5, <1>6, <1>8
<1> QED
  BY ONLY <1>7, <1>9

LEMMA InputKeepsRead ==
  ASSUME TypeOK, NEW q \in Peer, NEW d \in net, Input(q, d)
  PROVE  \A x \in Peer : rcv_nxt'[x] - Len(rcv_queue'[x]) = rcv_nxt[x] - Len(rcv_queue[x])
<1>1. rcv_queue[q] \in Seq(Segment) /\ IsBuffer(d.push) /\ InputPushes(q, d.push)
  BY DEF TypeOK, DatagramOK, IsBuffer, Input
<1>2. PICK m \in Nat : m = RcvNxtAfter(q, d.push)
  BY RcvNxtAfterFacts
<1>3. PICK f : f = Received(q, d.push)
  OBVIOUS
<1>4. PICK r \in Nat : r = rcv_nxt[q]
  BY DEF TypeOK
<1>5. PICK all \in Nat : all = Len(rcv_queue[q])
  BY <1>1, LenProperties
<1>6. r <= m /\ Covers(f, r, m) /\ IsBuffer(f)
  BY <1>1, <1>2, <1>3, <1>4, RcvNxtAfterFacts, ReceivedType
<1>7. /\ rcv_nxt' = [rcv_nxt EXCEPT ![q] = m]
      /\ rcv_queue' = [rcv_queue EXCEPT ![q] = MovedTo(@, f, r, m)]
  BY <1>1, <1>2, <1>3, <1>4 DEF InputPushes
<1>8. Len(MovedTo(rcv_queue[q], f, r, m)) = Len(rcv_queue[q]) + (m - r)
  BY ONLY <1>1, <1>6, MoveType, r \in Nat, m \in Nat
<1>9. \A x \in Peer : x # q => rcv_nxt'[x] = rcv_nxt[x] /\ rcv_queue'[x] = rcv_queue[x]
  BY <1>7 DEF TypeOK
<1>10. rcv_nxt'[q] = m /\ rcv_queue'[q] = MovedTo(rcv_queue[q], f, r, m)
  BY <1>7 DEF TypeOK
<1>11. m - (all + (m - r)) = r - all
  OBVIOUS
<1>12. rcv_nxt'[q] - Len(rcv_queue'[q]) = rcv_nxt[q] - Len(rcv_queue[q])
  BY ONLY <1>4, <1>5, <1>8, <1>10, <1>11
<1> QED
  BY ONLY <1>9, <1>12

\* A step that sends nothing and reads nothing.
LEMMA QuietKeeps ==
  ASSUME MessagesKept, stream' = stream, delivered' = delivered,
         \A x \in Peer : rcv_nxt'[x] - Len(rcv_queue'[x]) = rcv_nxt[x] - Len(rcv_queue[x])
  PROVE  MessagesKept' /\ \A p \in Peer : Messages(p)' = Messages(p)
<1>1. ASSUME NEW p \in Peer
      PROVE  Kept(p)' /\ Messages(p)' = Messages(p)
  <2>1. PICK q \in Peer : q = Remote(p)
    BY RemoteFacts
  <2>2. Kept(p)
    BY DEF MessagesKept, Kept
  <2> QED
    BY <2>1, <2>2, KeptStays
<1> QED
  BY <1>1 DEF MessagesKept, Kept

\* Each step keeps MessagesKept and is a step of the channel or none: ikcp_send
\* is the channel's Send, ikcp_recv its Read.
LEMMA MessagesStep ==
  ASSUME IInv, MessagesKept, [Next]_vars, TypeOK'
  PROVE  MessagesKept' /\ [Channel!Next]_Channel!vars
<1>0. TypeOK /\ \A x \in Peer : Kept(x)
  BY DEF IInv, MessagesKept, Kept
<1>1. ASSUME stream' = stream, delivered' = delivered,
             \A x \in Peer : rcv_nxt'[x] - Len(rcv_queue'[x])
                               = rcv_nxt[x] - Len(rcv_queue[x])
      PROVE  MessagesKept' /\ [Channel!Next]_Channel!vars
  BY <1>1, QuietKeeps DEF Channel!vars
<1>2. ASSUME NEW p \in Peer, NEW count \in Counts, Send(p, count)
      PROVE  MessagesKept' /\ [Channel!Next]_Channel!vars
  <2>1. PICK q \in Peer : q = Remote(p) /\ p # q /\ p = Remote(q) /\ \A x \in Peer : x = p \/ x = q
    BY RemoteFacts
  <2>2. /\ Kept(p)'
        /\ Messages(p)' = Append(Messages(p), Fragments(Len(Messages(p)) + 1, count))
    BY <1>0, <1>2, <2>1, SendKept
  <2>3. Kept(q)' /\ Messages(q)' = Messages(q)
    <3>1. stream'[q] = stream[q]
      BY <1>0, <1>2, <2>1 DEF Send, TypeOK
    <3>2. delivered' = delivered /\ rcv_nxt' = rcv_nxt /\ rcv_queue' = rcv_queue
      BY <1>2 DEF Send, rcvVars
    <3> QED
      BY <1>0, <2>1, <3>1, <3>2, KeptStays
  <2>4. Channel!Send(p)
    BY <1>2, <2>1, <2>2, <2>3 DEF Channel!Send, Send, rcvVars
  <2> QED
    BY <2>1, <2>2, <2>3, <2>4 DEF Channel!Next, Channel!Peer, Peer, MessagesKept, Kept
<1>3. ASSUME NEW q \in Peer, Recv(q)
      PROVE  MessagesKept' /\ [Channel!Next]_Channel!vars
  <2>1. PICK p \in Peer : p = Remote(q) /\ p # q /\ q = Remote(p) /\ \A x \in Peer : x = p \/ x = q
    BY RemoteFacts
  <2>2. /\ Kept(p)' /\ Messages(p)' = Messages(p)
        /\ Len(delivered[q]) + 1 <= Len(Messages(p))
        /\ delivered' = [delivered EXCEPT
             ![q] = Append(@, Messages(p)[Len(delivered[q]) + 1])]
    BY <1>0, <1>3, <2>1, RecvKept
  <2>3. Kept(q)' /\ Messages(q)' = Messages(q)
    <3>1. stream' = stream /\ delivered'[p] = delivered[p]
      BY <1>0, <1>3, <2>1, <2>2 DEF Recv, sndVars, TypeOK
    <3>2. rcv_nxt'[p] = rcv_nxt[p] /\ rcv_queue'[p] = rcv_queue[p]
      BY <1>0, <1>3, <2>1 DEF Recv, Refill, TypeOK
    <3> QED
      BY <1>0, <2>1, <3>1, <3>2, KeptStays
  <2>4. Channel!Read(q)
    BY <2>1, <2>2, <2>3 DEF Channel!Read, Channel!Remote, Remote
  <2> QED
    BY <2>1, <2>2, <2>3, <2>4 DEF Channel!Next, Channel!Peer, Peer, MessagesKept, Kept
<1>4. ASSUME NEW q \in Peer, Peek(q)
      PROVE  MessagesKept' /\ [Channel!Next]_Channel!vars
  BY <1>0, <1>1, <1>4, PeekKeepsRead DEF Peek, sndVars
<1>5. ASSUME NEW q \in Peer, NEW d \in net, Input(q, d)
      PROVE  MessagesKept' /\ [Channel!Next]_Channel!vars
  BY <1>0, <1>1, <1>5, InputKeepsRead DEF Input
<1>6. ASSUME UNCHANGED <<stream, delivered, rcv_nxt, rcv_queue>>
      PROVE  MessagesKept' /\ [Channel!Next]_Channel!vars
  BY <1>1, <1>6
<1>7. CASE Next
  <2>1. ASSUME NEW p \in Peer, NEW sndwnd, NEW rcvwnd, WndSize(p, sndwnd, rcvwnd)
        PROVE  UNCHANGED <<stream, delivered, rcv_nxt, rcv_queue>>
    BY <2>1 DEF WndSize, sndVars, rcvVars
  <2>2. ASSUME NEW p \in Peer, AnyFlush(p)
        PROVE  UNCHANGED <<stream, delivered, rcv_nxt, rcv_queue>>
    BY <2>2 DEF AnyFlush, Flush
  <2>3. ASSUME NEW p \in Peer, Deliver(p) \/ DeliverCopy(p)
        PROVE  \E d \in net : Input(p, d)
    BY <2>3 DEF Deliver, DeliverCopy
  <2>4. ASSUME Lose
        PROVE  UNCHANGED <<stream, delivered, rcv_nxt, rcv_queue>>
    BY <2>4 DEF Lose, sndVars, rcvVars
  <2> QED
    BY <1>2, <1>3, <1>4, <1>5, <1>6, <1>7, <2>1, <2>2, <2>3, <2>4 DEF Next
<1>8. CASE UNCHANGED vars
  BY <1>6, <1>8 DEF vars, sndVars, rcvVars
<1> QED
  BY <1>7, <1>8

LEMMA ChannelInit == Init => Channel!Init
<1> SUFFICES ASSUME Init PROVE Channel!Init
  OBVIOUS
<1>1. ASSUME NEW p \in Peer PROVE Messages(p) = <<>>
  <2>1. MsgsSent(p) = 0
    BY DEF Init, MsgsSent
  <2>2. Messages(p) = [m \in 1..0 |-> MessageIn(stream[p], m)]
    BY <2>1 DEF Messages
  <2>3. \A m \in 1..0 : MessageIn(stream[p], m) \in {}
    OBVIOUS
  <2>4. /\ [m \in 1..0 |-> MessageIn(stream[p], m)] \in Seq({})
        /\ Len([m \in 1..0 |-> MessageIn(stream[p], m)]) = 0
    BY <2>3
  <2> QED
    BY <2>2, <2>4, EmptySeq
<1> QED
  BY <1>1 DEF Init, Channel!Init, Channel!Peer, Peer

\* What ikcp_recv has returned and left in the queue is the stream cut where
\* ikcp_send cut it: MessagesKept is an invariant.
THEOREM MessagesStayWhole == Spec => []MessagesKept
<1>1. IInv /\ MessagesKept /\ [Next]_vars /\ TypeOK' => MessagesKept'
  BY MessagesStep
<1> QED
  BY <1>1, KeptInit, TypeCorrect, Invariant, PTL DEF Spec

\* The conversation implements the channel of messages: whatever the network
\* does, each message sent is read at most once, whole and in order
\* (ikcp_send, ikcp_recv and everything between them).
THEOREM Implements == Spec => ImplementsChannel
<1>1. IInv /\ MessagesKept /\ [Next]_vars /\ TypeOK' => [Channel!Next]_Channel!vars
  BY MessagesStep
<1> QED
  BY <1>1, ChannelInit, MessagesStayWhole, TypeCorrect, Invariant, PTL
  DEF Spec, ImplementsChannel, Channel!Spec
=============================================================================
