---------------------------- MODULE KcpCodeProofs ---------------------------
(***************************************************************************)
(* That KcpArq stands for the code.  About KcpLoops: whatever the windows, *)
(* the buffers and the datagram, each step of KcpArq leaves what the loops *)
(* of the code leave.  About KcpWrap: for every width of the numbers,      *)
(* every window below a quarter of their range and every number of         *)
(* segments exchanged before, the comparisons of _itimediff come out as    *)
(* those of numbers that never wrap.                                       *)
(***************************************************************************)
EXTENDS KcpLoops, KcpWrap, KcpArqProofs, KcpSerialProofs, FiniteSetTheorems

-----------------------------------------------------------------------------
(* Loops as functions of their turns *)

\* Two functions that start alike and continue alike are the same: what a
\* loop makes is known from what one turn makes.
Alike(f, g, n) == \A i \in 0..n : f[i] = g[i]

LEMMA TurnsAlike ==
  ASSUME NEW n \in Nat, NEW f, NEW g, f[0] = g[0],
         \A i \in 1..n : f[i - 1] = g[i - 1] => f[i] = g[i]
  PROVE  Alike(f, g, n)
<1> DEFINE T == {i \in 0..n : f[i] # g[i]}
<1>1. ASSUME T # {} PROVE FALSE
  <2>0. T \in SUBSET Nat
    OBVIOUS
  <2>1. PICK m \in T : \A x \in T : m <= x
    <3> HIDE DEF T
    <3> QED
      BY <1>1, <2>0, NatMin
  <2>2. m \in 1..n /\ m - 1 \in 0..n /\ ~(m <= m - 1)
    BY <2>1
  <2>3. f[m - 1] = g[m - 1]
    BY <2>1, <2>2, Zenon
  <2> QED
    BY <2>1, <2>2, <2>3, Zenon
<1> QED
  BY <1>1, Zenon DEF Alike

-----------------------------------------------------------------------------
(* The move loop *)

\* The control block's receive side, and the move loop's once rcv_nxt is n.
RcvState(nxt, buf, queue, acks) ==
  [nxt |-> nxt, buf |-> buf, queue |-> queue, acks |-> acks]
From(buf, n) == [s \in {x \in DOMAIN buf : x >= n} |-> buf[s]]
MoveState(queue, buf, r, acks, n) ==
  RcvState(n, From(buf, n), MovedTo(queue, buf, r, n), acks)

MoveMore(nxt, buf, queue, wnd) ==
  DOMAIN buf # {} /\ Min(DOMAIN buf) = nxt /\ Len(queue) < wnd

LEMMA MoveTurnMore ==
  ASSUME NEW nxt, NEW buf, NEW queue, NEW acks, NEW wnd
  PROVE  /\ MoveMore(nxt, buf, queue, wnd) =>
              MoveTurn(RcvState(nxt, buf, queue, acks), wnd)
                = RcvState(nxt + 1, Without(buf, nxt), Append(queue, buf[nxt]), acks)
         /\ ~MoveMore(nxt, buf, queue, wnd) =>
              MoveTurn(RcvState(nxt, buf, queue, acks), wnd)
                = RcvState(nxt, buf, queue, acks)
BY DEF MoveMore, MoveTurn, RcvState

LEMMA MovedOneMore ==
  ASSUME NEW queue \in Seq(Segment), NEW f, IsBuffer(f),
         NEW r \in Nat, NEW n \in Nat, r <= n, Covers(f, r, n + 1)
  PROVE  Append(MovedTo(queue, f, r, n), f[n]) = MovedTo(queue, f, r, n + 1)
<1> DEFINE t == [i \in 1 .. n - r |-> f[r + i - 1]]
           u == [i \in 1 .. n + 1 - r |-> f[r + i - 1]]
<1>1. \A i \in r .. n : f[i] \in Segment
  BY DEF Covers, IsBuffer
<1>2. t \in Seq(Segment) /\ Len(t) = n - r /\ f[n] \in Segment
  BY <1>1
<1>3. u = Append(t, f[n])
  <2>1. u \in Seq(Segment) /\ Len(u) = n + 1 - r
    BY <1>1
  <2>2. Append(t, f[n]) \in Seq(Segment) /\ Len(Append(t, f[n])) = n + 1 - r
    BY <1>2, AppendProperties
  <2>3. \A i \in 1 .. n + 1 - r : u[i] = Append(t, f[n])[i]
    BY <1>2, AppendProperties
  <2> HIDE DEF u, t
  <2> QED
    BY <2>1, <2>2, <2>3, SeqEqual
<1> HIDE DEF u, t
<1>4. Append(queue \o t, f[n]) = queue \o Append(t, f[n])
  <2>1. PICK e \in Segment : e = f[n]
    BY <1>2
  <2>2. <<e>> \in Seq(Segment) /\ queue \o t \in Seq(Segment)
    BY <1>2, <2>1, ConcatProperties
  <2>3. Append(queue \o t, e) = (queue \o t) \o <<e>>
    BY <2>1, <2>2, AppendIsConcat
  <2>4. Append(t, e) = t \o <<e>>
    BY <1>2, <2>1, AppendIsConcat
  <2>5. (queue \o t) \o <<e>> = queue \o (t \o <<e>>)
    BY <1>2, <2>2, ConcatAssociative
  <2> QED
    BY <2>1, <2>3, <2>4, <2>5, Zenon
<1>5. MovedTo(queue, f, r, n) = queue \o t
  BY Zenon DEF MovedTo, t
<1>6. MovedTo(queue, f, r, n + 1) = queue \o u
  BY DEF MovedTo, u
<1> QED
  BY <1>3, <1>4, <1>5, <1>6, Zenon

\* A buffer from which everything below r has been taken.
Ahead(buf, r) == buf = From(buf, r)

LEMMA MovedNone ==
  ASSUME NEW queue \in Seq(Segment), NEW buf, IsBuffer(buf), NEW r \in Nat, Ahead(buf, r),
         NEW acks
  PROVE  MoveState(queue, buf, r, acks, r) = RcvState(r, buf, queue, acks)
<1>1. MovedTo(queue, buf, r, r) = queue
  <2>1. [i \in 1 .. r - r |-> buf[r + i - 1]] = <<>>
    OBVIOUS
  <2>2. queue \o <<>> = queue
    BY ConcatEmptySeq
  <2> QED
    BY <2>1, <2>2, Zenon DEF MovedTo
<1>2. From(buf, r) = buf
  BY Zenon DEF Ahead
<1> QED
  BY <1>1, <1>2, Zenon DEF MoveState

\* Where the loop ends, and one turn of it.
MoveEnd(queue, buf, r, wnd) == Frontier(DOMAIN buf, r, imax(0, wnd - Len(queue)))

LEMMA MoveTurns ==
  ASSUME NEW queue \in Seq(Segment), NEW buf, IsBuffer(buf), NEW r \in Nat,
         NEW acks, NEW wnd \in Nat,
         NEW last, last = MoveEnd(queue, buf, r, wnd), NEW n \in r .. last
  PROVE  MoveTurn(MoveState(queue, buf, r, acks, n), wnd)
           = MoveState(queue, buf, r, acks, IF n < last THEN n + 1 ELSE n)
<1>00. PICK len \in Nat : len = Len(queue)
  BY LenProperties
<1>0. PICK room : room = imax(0, wnd - len) /\ last = Frontier(DOMAIN buf, r, room)
  BY <1>00, Zenon DEF MoveEnd
<1> DEFINE b == From(buf, n)
           q == MovedTo(queue, buf, r, n)
<1>1. room \in Nat
  BY <1>0 DEF imax
<1>2. /\ last \in r .. r + room
      /\ \A i \in r .. last - 1 : i \in DOMAIN buf
      /\ last = r + room \/ last \notin DOMAIN buf
  BY <1>0, <1>1, FrontierFacts
<1>3. r \in Nat /\ n \in Nat /\ r <= n /\ Covers(buf, r, n)
  BY <1>2 DEF Covers
<1>4. q \in Seq(Segment) /\ Len(q) = len + (n - r)
  BY <1>00, <1>3, MoveType
<1>5. DOMAIN b = {x \in DOMAIN buf : x >= n} /\ \A x \in DOMAIN b : b[x] = buf[x]
  BY DEF From
<1>6. DOMAIN b \in SUBSET Nat
  BY <1>5 DEF IsBuffer
<1> HIDE DEF b, q
<1>7. CASE n < last
  <2>1. n \in DOMAIN b /\ Covers(buf, r, n + 1)
    BY <1>2, <1>3, <1>5, <1>7 DEF Covers
  <2>2. Min(DOMAIN b) = n
    <3>1. Min(DOMAIN b) \in DOMAIN b /\ \A x \in DOMAIN b : Min(DOMAIN b) <= x
      BY <1>6, <2>1, NatMin
    <3>2. PICK m \in Nat : m = Min(DOMAIN b)
      BY <1>6, <3>1, Zenon
    <3>3. m >= n /\ m <= n
      BY <1>5, <2>1, <3>1, <3>2, Zenon
    <3> QED
      BY <1>3, <3>2, <3>3
  <2>3. Len(q) < wnd
    BY <1>0, <1>2, <1>3, <1>4, <1>7 DEF imax
  <2>4. MoveMore(n, b, q, wnd)
    BY <2>1, <2>2, <2>3, Zenon DEF MoveMore
  <2>5. Without(b, n) = From(buf, n + 1)
    <3>1. DOMAIN b \ {n} = {x \in DOMAIN buf : x >= n + 1}
      BY <1>3, <1>5 DEF IsBuffer
    <3> QED
      BY <1>5, <3>1 DEF Without, From
  <2>6. Append(q, b[n]) = MovedTo(queue, buf, r, n + 1)
    <3>1. b[n] = buf[n]
      BY <1>5, <2>1
    <3> QED
      BY <1>3, <2>1, <3>1, MovedOneMore DEF q
  <2>7. MoveTurn(RcvState(n, b, q, acks), wnd) = RcvState(n + 1, Without(b, n), Append(q, b[n]), acks)
    BY <2>4, MoveTurnMore
  <2> QED
    BY <1>7, <2>5, <2>6, <2>7, Zenon DEF MoveState, b, q
<1>8. CASE ~(n < last)
  <2>1. n = last
    BY <1>2, <1>8
  <2>2. ~MoveMore(n, b, q, wnd)
    <3>1. CASE last = r + room
      <4>1. ~(Len(q) < wnd)
        BY <1>0, <1>3, <1>4, <2>1, <3>1 DEF imax
      <4> QED
        BY <4>1, Zenon DEF MoveMore
    <3>2. CASE last \notin DOMAIN buf
      <4>1. n \notin DOMAIN b
        BY <1>5, <2>1, <3>2
      <4>2. DOMAIN b # {} => Min(DOMAIN b) \in DOMAIN b
        BY <1>6, NatMin
      <4> QED
        BY <4>1, <4>2, Zenon DEF MoveMore
    <3> QED
      BY <1>2, <3>1, <3>2
  <2>3. MoveTurn(RcvState(n, b, q, acks), wnd) = RcvState(n, b, q, acks)
    BY <2>2, MoveTurnMore
  <2> QED
    BY <1>8, <2>3, Zenon DEF MoveState, b, q
<1> QED
  BY <1>7, <1>8

\* What the loop makes.
MoveMakes(queue, buf, r, acks, wnd, n) ==
  MoveLoop(RcvState(r, buf, queue, acks), wnd) = MoveState(queue, buf, r, acks, n)
LEMMA MoveLoopMakes ==
  ASSUME NEW queue \in Seq(Segment), NEW buf, IsBuffer(buf), NEW r \in Nat, Ahead(buf, r),
         NEW acks, NEW wnd \in Nat
  PROVE  MoveMakes(queue, buf, r, acks, wnd, MoveEnd(queue, buf, r, wnd))
<1>00. PICK len \in Nat : len = Len(queue)
  BY LenProperties
<1>0. PICK room, last :
        /\ room = imax(0, wnd - len)
        /\ last = Frontier(DOMAIN buf, r, room) /\ last = MoveEnd(queue, buf, r, wnd)
  BY <1>00, Zenon DEF MoveEnd
<1> DEFINE start == RcvState(r, buf, queue, acks)
           At(i) == IF r + i <= last THEN r + i ELSE last
           g == [i \in 0..wnd |-> MoveState(queue, buf, r, acks, At(i))]
           Follows(f) == f = [i \in 0..wnd |-> IF i = 0 THEN start ELSE MoveTurn(f[i - 1], wnd)]
           f == CHOOSE x : Follows(x)
<1>1. room \in Nat /\ room <= wnd
  BY <1>0 DEF imax
<1>2. last \in r .. r + room
  BY <1>0, <1>1, FrontierFacts
<1>3. At(0) = r /\ At(wnd) = last /\ 0 \in 0..wnd /\ wnd \in 0..wnd
  BY <1>1, <1>2
<1>4. ASSUME NEW i \in 1..wnd
      PROVE  /\ At(i - 1) \in r .. last /\ i - 1 \in 0..wnd /\ i \in 0..wnd /\ i # 0
             /\ At(i) = IF At(i - 1) < last THEN At(i - 1) + 1 ELSE At(i - 1)
  BY <1>2
<1> HIDE DEF At
<1>5. g[0] = start
  <2>1. g[0] = MoveState(queue, buf, r, acks, r)
    BY <1>3, Zenon
  <2> QED
    BY <2>1, MovedNone
<1>6. ASSUME NEW i \in 1..wnd PROVE g[i] = MoveTurn(g[i - 1], wnd)
  <2>1. PICK n \in r .. last : n = At(i - 1)
    BY <1>4, Zenon
  <2>2. MoveTurn(MoveState(queue, buf, r, acks, n), wnd)
          = MoveState(queue, buf, r, acks, IF n < last THEN n + 1 ELSE n)
    BY <1>0, MoveTurns
  <2>3. g[i - 1] = MoveState(queue, buf, r, acks, n) /\ g[i] = MoveState(queue, buf, r, acks, At(i))
    BY <1>4, <2>1, Zenon
  <2>4. At(i) = IF n < last THEN n + 1 ELSE n
    BY <1>4, <2>1, Zenon
  <2> QED
    BY <2>2, <2>3, <2>4, Zenon
<1>7. g = [i \in 0..wnd |-> g[i]]
  BY Zenon
<1> HIDE DEF start
<1>8. g[wnd] = MoveState(queue, buf, r, acks, last)
  BY <1>3, Zenon
<1> HIDE DEF g
<1>9. \A i \in 0..wnd : i = 0 \/ i \in 1..wnd
  OBVIOUS
<1>10. Follows(g)
  <2>1. \A i \in 0..wnd : g[i] = IF i = 0 THEN start ELSE MoveTurn(g[i - 1], wnd)
    BY <1>5, <1>6, <1>9, Zenon
  <2> QED
    BY <1>7, <2>1, Zenon
<1>11. Follows(f)
  BY <1>10, Zenon
<1>12. MoveLoop(RcvState(r, buf, queue, acks), wnd) = f[wnd]
  BY Zenon DEF MoveLoop, start
<1> HIDE DEF f
<1>13. Alike(f, g, wnd)
  <2>1. f[0] = g[0]
    BY <1>3, <1>5, <1>11, Zenon
  <2>2. ASSUME NEW i \in 1..wnd, f[i - 1] = g[i - 1] PROVE f[i] = g[i]
    <3>1. f[i] = MoveTurn(f[i - 1], wnd)
      BY <1>4, <1>11, Zenon
    <3> QED
      BY <1>6, <2>2, <3>1, Zenon
  <2> QED
    BY <2>1, <2>2, TurnsAlike, Zenon
<1> QED
  BY <1>0, <1>3, <1>8, <1>12, <1>13, Zenon DEF Alike, MoveMakes

-----------------------------------------------------------------------------
(* The merge loop *)

\* The head and the tail of a queue from its k-th segment on.
FirstOf(queue, k) ==
  /\ Head(SubSeq(queue, k, Len(queue))) = queue[k]
  /\ Tail(SubSeq(queue, k, Len(queue))) = SubSeq(queue, k + 1, Len(queue))

LEMMA HeadOfRest ==
  ASSUME NEW queue \in Seq(Segment), NEW k \in 1..Len(queue)
  PROVE  FirstOf(queue, k)
<1>1. Len(queue) \in k .. Len(queue)
  BY LenProperties
<1> QED
  BY <1>1, HeadTailOfSubSeq DEF FirstOf

MergeState(queue, i) ==
  [queue |-> SubSeq(queue, i + 1, Len(queue)), more |-> i = 0 \/ queue[i].frg # 0]

LEMMA MergeTurns ==
  ASSUME NEW queue \in Seq(Segment), NEW len \in Nat, len = Len(queue),
         NEW k \in 1..len, IsMerge(queue, k), NEW i \in 0..k
  PROVE  MergeTurn(MergeState(queue, i)) = MergeState(queue, IF i < k THEN i + 1 ELSE i)
<1>1. \A j \in 1..k-1 : queue[j].frg # 0
  BY Zenon DEF IsMerge
<1>2. queue[k].frg = 0 \/ k = len
  BY Zenon DEF IsMerge
<1>3. PICK rest \in Seq(Segment) : rest = SubSeq(queue, i + 1, len)
  <2>1. i \in 0..Len(queue)
    OBVIOUS
  <2> QED
    BY <2>1, DropType
<1>4. Len(rest) = len - i
  BY <1>3, DropType
<1>5. CASE i < k
  <2>1. i = 0 \/ queue[i].frg # 0
    BY <1>1, <1>5
  <2>2. rest # <<>>
    BY <1>4, <1>5
  <2>3. PICK j \in 1..len : j = i + 1 /\ j + 1 = i + 2
    BY <1>5
  <2>4. Head(rest) = queue[i + 1] /\ Tail(rest) = SubSeq(queue, i + 2, len)
    <3>1. FirstOf(queue, j)
      BY HeadOfRest, Zenon
    <3> QED
      BY <1>3, <2>3, <3>1, Zenon DEF FirstOf
  <2>5. MergeTurn(MergeState(queue, i)) = [queue |-> Tail(rest), more |-> Head(rest).frg # 0]
    BY <1>3, <2>1, <2>2 DEF MergeTurn, MergeState
  <2>6. MergeState(queue, i + 1) = [queue |-> SubSeq(queue, i + 2, len), more |-> queue[i + 1].frg # 0]
    <3>1. i + 1 # 0 /\ (i + 1) + 1 = i + 2
      OBVIOUS
    <3> QED
      BY <3>1, Zenon DEF MergeState
  <2> QED
    BY <1>5, <2>4, <2>5, <2>6
<1>6. CASE ~(i < k)
  <2>1. i = k
    BY <1>6
  <2>2. rest = <<>> \/ ~(i = 0 \/ queue[i].frg # 0)
    BY <1>2, <1>4, <2>1
  <2>3. MergeTurn(MergeState(queue, i)) = MergeState(queue, i)
    BY <1>3, <2>2 DEF MergeTurn, MergeState
  <2> QED
    BY <1>6, <2>3
<1> QED
  BY <1>5, <1>6

LEMMA MergeLoopMakes ==
  ASSUME NEW queue \in Seq(Segment), NEW len \in Nat, len = Len(queue),
         NEW k \in 1..len, IsMerge(queue, k)
  PROVE  MergeLoop(queue) = SubSeq(queue, k + 1, Len(queue))
<1> DEFINE start == [queue |-> queue, more |-> TRUE]
           At(i) == IF i <= k THEN i ELSE k
           g == [i \in 0..Len(queue) |-> MergeState(queue, At(i))]
           Follows(f) == f = [i \in 0..Len(queue) |-> IF i = 0 THEN start ELSE MergeTurn(f[i - 1])]
           f == CHOOSE x : Follows(x)
<1>1. At(0) = 0 /\ At(len) = k /\ 0 \in 0..len /\ len \in 0..len
  OBVIOUS
<1>2. ASSUME NEW i \in 1..len
      PROVE  /\ At(i - 1) \in 0..k /\ i - 1 \in 0..len /\ i \in 0..len /\ i # 0
             /\ At(i) = IF At(i - 1) < k THEN At(i - 1) + 1 ELSE At(i - 1)
  OBVIOUS
<1> HIDE DEF At
<1>3. g[0] = start
  <2>1. g[0] = MergeState(queue, 0)
    BY <1>1, Zenon
  <2>2. SubSeq(queue, 0 + 1, Len(queue)) = queue
    BY SubSeqFull
  <2> QED
    BY <2>1, <2>2, Zenon DEF MergeState
<1>4. ASSUME NEW i \in 1..len PROVE g[i] = MergeTurn(g[i - 1])
  <2>1. PICK n \in 0..k : n = At(i - 1)
    BY <1>2, Zenon
  <2>2. MergeTurn(MergeState(queue, n)) = MergeState(queue, IF n < k THEN n + 1 ELSE n)
    BY MergeTurns
  <2>3. g[i - 1] = MergeState(queue, n) /\ g[i] = MergeState(queue, At(i))
    BY <1>2, <2>1, Zenon
  <2>4. At(i) = IF n < k THEN n + 1 ELSE n
    BY <1>2, <2>1, Zenon
  <2> QED
    BY <2>2, <2>3, <2>4, Zenon
<1>5. g = [i \in 0..Len(queue) |-> g[i]]
  BY Zenon
<1> HIDE DEF start
<1>6. g[len].queue = SubSeq(queue, k + 1, Len(queue))
  BY <1>1, Zenon DEF MergeState
<1> HIDE DEF g
<1>7. \A i \in 0..len : i = 0 \/ i \in 1..len
  OBVIOUS
<1>8. Follows(g)
  <2>1. \A i \in 0..len : g[i] = IF i = 0 THEN start ELSE MergeTurn(g[i - 1])
    BY <1>3, <1>4, <1>7, Zenon
  <2> QED
    BY <1>5, <2>1, Zenon
<1>9. Follows(f)
  BY <1>8, Zenon
<1>10. MergeLoop(queue) = f[len].queue
  BY Zenon DEF MergeLoop, start
<1> HIDE DEF f
<1>11. Alike(f, g, len)
  <2>1. f[0] = g[0]
    BY <1>1, <1>3, <1>9, Zenon
  <2>2. ASSUME NEW i \in 1..len, f[i - 1] = g[i - 1] PROVE f[i] = g[i]
    <3>1. f[i] = MergeTurn(f[i - 1])
      BY <1>2, <1>9, Zenon
    <3> QED
      BY <1>4, <2>2, <3>1, Zenon
  <2> QED
    BY <2>1, <2>2, TurnsAlike, Zenon
<1> QED
  BY <1>1, <1>6, <1>10, <1>11, Zenon DEF Alike

\* The tail of ikcp_recv leaves what the move loop leaves.
LEMMA RefillIsTheLoop ==
  ASSUME TypeOK, NEW p \in Peer, Ahead(rcv_buf[p], rcv_nxt[p]),
         NEW k \in 0..Len(rcv_queue[p]), Refill(p, k), acklist' = acklist,
         NEW queue, queue = SubSeq(rcv_queue[p], k + 1, Len(rcv_queue[p]))
  PROVE  Rcv(p)' = MoveLoop(RcvState(rcv_nxt[p], rcv_buf[p], queue, acklist[p]), rcv_wnd[p])
<1>0. PICK buf : buf = rcv_buf[p]
  OBVIOUS
<1>1. PICK len \in Nat, r \in Nat, wnd \in Nat :
        len = Len(rcv_queue[p]) - k /\ r = rcv_nxt[p] /\ wnd = rcv_wnd[p]
  <2>1. Len(rcv_queue[p]) - k \in Nat
    BY DEF TypeOK
  <2>2. rcv_nxt[p] \in Nat /\ rcv_wnd[p] \in Nat
    BY DEF TypeOK
  <2> QED
    BY <2>1, <2>2, Zenon
<1>2. queue \in Seq(Segment) /\ Len(queue) = len
  <2>1. rcv_queue[p] \in Seq(Segment)
    BY DEF TypeOK
  <2> QED
    BY <1>1, <2>1, DropType
<1>3. PICK last, acks : last = MoveEnd(queue, buf, r, wnd) /\ acks = acklist[p]
  OBVIOUS
<1>4. MoveLoop(RcvState(r, buf, queue, acks), wnd) = MoveState(queue, buf, r, acks, last)
  <2>1. Ahead(buf, r)
    BY <1>0, <1>1, Zenon
  <2>2. IsBuffer(buf)
    BY <1>0 DEF TypeOK
  <2>3. queue \in Seq(Segment)
    BY <1>2
  <2>4. MoveMakes(queue, buf, r, acks, wnd, MoveEnd(queue, buf, r, wnd))
    BY <2>1, <2>2, <2>3, MoveLoopMakes, Zenon
  <2> QED
    BY <1>3, <2>4, Zenon DEF MoveMakes
<1>5. /\ rcv_nxt' = [rcv_nxt EXCEPT ![p] = last]
      /\ rcv_buf' = [rcv_buf EXCEPT ![p] = [s \in {x \in DOMAIN @ : x >= last} |-> @[s]]]
      /\ rcv_queue' = [rcv_queue EXCEPT ![p] = Refilled(p, k, last)]
  <2>1. Frontier(DOMAIN rcv_buf[p], rcv_nxt[p], imax(0, rcv_wnd[p] - (Len(rcv_queue[p]) - k))) = last
    BY <1>0, <1>1, <1>2, <1>3, Zenon DEF MoveEnd
  <2> QED
    BY <2>1, Zenon DEF Refill
<1>6. /\ rcv_nxt'[p] = last /\ rcv_buf'[p] = From(buf, last)
      /\ rcv_queue'[p] = MovedTo(queue, buf, r, last)
  BY <1>0, <1>1, <1>5 DEF TypeOK, From, Refilled
<1>7. Rcv(p)' = RcvState(rcv_nxt'[p], rcv_buf'[p], rcv_queue'[p], acklist'[p])
  BY Zenon DEF Rcv, RcvState
<1> QED
  BY <1>0, <1>1, <1>3, <1>4, <1>6, <1>7, Zenon DEF MoveState

LEMMA RecvIsTheLoop ==
  ASSUME TypeOK, NEW p \in Peer, Ahead(rcv_buf[p], rcv_nxt[p]), Recv(p)
  PROVE  Rcv(p)' = RecvLoop(p)
<1>1. acklist' = acklist
  BY Zenon DEF Recv
<1>2. rcv_queue[p] \in Seq(Segment)
  BY DEF TypeOK
<1>3. PICK len \in Nat : len = Len(rcv_queue[p])
  BY <1>2, LenProperties
<1>4. PICK k \in 1..len : IsMerge(rcv_queue[p], k) /\ Refill(p, k)
  BY <1>3, Zenon DEF Recv
<1>5. PICK queue : queue = SubSeq(rcv_queue[p], k + 1, Len(rcv_queue[p]))
  OBVIOUS
<1>6. k \in 0..Len(rcv_queue[p])
  BY <1>3
<1>7. Rcv(p)' = MoveLoop(RcvState(rcv_nxt[p], rcv_buf[p], queue, acklist[p]), rcv_wnd[p])
  BY <1>1, <1>4, <1>5, <1>6, RefillIsTheLoop
<1>8. MergeLoop(rcv_queue[p]) = queue
  BY <1>2, <1>3, <1>4, <1>5, MergeLoopMakes
<1>9. [Rcv(p) EXCEPT !.queue = MergeLoop(@)]
        = RcvState(rcv_nxt[p], rcv_buf[p], MergeLoop(rcv_queue[p]), acklist[p])
  BY DEF Rcv, RcvState
<1> QED
  BY <1>7, <1>8, <1>9, Zenon DEF RecvLoop

LEMMA PeekIsTheLoop ==
  ASSUME TypeOK, NEW p \in Peer, Ahead(rcv_buf[p], rcv_nxt[p]), Peek(p)
  PROVE  Rcv(p)' = MoveLoop(Rcv(p), rcv_wnd[p])
<1>1. acklist' = acklist /\ Refill(p, 0)
  BY Zenon DEF Peek
<1>2. rcv_queue[p] \in Seq(Segment)
  BY DEF TypeOK
<1>3. rcv_queue[p] = SubSeq(rcv_queue[p], 0 + 1, Len(rcv_queue[p])) /\ 0 \in 0..Len(rcv_queue[p])
  BY <1>2, SubSeqFull, LenProperties
<1>4. Rcv(p)' = MoveLoop(RcvState(rcv_nxt[p], rcv_buf[p], rcv_queue[p], acklist[p]), rcv_wnd[p])
  BY <1>1, <1>3, RefillIsTheLoop
<1> QED
  BY <1>4, Zenon DEF Rcv, RcvState

-----------------------------------------------------------------------------
(* The loop of ikcp_input over the PUSHes of a datagram *)

LEMMA FrontierIs ==
  ASSUME NEW have, NEW r \in Nat, NEW room \in Nat, NEW n \in r .. r + room,
         \A i \in r .. n - 1 : i \in have, n = r + room \/ n \notin have
  PROVE  n = Frontier(have, r, room)
<1>1. PICK m \in r .. r + room :
        /\ m = Frontier(have, r, room)
        /\ \A i \in r .. m - 1 : i \in have
        /\ m = r + room \/ m \notin have
  BY FrontierFacts, Zenon
<1>2. ~(m < n)
  <2>1. ASSUME m < n PROVE m \in r .. n - 1 /\ m # r + room
    BY <2>1
  <2> QED
    BY <1>1, <2>1, Zenon
<1>3. ~(n < m)
  <2>1. ASSUME n < m PROVE n \in r .. m - 1 /\ n # r + room
    BY <2>1
  <2> QED
    BY <1>1, <2>1, Zenon
<1> QED
  BY <1>1, <1>2, <1>3

LEMMA SegmentSeq ==
  ASSUME NEW n \in Nat, NEW t, t = [i \in 1..n |-> t[i]], \A i \in 1..n : t[i] \in Segment
  PROVE  t \in Seq(Segment) /\ Len(t) = n
OBVIOUS

\* Two buffers hold the same segments from r to n - 1.
SameBetween(f, g, r, n) == \A s \in r .. n - 1 : f[s] = g[s]

\* Moving up to m and from there up to n is moving up to n.
LEMMA MovedTwice ==
  ASSUME NEW queue \in Seq(Segment), NEW f, NEW g, NEW h, IsBuffer(g),
         NEW r \in Nat, NEW m \in Nat, NEW n \in Nat, r <= m, m <= n,
         Covers(g, r, n), SameBetween(f, g, r, m), SameBetween(h, g, m, n)
  PROVE  MovedTo(MovedTo(queue, f, r, m), h, m, n) = MovedTo(queue, g, r, n)
<1> DEFINE t == [i \in 1 .. m - r |-> f[r + i - 1]]
           u == [i \in 1 .. n - m |-> h[m + i - 1]]
           v == [i \in 1 .. n - r |-> g[r + i - 1]]
<1>1. \A i \in r .. n - 1 : g[i] \in Segment
  BY DEF Covers, IsBuffer
<1>2. \A i \in 1 .. m - r : r + i - 1 \in r .. m - 1 /\ r + i - 1 \in r .. n - 1
  OBVIOUS
<1>3. \A i \in 1 .. n - m : m + i - 1 \in m .. n - 1 /\ m + i - 1 \in r .. n - 1
  OBVIOUS
<1>4. \A i \in 1 .. m - r : t[i] = g[r + i - 1] /\ t[i] \in Segment
  BY <1>1, <1>2, Zenon DEF SameBetween
<1>5. \A i \in 1 .. n - m : u[i] = g[m + i - 1] /\ u[i] \in Segment
  BY <1>1, <1>3, Zenon DEF SameBetween
<1>6. \A i \in 1 .. n - r : v[i] = g[r + i - 1] /\ v[i] \in Segment
  <2>1. \A i \in 1 .. n - r : r + i - 1 \in r .. n - 1
    OBVIOUS
  <2> QED
    BY <1>1, <2>1, Zenon
<1>7. t \in Seq(Segment) /\ Len(t) = m - r
  <2>1. PICK x \in Nat : x = m - r
    OBVIOUS
  <2>2. t = [i \in 1..x |-> t[i]] /\ \A i \in 1..x : t[i] \in Segment
    BY <1>4, <2>1, Zenon
  <2> HIDE DEF t
  <2> QED
    BY <2>1, <2>2, SegmentSeq
<1>8. u \in Seq(Segment) /\ Len(u) = n - m
  <2>1. PICK x \in Nat : x = n - m
    OBVIOUS
  <2>2. u = [i \in 1..x |-> u[i]] /\ \A i \in 1..x : u[i] \in Segment
    BY <1>5, <2>1, Zenon
  <2> HIDE DEF u
  <2> QED
    BY <2>1, <2>2, SegmentSeq
<1>9. v \in Seq(Segment) /\ Len(v) = n - r
  <2>1. PICK x \in Nat : x = n - r
    OBVIOUS
  <2>2. v = [i \in 1..x |-> v[i]] /\ \A i \in 1..x : v[i] \in Segment
    BY <1>6, <2>1, Zenon
  <2> HIDE DEF v
  <2> QED
    BY <2>1, <2>2, SegmentSeq
<1> HIDE DEF t, u, v
<1>10. t \o u = v
  <2>1. t \o u \in Seq(Segment) /\ Len(t \o u) = n - r
    <3>1. t \o u \in Seq(Segment) /\ Len(t \o u) = Len(t) + Len(u)
      BY <1>7, <1>8, ConcatProperties, Zenon
    <3> QED
      BY <1>7, <1>8, <3>1
  <2>2. ASSUME NEW i \in 1 .. n - r PROVE (t \o u)[i] = v[i]
    <3>1. (t \o u)[i] = IF i <= m - r THEN t[i] ELSE u[i - (m - r)]
      BY <1>7, <1>8, ConcatProperties
    <3>2. CASE i <= m - r
      BY <1>4, <1>6, <3>1, <3>2
    <3>3. CASE ~(i <= m - r)
      <4>1. i - (m - r) \in 1 .. n - m /\ m + (i - (m - r)) - 1 = r + i - 1
        BY <3>3
      <4> QED
        BY <1>5, <1>6, <3>1, <3>3, <4>1
    <3> QED
      BY <3>2, <3>3
  <2> QED
    BY <1>9, <2>1, <2>2, SeqEqual
<1>11. (queue \o t) \o u = queue \o (t \o u)
  <2>1. queue \in Seq(Segment) /\ t \in Seq(Segment) /\ u \in Seq(Segment)
    BY <1>7, <1>8
  <2> QED
    BY ONLY <2>1, ConcatAssociative
<1>12. MovedTo(queue, f, r, m) = queue \o t
  BY Zenon DEF MovedTo, t
<1>13. MovedTo(queue \o t, h, m, n) = (queue \o t) \o u
  BY Zenon DEF MovedTo, u
<1>14. MovedTo(queue, g, r, n) = queue \o v
  BY Zenon DEF MovedTo, v
<1> QED
  BY <1>10, <1>11, <1>12, <1>13, <1>14, Zenon

\* ikcp_input on a PUSH beyond the window, on one received before, on others.
PushMakes(nxt, buf, queue, acks, wnd, s, seg) ==
  /\ s >= nxt + wnd =>
       PushSegment(RcvState(nxt, buf, queue, acks), wnd, s, seg)
         = RcvState(nxt, buf, queue, acks)
  /\ s < nxt =>
       PushSegment(RcvState(nxt, buf, queue, acks), wnd, s, seg)
         = RcvState(nxt, buf, queue, acks \cup {s})
  /\ s >= nxt /\ s < nxt + wnd =>
       PushSegment(RcvState(nxt, buf, queue, acks), wnd, s, seg)
         = MoveLoop(RcvState(nxt, With(buf, s, seg), queue, acks \cup {s}), wnd)

LEMMA PushCases ==
  ASSUME NEW nxt \in Nat, NEW buf, NEW queue, NEW acks, NEW wnd \in Nat, NEW s \in Nat, NEW seg
  PROVE  PushMakes(nxt, buf, queue, acks, wnd, s, seg)
<1>1. ASSUME s >= nxt + wnd
      PROVE  PushSegment(RcvState(nxt, buf, queue, acks), wnd, s, seg)
               = RcvState(nxt, buf, queue, acks)
  BY <1>1 DEF PushSegment, RcvState
<1>2. ASSUME s < nxt
      PROVE  PushSegment(RcvState(nxt, buf, queue, acks), wnd, s, seg)
               = RcvState(nxt, buf, queue, acks \cup {s})
  <2>1. ~(s >= nxt + wnd) /\ ~(s >= nxt)
    BY <1>2
  <2> QED
    BY <2>1 DEF PushSegment, RcvState
<1>3. ASSUME s >= nxt, s < nxt + wnd
      PROVE  PushSegment(RcvState(nxt, buf, queue, acks), wnd, s, seg)
               = MoveLoop(RcvState(nxt, With(buf, s, seg), queue, acks \cup {s}), wnd)
  <2>1. ~(s >= nxt + wnd) /\ ~(s < nxt)
    BY <1>3
  <2>2. PICK rcv : rcv = RcvState(nxt, buf, queue, acks)
    OBVIOUS
  <2>3. PICK acked : acked = RcvState(nxt, buf, queue, acks \cup {s})
    OBVIOUS
  <2>4. rcv.nxt = nxt /\ acked.nxt = nxt
    BY <2>2, <2>3 DEF RcvState
  <2>5. [rcv EXCEPT !.acks = @ \cup {s}] = acked
    BY <2>2, <2>3 DEF RcvState
  <2>6. [acked EXCEPT !.buf = With(@, s, seg)]
          = RcvState(nxt, With(buf, s, seg), queue, acks \cup {s})
    BY <2>3 DEF RcvState
  <2>7. ParseData(acked, wnd, s, seg)
          = MoveLoop(RcvState(nxt, With(buf, s, seg), queue, acks \cup {s}), wnd)
    BY <2>1, <2>4, <2>6, Zenon DEF ParseData
  <2>8. PushSegment(rcv, wnd, s, seg) = ParseData(acked, wnd, s, seg)
    BY <1>3, <2>1, <2>4, <2>5, Zenon DEF PushSegment
  <2> QED
    BY <2>2, <2>7, <2>8, Zenon
<1> QED
  BY <1>1, <1>2, <1>3, Zenon DEF PushMakes

\* The move loop goes on from m, where it stopped, with the segments of g.
GoesOn(queue, f, g, r, m, acks, wnd, end) ==
  MoveLoop(RcvState(m, From(g, m), MovedTo(queue, f, r, m), acks), wnd)
    = MoveState(queue, g, r, acks, end)

LEMMA MoveGoesOn ==
  ASSUME NEW queue \in Seq(Segment), NEW f, NEW g, IsBuffer(g),
         NEW r \in Nat, NEW wnd \in Nat,
         NEW end, end = MoveEnd(queue, g, r, wnd),
         NEW room \in Nat, room = imax(0, wnd - Len(queue)),
         NEW m \in r .. r + room, Covers(f, r, m), IsBuffer(f),
         Covers(g, r, m), SameBetween(f, g, r, m), NEW acks
  PROVE  GoesOn(queue, f, g, r, m, acks, wnd, end)
<1>1. PICK q : q = MovedTo(queue, f, r, m)
  OBVIOUS
<1>2. PICK h : h = From(g, m)
  OBVIOUS
<1>3. PICK len \in Nat : len = Len(queue)
  BY LenProperties
<1>4. m \in Nat /\ r <= m
  OBVIOUS
<1>5. q \in Seq(Segment) /\ Len(q) = len + (m - r)
  <2>1. MovedTo(queue, f, r, m) \in Seq(Segment)
        /\ Len(MovedTo(queue, f, r, m)) = Len(queue) + (m - r)
    BY <1>4, MoveType
  <2> QED
    BY <1>1, <1>3, <2>1, Zenon
<1>6. /\ DOMAIN h = {x \in DOMAIN g : x >= m}
      /\ \A x \in DOMAIN h : h[x] = g[x]
  BY <1>2 DEF From
<1>7. IsBuffer(h)
  BY <1>6 DEF IsBuffer
<1>8. From(h, m) = h
  <2>1. {x \in DOMAIN h : x >= m} = DOMAIN h
    BY <1>6
  <2> QED
    BY <1>2, <1>6, <2>1 DEF From
<1>9. PICK n : n = MoveEnd(q, h, m, wnd)
  OBVIOUS
<1>10. MoveLoop(RcvState(m, h, q, acks), wnd) = MoveState(q, h, m, acks, n)
  <2>1. Ahead(h, m)
    BY <1>8, Zenon DEF Ahead
  <2>2. MoveMakes(q, h, m, acks, wnd, MoveEnd(q, h, m, wnd))
    BY <1>4, <1>5, <1>7, <2>1, MoveLoopMakes, Zenon
  <2> QED
    BY <1>9, <2>2, Zenon DEF MoveMakes
<1>11. PICK left \in Nat : left = imax(0, wnd - Len(q)) /\ left = room - (m - r)
  <2>1. PICK l \in Nat : l = Len(q) /\ l = len + (m - r)
    BY <1>4, <1>5
  <2>2. room = imax(0, wnd - len)
    BY <1>3, Zenon
  <2>3. imax(0, wnd - l) = room - (m - r) /\ room - (m - r) \in Nat
    BY ONLY <1>4, <2>1, <2>2, wnd \in Nat, room \in Nat, m \in r .. r + room, r \in Nat DEF imax
  <2> QED
    BY <2>1, <2>3, Zenon
<1>12. /\ n \in m .. m + left
       /\ \A i \in m .. n - 1 : i \in DOMAIN h
       /\ n = m + left \/ n \notin DOMAIN h
  <2>1. n = Frontier(DOMAIN h, m, left)
    BY <1>9, <1>11, Zenon DEF MoveEnd
  <2> QED
    BY <1>4, <2>1, FrontierFacts
<1>13. /\ n \in r .. r + room /\ n \in Nat /\ m <= n
       /\ \A i \in r .. n - 1 : i \in DOMAIN g
       /\ n = r + room \/ n \notin DOMAIN g
  <2>1. n \in r .. r + room /\ n \in Nat /\ m <= n
    BY <1>4, <1>11, <1>12
  <2>2. ASSUME NEW i \in r .. n - 1 PROVE i \in DOMAIN g
    <3>1. i \in r .. m - 1 \/ i \in m .. n - 1
      BY <1>4, <2>1
    <3> QED
      BY <1>6, <1>12, <3>1 DEF Covers
  <2>3. n = r + room \/ n \notin DOMAIN g
    <3>1. CASE n = m + left
      BY <1>4, <1>11, <3>1
    <3>2. CASE n \notin DOMAIN h
      BY <1>6, <2>1, <3>2
    <3> QED
      BY <1>12, <3>1, <3>2
  <2> QED
    BY <2>1, <2>2, <2>3
<1>14. n = end
  <2>1. end = Frontier(DOMAIN g, r, room)
    BY Zenon DEF MoveEnd
  <2> QED
    BY <1>13, <2>1, FrontierIs
<1>15. From(h, n) = From(g, n)
  <2>1. {x \in DOMAIN h : x >= n} = {x \in DOMAIN g : x >= n}
    BY <1>4, <1>6, <1>13 DEF IsBuffer
  <2> QED
    BY <1>6, <2>1 DEF From
<1>16. MovedTo(q, h, m, n) = MovedTo(queue, g, r, n)
  <2>1. Covers(g, r, n)
    BY <1>13, Zenon DEF Covers
  <2>2. SameBetween(h, g, m, n)
    BY <1>6, <1>12, Zenon DEF SameBetween
  <2> QED
    BY <1>1, <1>4, <1>13, <2>1, <2>2, MovedTwice
<1> QED
  BY <1>1, <1>2, <1>10, <1>14, <1>15, <1>16, Zenon DEF MoveState, GoesOn

\* The segments of rcv_buf with those of a datagram that were parsed, and
\* where rcv_nxt is then.
Taking(buf, push, got) ==
  [s \in DOMAIN buf \cup got |-> IF s \in DOMAIN buf THEN buf[s] ELSE push[s]]
PushEnd(p, got) ==
  IF got = {} THEN rcv_nxt[p]
  ELSE Frontier(DOMAIN rcv_buf[p] \cup got, rcv_nxt[p], WndUnused(p))

LEMMA RoomFacts ==
  ASSUME TypeOK, NEW p \in Peer
  PROVE  /\ rcv_nxt[p] \in Nat /\ rcv_wnd[p] \in Nat /\ WndUnused(p) \in Nat
         /\ WndUnused(p) <= rcv_wnd[p]
<1>1. PICK len \in Nat : len = Len(rcv_queue[p])
  BY DEF TypeOK
<1>2. PICK wnd \in Nat : wnd = rcv_wnd[p]
  BY DEF TypeOK
<1>3. WndUnused(p) = imax(0, wnd - len)
  BY <1>1, <1>2, Zenon DEF WndUnused
<1>4. imax(0, wnd - len) \in Nat /\ imax(0, wnd - len) <= wnd
  BY ONLY len \in Nat, wnd \in Nat DEF imax
<1>5. rcv_nxt[p] \in Nat
  BY DEF TypeOK
<1> QED
  BY <1>2, <1>3, <1>4, <1>5, Zenon

\* The rcv_nxt that a PUSH meets is the one that the parsed PUSHes before it
\* have left.
LEMMA ParsedBefore ==
  ASSUME TypeOK, NEW p \in Peer, NEW push, DOMAIN push \subseteq Nat,
         NEW s \in DOMAIN push, NEW got, got = {x \in Parsed(p, push) : x < s}
  PROVE  RcvNxtAt(p, push, s) = PushEnd(p, got)
<1> DEFINE E == {x \in DOMAIN push : x < s}
           D == DOMAIN rcv_buf[p]
<1>1. PICK r \in Nat, wnd \in Nat, room \in Nat :
        r = rcv_nxt[p] /\ wnd = rcv_wnd[p] /\ room = WndUnused(p) /\ room <= wnd
  BY RoomFacts, Zenon
<1>2. ASSUME NEW x \in DOMAIN push
      PROVE  /\ RcvNxtAt(p, push, x) \in Nat /\ r <= RcvNxtAt(p, push, x)
             /\ \A i \in r .. RcvNxtAt(p, push, x) - 1 : i \in D \/ (i \in DOMAIN push /\ i < x)
  <2>1. x \in Nat
    OBVIOUS
  <2> QED
    BY <1>1, <2>1, RcvNxtAtFacts
<1>3. ASSUME NEW x \in DOMAIN push, ~ \E y \in DOMAIN push : y < x /\ y >= r /\ y < r + wnd
      PROVE  RcvNxtAt(p, push, x) = r
  BY <1>1, <1>3 DEF RcvNxtAt
<1>4. Parsed(p, push) = {x \in DOMAIN push : /\ x >= RcvNxtAt(p, push, x)
                                             /\ x < RcvNxtAt(p, push, x) + wnd}
  BY <1>1, Zenon DEF Parsed
<1>5. ASSUME NEW x \in got PROVE \E y \in E : y >= r /\ y < r + wnd
  <2>1. /\ x \in DOMAIN push /\ x \in Nat /\ x < s
        /\ x >= RcvNxtAt(p, push, x) /\ x < RcvNxtAt(p, push, x) + wnd
    BY <1>4
  <2>2. CASE RcvNxtAt(p, push, x) = r
    BY <2>1, <2>2
  <2>3. CASE RcvNxtAt(p, push, x) # r
    <3>1. PICK y \in DOMAIN push : y < x /\ y >= r /\ y < r + wnd
      BY <1>3, <2>1, <2>3, Zenon
    <3>2. y \in Nat /\ s \in Nat
      OBVIOUS
    <3>3. y < s
      BY <2>1, <3>1, <3>2
    <3> QED
      BY <3>1, <3>3
  <2> QED
    BY <2>2, <2>3
<1>6. ASSUME NEW z \in E, z >= r, z < r + wnd PROVE got # {}
  <2> DEFINE T == {x \in E : x >= r /\ x < r + wnd}
  <2>1. T \in SUBSET Nat /\ T # {}
    BY <1>6
  <2>2. PICK m \in T : \A x \in T : m <= x
    <3> HIDE DEF T
    <3> QED
      BY <2>1, NatMin
  <2>3. /\ m \in DOMAIN push /\ m \in Nat /\ m < s /\ m >= r /\ m < r + wnd
    BY <2>2
  <2>4. ~ \E y \in DOMAIN push : y < m /\ y >= r /\ y < r + wnd
    <3>1. ASSUME NEW y \in DOMAIN push, y < m, y >= r, y < r + wnd PROVE FALSE
      <4>1. y \in Nat /\ s \in Nat /\ ~(m <= y) /\ y < s
        BY <2>3, <3>1
      <4> QED
        BY <2>2, <3>1, <4>1
    <3> QED
      BY <3>1, Zenon
  <2>5. RcvNxtAt(p, push, m) = r
    BY <1>3, <2>3, <2>4, Zenon
  <2>6. m \in got
    BY <1>4, <2>3, <2>5, Zenon
  <2> QED
    BY <2>6
<1>7. CASE got = {}
  <2>1. RcvNxtAt(p, push, s) = r
    BY <1>3, <1>6, <1>7, Zenon
  <2> QED
    BY <1>1, <1>7, <2>1, Zenon DEF PushEnd
<1>8. CASE got # {}
  <2>1. RcvNxtAt(p, push, s) = Frontier(D \cup E, r, room)
    <3>1. \E x \in E : x >= rcv_nxt[p] /\ x < rcv_nxt[p] + rcv_wnd[p]
      BY <1>1, <1>5, <1>8, Zenon
    <3> QED
      BY <1>1, <3>1, Zenon DEF RcvNxtAt
  <2>2. PICK n \in r .. r + room :
          /\ n = Frontier(D \cup got, r, room)
          /\ \A i \in r .. n - 1 : i \in D \cup got
          /\ n = r + room \/ n \notin D \cup got
    <3>1. PICK have : have = D \cup got
      OBVIOUS
    <3>2. PICK m : m = Frontier(have, r, room)
      OBVIOUS
    <3>3. /\ m \in r .. r + room
          /\ \A i \in r .. m - 1 : i \in have
          /\ m = r + room \/ m \notin have
      BY <3>2, FrontierFacts
    <3> QED
      BY <3>1, <3>2, <3>3, Zenon
  <2>3. got \subseteq E
    BY <1>4
  <2>4. n = r + room \/ n \notin D \cup E
    <3>1. ASSUME n # r + room, n \in E, n \notin D, n \notin got PROVE FALSE
      <4>1. PICK a \in Nat : a = RcvNxtAt(p, push, n)
        BY <1>2, <3>1
      <4>2. n \in DOMAIN push /\ n < s /\ n \notin Parsed(p, push)
        BY <3>1
      <4>3. ~(n >= a /\ n < a + wnd)
        BY <1>4, <4>1, <4>2, Zenon
      <4>4. r <= a
        BY <1>2, <4>1, <4>2
      <4>5. n < a
        BY <1>1, <3>1, <4>3, <4>4
      <4>6. n \in r .. a - 1
        BY <4>5
      <4>7. n < n
        BY <1>2, <3>1, <4>1, <4>2, <4>6, Zenon
      <4> QED
        BY <4>7
    <3> QED
      BY <2>2, <3>1, Zenon
  <2>5. \A i \in r .. n - 1 : i \in D \cup E
    BY <2>2, <2>3, Zenon
  <2> HIDE DEF E, D
  <2>6. n = Frontier(D \cup E, r, room)
    BY <2>4, <2>5, FrontierIs
  <2> QED
    BY <1>1, <1>8, <2>1, <2>2, <2>6, Zenon DEF PushEnd, D
<1> QED
  BY <1>7, <1>8

\* The receive side once the PUSHes in got were parsed.
PushState(p, push, got, acks) ==
  MoveState(rcv_queue[p], Taking(rcv_buf[p], push, got), rcv_nxt[p], acks, PushEnd(p, got))

LEMMA TakingType ==
  ASSUME NEW buf, IsBuffer(buf), NEW push, IsBuffer(push), NEW got, got \subseteq DOMAIN push
  PROVE  IsBuffer(Taking(buf, push, got))
BY DEF IsBuffer, Taking

LEMMA PushEndFacts ==
  ASSUME TypeOK, NEW p \in Peer, NEW push, NEW got
  PROVE  /\ PushEnd(p, got) \in rcv_nxt[p] .. rcv_nxt[p] + WndUnused(p)
         /\ PushEnd(p, got) \in Nat
         /\ Covers(Taking(rcv_buf[p], push, got), rcv_nxt[p], PushEnd(p, got))
<1> DEFINE f == Taking(rcv_buf[p], push, got)
<1>1. PICK r \in Nat, room \in Nat : r = rcv_nxt[p] /\ room = WndUnused(p)
  BY RoomFacts, Zenon
<1>2. PICK n : n = PushEnd(p, got)
  OBVIOUS
<1>3. DOMAIN f = DOMAIN rcv_buf[p] \cup got
  BY DEF Taking
<1>4. n \in r .. r + room /\ n \in Nat /\ \A i \in r .. n - 1 : i \in DOMAIN f
  <2>1. CASE got = {}
    <3>1. n = r
      BY <1>1, <1>2, <2>1, Zenon DEF PushEnd
    <3> QED
      BY <3>1
  <2>2. CASE got # {}
    <3>1. n = Frontier(DOMAIN f, r, room)
      BY <1>1, <1>2, <1>3, <2>2, Zenon DEF PushEnd
    <3>2. n \in r .. r + room /\ \A i \in r .. n - 1 : i \in DOMAIN f
      <4> HIDE DEF f
      <4> QED
        BY <3>1, FrontierFacts
    <3> QED
      BY <3>2
  <2> QED
    BY <2>1, <2>2
<1> QED
  BY <1>1, <1>2, <1>4, Zenon DEF Covers

\* ikcp_input on one PUSH, after the PUSHes with smaller numbers.
PushStep(p, push, s, got, after, acks) ==
  PushSegment(PushState(p, push, got, acks), rcv_wnd[p], s, push[s])
    = PushState(p, push, after,
                IF s \in Acknowledged(p, push) THEN acks \cup {s} ELSE acks)

LEMMA PushTurns ==
  ASSUME TypeOK, NEW p \in Peer, NEW push, IsBuffer(push), NEW s \in DOMAIN push,
         NEW got, got = {x \in Parsed(p, push) : x < s},
         NEW after, after = {x \in Parsed(p, push) : x <= s}, NEW acks
  PROVE  PushStep(p, push, s, got, after, acks)
<1>1. PICK r \in Nat, wnd \in Nat, room \in Nat :
        r = rcv_nxt[p] /\ wnd = rcv_wnd[p] /\ room = WndUnused(p)
  BY RoomFacts, Zenon
<1>2. PICK R \in Nat : R = PushEnd(p, got) /\ R = RcvNxtAt(p, push, s) /\ R \in r .. r + room
  <2>1. PushEnd(p, got) \in Nat /\ PushEnd(p, got) \in r .. r + room
    BY <1>1, PushEndFacts, Zenon
  <2>2. RcvNxtAt(p, push, s) = PushEnd(p, got)
    BY ParsedBefore, Zenon DEF IsBuffer
  <2> QED
    BY <2>1, <2>2, Zenon
<1>3. PICK queue \in Seq(Segment) : queue = rcv_queue[p]
  BY DEF TypeOK
<1>4. PICK buf : buf = rcv_buf[p] /\ IsBuffer(buf)
  BY DEF TypeOK
<1>5. PICK f : f = Taking(buf, push, got)
  OBVIOUS
<1>6. s \in Nat /\ push[s] \in Segment
  BY DEF IsBuffer
<1>7. PushState(p, push, got, acks)
        = RcvState(R, From(f, R), MovedTo(queue, f, r, R), acks)
  BY <1>1, <1>2, <1>3, <1>4, <1>5, Zenon DEF PushState, MoveState
<1>8. /\ s \in Acknowledged(p, push) <=> s < R + wnd
      /\ s \in Parsed(p, push) <=> s >= R /\ s < R + wnd
  BY <1>1, <1>2 DEF Acknowledged, Parsed
<1>9. s \notin Parsed(p, push) => after = got
  BY <1>6 DEF Parsed, IsBuffer
<1>10. s \in Parsed(p, push) => after = got \cup {s}
  BY <1>6 DEF Parsed, IsBuffer
<1> PICK h, q, seg : h = From(f, R) /\ q = MovedTo(queue, f, r, R) /\ seg = push[s]
  OBVIOUS
<1>15. PushMakes(R, h, q, acks, wnd, s, seg)
  BY <1>6, PushCases, Zenon
<1>11. CASE s >= R + wnd
  <2>1. s \notin Acknowledged(p, push) /\ after = got
    BY <1>8, <1>9, <1>11
  <2>2. PushSegment(RcvState(R, From(f, R), MovedTo(queue, f, r, R), acks), wnd, s, push[s])
          = RcvState(R, From(f, R), MovedTo(queue, f, r, R), acks)
    BY <1>11, <1>15, Zenon DEF PushMakes
  <2> QED
    BY <1>1, <1>7, <2>1, <2>2, Zenon DEF PushStep
<1>12. CASE s < R
  <2>1. s \in Acknowledged(p, push) /\ after = got
    BY <1>6, <1>8, <1>9, <1>12
  <2>2. PushSegment(RcvState(R, From(f, R), MovedTo(queue, f, r, R), acks), wnd, s, push[s])
          = RcvState(R, From(f, R), MovedTo(queue, f, r, R), acks \cup {s})
    BY <1>12, <1>15, Zenon DEF PushMakes
  <2>3. PushState(p, push, got, acks \cup {s})
          = RcvState(R, From(f, R), MovedTo(queue, f, r, R), acks \cup {s})
    BY <1>1, <1>2, <1>3, <1>4, <1>5, Zenon DEF PushState, MoveState
  <2> QED
    BY <1>1, <1>7, <2>1, <2>2, <2>3, Zenon DEF PushStep
<1>13. CASE s >= R /\ s < R + wnd
  <2>1. s \in Acknowledged(p, push) /\ after = got \cup {s} /\ after # {}
    BY <1>8, <1>10, <1>13
  <2>2. PICK g : g = Taking(buf, push, after)
    OBVIOUS
  <2>3. From(g, R) = With(From(f, R), s, push[s])
    <3>1. DOMAIN f = DOMAIN buf \cup got /\ DOMAIN g = DOMAIN f \cup {s}
      BY <1>5, <2>1, <2>2 DEF Taking
    <3>2. \A x \in DOMAIN f : f[x] = g[x]
      BY <1>5, <2>1, <2>2 DEF Taking
    <3>3. s \notin DOMAIN f => g[s] = push[s]
      BY <1>5, <2>1, <2>2, <3>1 DEF Taking
    <3>4. {x \in DOMAIN g : x >= R} = {x \in DOMAIN f : x >= R} \cup {s}
      BY <1>13, <3>1
    <3> QED
      BY <3>1, <3>2, <3>3, <3>4 DEF From, With
  <2>4. PushSegment(RcvState(R, From(f, R), MovedTo(queue, f, r, R), acks), wnd, s, push[s])
          = MoveLoop(RcvState(R, From(g, R), MovedTo(queue, f, r, R), acks \cup {s}), wnd)
    BY <1>13, <1>15, <2>3, Zenon DEF PushMakes
  <2>5. IsBuffer(f) /\ IsBuffer(g)
    <3>1. got \subseteq DOMAIN push /\ after \subseteq DOMAIN push
      BY DEF Parsed
    <3> QED
      BY <1>4, <1>5, <2>2, <3>1, TakingType, Zenon
  <2>6. Covers(f, r, R)
    BY <1>1, <1>2, <1>4, <1>5, PushEndFacts, Zenon
  <2>7. Covers(g, r, R) /\ SameBetween(f, g, r, R)
    <3>1. DOMAIN f \subseteq DOMAIN g
      BY <1>5, <2>1, <2>2 DEF Taking
    <3>2. \A x \in DOMAIN f : f[x] = g[x]
      BY <1>5, <2>1, <2>2 DEF Taking
    <3> QED
      BY <2>6, <3>1, <3>2, Zenon DEF Covers, SameBetween
  <2>8. room = imax(0, wnd - Len(queue))
    BY <1>1, <1>3, Zenon DEF WndUnused
  <2>9. PICK end : end = MoveEnd(queue, g, r, wnd)
    OBVIOUS
  <2>10. MoveLoop(RcvState(R, From(g, R), MovedTo(queue, f, r, R), acks \cup {s}), wnd)
           = MoveState(queue, g, r, acks \cup {s}, end)
    <3>1. GoesOn(queue, f, g, r, R, acks \cup {s}, wnd, end)
      BY <1>2, <2>5, <2>6, <2>7, <2>8, <2>9, MoveGoesOn, Zenon
    <3> QED
      BY <3>1, Zenon DEF GoesOn
  <2>11. end = PushEnd(p, after)
    <3>1. DOMAIN g = DOMAIN buf \cup after
      BY <2>2 DEF Taking
    <3>2. end = Frontier(DOMAIN buf \cup after, r, room)
      BY <2>8, <2>9, <3>1, Zenon DEF MoveEnd
    <3> QED
      BY <1>1, <1>4, <2>1, <3>2, Zenon DEF PushEnd
  <2>12. PushState(p, push, after, acks \cup {s}) = MoveState(queue, g, r, acks \cup {s}, end)
    BY <1>1, <1>3, <1>4, <2>2, <2>11, Zenon DEF PushState
  <2> QED
    BY <1>1, <1>7, <2>1, <2>4, <2>10, <2>12, Zenon DEF PushStep
<1>14. s >= R + wnd \/ s < R \/ (s >= R /\ s < R + wnd)
  BY <1>6
<1> QED
  BY <1>11, <1>12, <1>13, <1>14, Zenon

\* An order of a set goes through all of it, each element once.
Visits(order, S) ==
  /\ Len(order) \in Nat /\ order \in [1..Len(order) -> S]
  /\ \A i, j \in 1..Len(order) : i # j => order[i] # order[j]
  /\ \A s \in S : \E i \in 1..Len(order) : s = order[i]

LEMMA OrderFacts ==
  ASSUME NEW S, IsFiniteSet(S), NEW order \in SetToSeqs(S)
  PROVE  Visits(order, S)
<1>1. PICK n \in Nat : n = Cardinality(S)
  BY FS_CardinalityType
<1>2. /\ order \in [1..n -> S]
      /\ \A i, j \in 1..n : i # j => order[i] # order[j]
  BY <1>1, Zenon DEF SetToSeqs
<1>3. Len(order) = n
  BY <1>2
<1>4. order \in Injection(1..n, S)
  BY <1>2, Zenon DEF Injection, IsInjective
<1>5. Cardinality(1..n) = Cardinality(S)
  <2>1. Cardinality(1..n) = IF 1 > n THEN 0 ELSE n - 1 + 1
    BY FS_Interval
  <2> QED
    BY <1>1, <2>1
<1>6. order \in Surjection(1..n, S)
  BY <1>4, <1>5, FS_Injection
<1>7. \A s \in S : \E i \in 1..n : s = order[i]
  BY <1>6 DEF Surjection
<1> QED
  BY <1>2, <1>3, <1>7, Zenon DEF Visits

LEMMA AscendingFacts ==
  ASSUME NEW S, IsFiniteSet(S), S \subseteq Nat, NEW order \in Ascending(S),
         NEW j \in 1..Len(order), NEW x \in S
  PROVE  /\ x < order[j] <=> \E i \in 1..j - 1 : x = order[i]
         /\ x <= order[j] <=> \E i \in 1..j : x = order[i]
<1>1. /\ order \in SetToSeqs(S)
      /\ \A i, k \in 1..Len(order) : i < k => order[i] < order[k]
  BY Zenon DEF Ascending
<1>0. Visits(order, S)
  BY <1>1, OrderFacts, Zenon
<1>2. PICK n \in Nat : n = Len(order)
  BY <1>0, Zenon DEF Visits
<1>3. \A i \in 1..n : order[i] \in Nat
  BY <1>0, <1>2 DEF Visits
<1>4. PICK i \in 1..n : x = order[i]
  BY <1>0, <1>2, Zenon DEF Visits
<1>5. \A k \in 1..n : order[k] = x => k = i
  BY <1>0, <1>2, <1>4, Zenon DEF Visits
<1>6. j \in 1..n /\ \A k, l \in 1..n : k < l => order[k] < order[l]
  BY <1>1, <1>2
<1>7. CASE i < j
  <2>1. x < order[j] /\ x <= order[j]
    BY <1>3, <1>4, <1>6, <1>7
  <2>2. i \in 1..j - 1 /\ i \in 1..j
    BY <1>7
  <2> QED
    BY <1>4, <2>1, <2>2, Zenon
<1>8. CASE i = j
  <2>1. x <= order[j] /\ ~(x < order[j]) /\ j \in 1..j
    BY <1>3, <1>4, <1>8
  <2>2. \A k \in 1..j - 1 : k \in 1..n /\ k # i
    BY <1>8
  <2> QED
    BY <1>4, <1>5, <1>8, <2>1, <2>2, Zenon
<1>9. CASE j < i
  <2>1. ~(x <= order[j]) /\ ~(x < order[j])
    <3>1. order[j] < order[i]
      BY <1>6, <1>9
    <3>2. order[j] \in Nat /\ order[i] \in Nat
      BY <1>3, <1>6
    <3> QED
      BY <1>4, <3>1, <3>2
  <2>2. \A k \in 1..j : k \in 1..n /\ k # i
    BY <1>9
  <2>3. \A k \in 1..j - 1 : k \in 1..n /\ k # i
    BY <1>9
  <2> QED
    BY <1>4, <1>5, <2>1, <2>2, <2>3, Zenon
<1>10. i < j \/ i = j \/ j < i
  BY <1>6
<1> QED
  BY <1>7, <1>8, <1>9, <1>10, Zenon

\* The loop of ikcp_input over the PUSHes.
LEMMA PushLoopMakes ==
  ASSUME TypeOK, NEW p \in Peer, Ahead(rcv_buf[p], rcv_nxt[p]),
         NEW push, IsBuffer(push), IsFiniteSet(DOMAIN push),
         NEW order \in Ascending(DOMAIN push)
  PROVE  PushLoop(p, push, order)
           = PushState(p, push, Parsed(p, push), acklist[p] \cup Acknowledged(p, push))
<1> DEFINE Visited(j) == {order[i] : i \in 1..j}
           g == [j \in 0..Len(order) |->
                   PushState(p, push, Parsed(p, push) \cap Visited(j),
                             acklist[p] \cup (Acknowledged(p, push) \cap Visited(j)))]
           Follows(x) == x = [i \in 0..Len(order) |->
                                IF i = 0 THEN Rcv(p)
                                ELSE PushSegment(x[i - 1], rcv_wnd[p], order[i], push[order[i]])]
           f == CHOOSE x : Follows(x)
<1>1. /\ Len(order) \in Nat /\ order \in [1..Len(order) -> DOMAIN push]
      /\ \A s \in DOMAIN push : \E i \in 1..Len(order) : s = order[i]
  <2>1. order \in SetToSeqs(DOMAIN push)
    BY Zenon DEF Ascending
  <2>2. Visits(order, DOMAIN push)
    BY <2>1, OrderFacts, Zenon
  <2> QED
    BY <2>2, Zenon DEF Visits
<1>2. PICK n \in Nat : n = Len(order)
  BY <1>1, Zenon
<1>3. 0 \in 0..n /\ n \in 0..n /\ \A i \in 0..n : i = 0 \/ i \in 1..n
  OBVIOUS
<1>4. \A i \in 1..n : i \in 0..n /\ i - 1 \in 0..n /\ i # 0
  OBVIOUS
<1>5. Visited(0) = {} /\ Visited(n) = DOMAIN push
  <2>1. \A i \in 1..n : order[i] \in DOMAIN push
    BY <1>1, <1>2, Zenon
  <2>2. \A s \in DOMAIN push : \E i \in 1..n : s = order[i]
    BY <1>1, <1>2, Zenon
  <2>3. Visited(n) = DOMAIN push
    BY <2>1, <2>2, Zenon
  <2>4. 1..0 = {}
    OBVIOUS
  <2> QED
    BY <2>3, <2>4
<1>6. Parsed(p, push) \subseteq DOMAIN push /\ Acknowledged(p, push) \subseteq DOMAIN push
  BY Zenon DEF Parsed, Acknowledged
<1>7. g[0] = Rcv(p)
  <2>1. PICK got, acks : got = Parsed(p, push) \cap Visited(0) /\ got = {}
                         /\ acks = acklist[p] \cup (Acknowledged(p, push) \cap Visited(0))
    BY <1>5
  <2>2. acks = acklist[p]
    BY <1>5, <2>1
  <2>3. g[0] = PushState(p, push, got, acks)
    BY <1>2, <1>3, <2>1, Zenon
  <2>4. PushEnd(p, got) = rcv_nxt[p]
    BY <2>1, Zenon DEF PushEnd
  <2>5. Ahead(rcv_buf[p], rcv_nxt[p])
    OBVIOUS
  <2>6. Taking(rcv_buf[p], push, got) = rcv_buf[p]
    <3>1. rcv_buf[p] = [s \in DOMAIN rcv_buf[p] |-> rcv_buf[p][s]]
      BY <2>5 DEF Ahead, From
    <3>2. DOMAIN rcv_buf[p] \cup got = DOMAIN rcv_buf[p]
      BY <2>1
    <3> QED
      BY <3>1, <3>2 DEF Taking
  <2>7. g[0] = MoveState(rcv_queue[p], rcv_buf[p], rcv_nxt[p], acks, rcv_nxt[p])
    BY <2>3, <2>4, <2>6, Zenon DEF PushState
  <2>8. rcv_queue[p] \in Seq(Segment) /\ IsBuffer(rcv_buf[p]) /\ rcv_nxt[p] \in Nat
    BY DEF TypeOK
  <2>9. g[0] = RcvState(rcv_nxt[p], rcv_buf[p], rcv_queue[p], acks)
    BY <2>5, <2>7, <2>8, MovedNone
  <2> QED
    BY <2>2, <2>9, Zenon DEF Rcv, RcvState
<1>8. ASSUME NEW j \in 1..n
      PROVE  g[j] = PushSegment(g[j - 1], rcv_wnd[p], order[j], push[order[j]])
  <2>1. PICK s \in DOMAIN push : s = order[j]
    BY <1>1, <1>2
  <2>2. \A x \in DOMAIN push : (x < s <=> x \in Visited(j - 1)) /\ (x <= s <=> x \in Visited(j))
    <3>1. j \in 1..Len(order) /\ DOMAIN push \subseteq Nat
      BY <1>2 DEF IsBuffer
    <3>2. ASSUME NEW x \in DOMAIN push
          PROVE  /\ x < order[j] <=> \E i \in 1..j - 1 : x = order[i]
                 /\ x <= order[j] <=> \E i \in 1..j : x = order[i]
      BY <3>1, AscendingFacts
    <3> QED
      BY <2>1, <3>2
  <2>3. PICK got : got = Parsed(p, push) \cap Visited(j - 1)
                   /\ got = {x \in Parsed(p, push) : x < s}
    BY <1>6, <2>2
  <2>4. PICK after : after = Parsed(p, push) \cap Visited(j)
                     /\ after = {x \in Parsed(p, push) : x <= s}
    BY <1>6, <2>2
  <2>5. PICK acks : acks = acklist[p] \cup (Acknowledged(p, push) \cap Visited(j - 1))
    OBVIOUS
  <2>6. PICK acked : acked = acklist[p] \cup (Acknowledged(p, push) \cap Visited(j))
                     /\ acked = IF s \in Acknowledged(p, push) THEN acks \cup {s} ELSE acks
    <3>1. Visited(j) = Visited(j - 1) \cup {s}
      <4>1. \A i \in 1..j : i \in 1..j - 1 \/ i = j
        OBVIOUS
      <4>2. \A i \in 1..j - 1 : i \in 1..j
        OBVIOUS
      <4>3. j \in 1..j
        OBVIOUS
      <4> QED
        BY <2>1, <4>1, <4>2, <4>3
    <3> HIDE DEF Visited
    <3> QED
      BY <2>5, <3>1
  <2>7. g[j - 1] = PushState(p, push, got, acks) /\ g[j] = PushState(p, push, after, acked)
    BY <1>2, <1>4, <2>3, <2>4, <2>5, <2>6, Zenon
  <2> HIDE DEF g, Visited
  <2>8. PushStep(p, push, s, got, after, acks)
    BY <2>3, <2>4, PushTurns, Zenon
  <2> QED
    BY <2>1, <2>6, <2>7, <2>8, Zenon DEF PushStep
<1>9. g[n] = PushState(p, push, Parsed(p, push), acklist[p] \cup Acknowledged(p, push))
  <2>1. Parsed(p, push) \cap Visited(n) = Parsed(p, push)
        /\ Acknowledged(p, push) \cap Visited(n) = Acknowledged(p, push)
    BY <1>5, <1>6
  <2> QED
    BY <1>2, <1>3, <2>1, Zenon
<1>10. g = [i \in 0..Len(order) |-> g[i]]
  BY Zenon
<1> HIDE DEF g
<1>11. Follows(g)
  <2>1. \A i \in 0..Len(order) :
          g[i] = IF i = 0 THEN Rcv(p)
                 ELSE PushSegment(g[i - 1], rcv_wnd[p], order[i], push[order[i]])
    BY <1>2, <1>3, <1>7, <1>8, Zenon
  <2> QED
    BY <1>10, <2>1, Zenon
<1>12. Follows(f)
  BY <1>11, Zenon
<1>13. PushLoop(p, push, order) = f[n]
  BY <1>2, Zenon DEF PushLoop
<1> HIDE DEF f
<1>14. Alike(f, g, n)
  <2>1. f[0] = g[0]
    BY <1>2, <1>3, <1>7, <1>12, Zenon
  <2>2. ASSUME NEW i \in 1..n, f[i - 1] = g[i - 1] PROVE f[i] = g[i]
    <3>1. f[i] = PushSegment(f[i - 1], rcv_wnd[p], order[i], push[order[i]])
      BY <1>2, <1>4, <1>12, Zenon
    <3> QED
      BY <1>8, <2>2, <3>1, Zenon
  <2> QED
    BY <2>1, <2>2, TurnsAlike, Zenon
<1> QED
  BY <1>3, <1>9, <1>13, <1>14, Zenon DEF Alike

-----------------------------------------------------------------------------
(* ikcp_parse_una, ikcp_parse_ack and ikcp_shrink_buf *)

SndState(una, nxt, buf, queue) == [una |-> una, nxt |-> nxt, buf |-> buf, queue |-> queue]

\* The send side with the segments of buf whose numbers are in left.
Only(buf, left) == [s \in left |-> buf[s]]
LeftState(nxt, buf, queue, left) ==
  SndState(LowestUnacked(left, nxt), nxt, Only(buf, left), queue)

\* The numbers that the loop of ikcp_parse_una has left after i turns.
UnaLeft(buf, una, left, i) ==
  /\ left \subseteq DOMAIN buf
  /\ \A s \in DOMAIN buf : s >= una => s \in left
  /\ \A s \in left : s < una => s >= i

LEMMA UnaTurnLeaves ==
  ASSUME NEW buf, DOMAIN buf \subseteq Nat, NEW una \in Nat, NEW i \in Nat,
         NEW left, UnaLeft(buf, una, left, i)
  PROVE  \E rest : UnaTurn(Only(buf, left), una) = Only(buf, rest) /\ UnaLeft(buf, una, rest, i + 1)
<1>1. PICK b : b = Only(buf, left)
  OBVIOUS
<1>2. DOMAIN b = left /\ \A s \in left : b[s] = buf[s]
  BY <1>1 DEF Only
<1>3. left \in SUBSET Nat /\ left \subseteq DOMAIN buf
  BY DEF UnaLeft
<1>4. CASE left # {} /\ Min(left) < una
  <2>1. PICK m \in left : m = Min(left) /\ \A s \in left : m <= s
    BY <1>3, <1>4, NatMin
  <2>2. UnaTurn(b, una) = Without(b, m)
    BY <1>2, <1>4, <2>1, Zenon DEF UnaTurn
  <2>3. Without(b, m) = Only(buf, left \ {m})
    BY <1>2 DEF Without, Only
  <2>4. m \in Nat /\ m < una /\ m >= i
    BY <1>3, <1>4, <2>1 DEF UnaLeft
  <2>5. UnaLeft(buf, una, left \ {m}, i + 1)
    <3>1. \A s \in DOMAIN buf : s >= una => s \in left \ {m}
      BY <2>4 DEF UnaLeft
    <3>2. \A s \in left \ {m} : s >= i + 1
      BY <1>3, <2>1, <2>4
    <3> QED
      BY <1>3, <3>1, <3>2 DEF UnaLeft
  <2> QED
    BY <1>1, <2>2, <2>3, <2>5, Zenon
<1>5. CASE ~(left # {} /\ Min(left) < una)
  <2>1. UnaTurn(b, una) = b
    BY <1>2, <1>5, Zenon DEF UnaTurn
  <2>2. \A s \in left : ~(s < una)
    <3>1. ASSUME NEW s \in left, s < una PROVE FALSE
      <4>1. PICK m \in left : m = Min(left) /\ \A x \in left : m <= x
        BY <1>3, NatMin
      <4>2. ~(m < una)
        BY <1>5, <3>1, <4>1, Zenon
      <4>3. m \in Nat /\ s \in Nat /\ m <= s
        BY <1>3, <4>1
      <4> QED
        BY <3>1, <4>2, <4>3
    <3> QED
      BY <3>1
  <2>3. UnaLeft(buf, una, left, i + 1)
    BY <2>2 DEF UnaLeft
  <2> QED
    BY <1>1, <2>1, <2>3, Zenon
<1> QED
  BY <1>4, <1>5, Zenon

\* The loop of ikcp_parse_una, for any number of turns, is a function.
UnaTurns(f, buf, una, n) ==
  f = [i \in 0..n |-> IF i = 0 THEN buf ELSE UnaTurn(f[i - 1], una)]

LEMMA UnaTurnsExist ==
  ASSUME NEW n \in Nat, NEW buf, NEW una
  PROVE  \E f : UnaTurns(f, buf, una, n)
<1> DEFINE T == {k \in Nat : ~ \E f : UnaTurns(f, buf, una, k)}
<1>1. ASSUME T # {} PROVE FALSE
  <2>1. PICK m \in T : \A x \in T : m <= x
    <3>1. T \in SUBSET Nat
      OBVIOUS
    <3> HIDE DEF T
    <3> QED
      BY <1>1, <3>1, NatMin
  <2>2. m # 0
    <3>1. UnaTurns([i \in 0..0 |-> buf], buf, una, 0)
      <4>1. \A i \in 0..0 : i = 0
        OBVIOUS
      <4> QED
        BY <4>1, Zenon DEF UnaTurns
    <3> QED
      BY <3>1, Zenon
  <2>3. m \in Nat /\ m - 1 \in Nat /\ ~(m <= m - 1)
    BY <2>2
  <2>4. PICK f : UnaTurns(f, buf, una, m - 1)
    BY <2>1, <2>3, Zenon
  <2> DEFINE g == [i \in 0..m |-> IF i = m THEN UnaTurn(f[m - 1], una) ELSE f[i]]
  <2>5. ASSUME NEW i \in 0..m
        PROVE  g[i] = IF i = 0 THEN buf ELSE UnaTurn(g[i - 1], una)
    <3>1. CASE i = 0
      <4>1. i \in 0..m - 1 /\ i # m
        BY <2>2, <2>3, <3>1
      <4>2. g[i] = f[i]
        BY <4>1, Zenon
      <4>3. f[i] = buf
        BY <2>4, <3>1, <4>1, Zenon DEF UnaTurns
      <4> QED
        BY <3>1, <4>2, <4>3, Zenon
    <3>2. CASE i # 0
      <4>1. i - 1 \in 0..m /\ i - 1 # m
        BY <2>3, <3>2
      <4>2. g[i - 1] = f[i - 1]
        BY <4>1, Zenon
      <4>3. g[i] = UnaTurn(f[i - 1], una)
        <5>1. CASE i = m
          BY <5>1, Zenon
        <5>2. CASE i # m
          <6>1. i \in 0..m - 1
            BY <2>3, <5>2
          <6>2. f[i] = UnaTurn(f[i - 1], una)
            BY <2>4, <3>2, <6>1, Zenon DEF UnaTurns
          <6> QED
            BY <5>2, <6>2, Zenon
        <5> QED
          BY <5>1, <5>2, Zenon
      <4> QED
        BY <3>2, <4>2, <4>3, Zenon
    <3> QED
      BY <3>1, <3>2, Zenon
  <2>6. g = [i \in 0..m |-> g[i]]
    BY Zenon
  <2> HIDE DEF g
  <2>7. UnaTurns(g, buf, una, m)
    BY <2>5, <2>6, Zenon DEF UnaTurns
  <2> QED
    BY <2>7, Zenon
<1>2. n \notin T
  BY <1>1, Zenon
<1> QED
  BY <1>2

ParsesUna(una0, nxt, buf, queue, una) ==
  ParseUna(SndState(una0, nxt, buf, queue), una)
    = SndState(una0, nxt, Only(buf, {s \in DOMAIN buf : s >= una}), queue)

LEMMA ParseUnaMakes ==
  ASSUME NEW una0, NEW nxt \in Nat, NEW buf, buf = Only(buf, DOMAIN buf),
         DOMAIN buf \subseteq 0..nxt - 1, NEW queue, NEW una \in Nat
  PROVE  ParsesUna(una0, nxt, buf, queue, una)
<1> DEFINE f == CHOOSE x : UnaTurns(x, buf, una, nxt)
           LeavesSome(i) == \E left : f[i] = Only(buf, left) /\ UnaLeft(buf, una, left, i)
           T == {i \in 0..nxt : ~LeavesSome(i)}
<1>0. PICK snd : snd = SndState(una0, nxt, buf, queue)
  OBVIOUS
<1>1. snd.nxt = nxt /\ snd.buf = buf
  BY <1>0 DEF SndState
<1>2. UnaTurns(f, buf, una, nxt)
  BY UnaTurnsExist, Zenon
<1>3. ParseUna(snd, una) = [snd EXCEPT !.buf = f[nxt]]
  BY <1>1, Zenon DEF ParseUna, UnaTurns
<1> HIDE DEF f
<1>4. LeavesSome(0)
  <2>1. f[0] = buf
    <3>1. 0 \in 0..nxt
      OBVIOUS
    <3> QED
      BY <1>2, <3>1, Zenon DEF UnaTurns
  <2>2. UnaLeft(buf, una, DOMAIN buf, 0)
    BY DEF UnaLeft
  <2> QED
    BY <2>1, <2>2, Zenon
<1>5. ASSUME NEW i \in 1..nxt, LeavesSome(i - 1) PROVE LeavesSome(i)
  <2>1. PICK left : f[i - 1] = Only(buf, left) /\ UnaLeft(buf, una, left, i - 1)
    BY <1>5, Zenon
  <2>2. i \in 0..nxt /\ i # 0 /\ i - 1 \in Nat /\ i - 1 + 1 = i
    OBVIOUS
  <2>3. f[i] = UnaTurn(f[i - 1], una)
    BY <1>2, <2>2, Zenon DEF UnaTurns
  <2>4. DOMAIN buf \subseteq Nat
    OBVIOUS
  <2>5. PICK rest : UnaTurn(Only(buf, left), una) = Only(buf, rest)
                    /\ UnaLeft(buf, una, rest, i - 1 + 1)
    BY <2>1, <2>2, <2>4, UnaTurnLeaves, Zenon
  <2> QED
    BY <2>1, <2>2, <2>3, <2>5, Zenon
<1>6. LeavesSome(nxt)
  <2> HIDE DEF Kept
  <2>1. ASSUME T # {} PROVE FALSE
    <3>1. PICK m \in T : \A x \in T : m <= x
      <4>1. T \in SUBSET Nat
        OBVIOUS
      <4> HIDE DEF T
      <4> QED
        BY <2>1, <4>1, NatMin
    <3>2. m # 0
      BY <1>4, <3>1
    <3>3. m \in 1..nxt /\ m - 1 \in 0..nxt /\ ~(m <= m - 1)
      BY <3>1, <3>2
    <3>4. LeavesSome(m - 1)
      BY <3>1, <3>3, Zenon
    <3> QED
      BY <1>5, <3>1, <3>3, <3>4, Zenon
  <2>2. nxt \in 0..nxt
    OBVIOUS
  <2> QED
    BY <2>1, <2>2, Zenon
<1>7. PICK left : f[nxt] = Only(buf, left) /\ UnaLeft(buf, una, left, nxt)
  BY <1>6, Zenon
<1>8. left = {s \in DOMAIN buf : s >= una}
  <2>1. \A s \in left : s \in DOMAIN buf /\ s \in 0..nxt - 1 /\ (s < una => s >= nxt)
    BY <1>7 DEF UnaLeft
  <2>2. \A s \in left : s \in DOMAIN buf /\ s >= una
    BY <2>1
  <2>3. \A s \in DOMAIN buf : s >= una => s \in left
    BY <1>7, Zenon DEF UnaLeft
  <2> QED
    BY <2>2, <2>3
<1>9. [snd EXCEPT !.buf = f[nxt]] = SndState(una0, nxt, f[nxt], queue)
  BY <1>0 DEF SndState
<1> QED
  BY <1>0, <1>3, <1>7, <1>8, <1>9, Zenon DEF ParsesUna

Shrinks(una0, nxt, buf, queue) ==
  ShrinkBuf(SndState(una0, nxt, buf, queue))
    = SndState(LowestUnacked(DOMAIN buf, nxt), nxt, buf, queue)

LEMMA ShrinkMakes ==
  ASSUME NEW una0, NEW nxt, NEW buf, NEW queue
  PROVE  Shrinks(una0, nxt, buf, queue)
BY DEF Shrinks, ShrinkBuf, SndState

\* ikcp_input on one ACK, when ikcp_parse_una has done its work before.
AckStep(nxt, buf, queue, left, una, s) ==
  AckSegment(LeftState(nxt, buf, queue, left), una, s) = LeftState(nxt, buf, queue, left \ {s})

LEMMA AckTurns ==
  ASSUME NEW nxt \in Nat, NEW buf, DOMAIN buf \subseteq 0..nxt - 1, NEW queue, NEW una \in Nat,
         NEW left, left \subseteq DOMAIN buf, \A x \in left : x >= una, NEW s \in Nat
  PROVE  AckStep(nxt, buf, queue, left, una, s)
<1>1. PICK b : b = Only(buf, left)
  OBVIOUS
<1>2. DOMAIN b = left /\ b = Only(b, DOMAIN b) /\ \A x \in left : b[x] = buf[x]
  BY <1>1 DEF Only
<1>3. PICK low : low = LowestUnacked(left, nxt)
  OBVIOUS
<1>4. low \in Nat /\ low <= nxt /\ \A x \in left : low <= x
  <2>1. left \in SUBSET Nat
    OBVIOUS
  <2>2. low \in Nat /\ low \in left \cup {nxt} /\ \A x \in left : low <= x
    BY <1>3, <2>1, LowestUnackedFacts
  <2>3. \A x \in left : x \in 0..nxt - 1
    OBVIOUS
  <2> QED
    BY <2>2, <2>3
<1>5. PICK snd : snd = SndState(low, nxt, b, queue)
  OBVIOUS
<1>6. snd = LeftState(nxt, buf, queue, left)
  BY <1>1, <1>3, <1>5, Zenon DEF LeftState
<1>7. ParseUna(snd, una) = snd
  <2>1. ParsesUna(low, nxt, b, queue, una)
    <3>1. DOMAIN b \subseteq 0..nxt - 1
      BY <1>2
    <3> QED
      BY <1>2, <3>1, ParseUnaMakes, Zenon
  <2>2. {x \in DOMAIN b : x >= una} = DOMAIN b
    BY <1>2
  <2> QED
    BY <1>2, <1>5, <2>1, <2>2, Zenon DEF ParsesUna
<1>8. ShrinkBuf(snd) = snd
  <2>1. Shrinks(low, nxt, b, queue)
    BY ShrinkMakes, Zenon
  <2> QED
    BY <1>2, <1>3, <1>5, <2>1, Zenon DEF Shrinks
<1>9. AckSegment(snd, una, s) = ShrinkBuf(ParseAck(snd, s))
  BY <1>7, <1>8, Zenon DEF AckSegment
<1>10. snd.una = low /\ snd.nxt = nxt /\ snd.buf = b
  BY <1>5 DEF SndState
<1>11. CASE s < low \/ s >= nxt
  <2>1. ParseAck(snd, s) = snd
    BY <1>10, <1>11, Zenon DEF ParseAck
  <2>2. left \ {s} = left
    <3>1. ASSUME s \in left PROVE FALSE
      <4>1. s \in 0..nxt - 1 /\ low <= s
        BY <1>4, <3>1
      <4> QED
        BY <1>4, <1>11, <4>1
    <3> QED
      BY <3>1
  <2> QED
    BY <1>6, <1>8, <1>9, <2>1, <2>2, Zenon DEF AckStep
<1>12. CASE ~(s < low \/ s >= nxt)
  <2>1. ParseAck(snd, s) = SndState(low, nxt, Without(b, s), queue)
    <3>1. ParseAck(snd, s) = [snd EXCEPT !.buf = Without(@, s)]
      BY <1>10, <1>12, Zenon DEF ParseAck
    <3>2. [snd EXCEPT !.buf = Without(@, s)] = SndState(low, nxt, Without(b, s), queue)
      BY <1>5 DEF SndState
    <3> QED
      BY <3>1, <3>2, Zenon
  <2>2. PICK w : w = Without(b, s) /\ w = Only(buf, left \ {s}) /\ DOMAIN w = left \ {s}
    <3>1. Without(b, s) = Only(buf, left \ {s})
      BY <1>2 DEF Without, Only
    <3>2. DOMAIN Only(buf, left \ {s}) = left \ {s}
      BY Zenon DEF Only
    <3> QED
      BY <3>1, <3>2, Zenon
  <2>3. Shrinks(low, nxt, w, queue)
    BY ShrinkMakes, Zenon
  <2> QED
    BY <1>6, <1>9, <2>1, <2>2, <2>3, Zenon DEF Shrinks, AckStep, LeftState
<1> QED
  BY <1>11, <1>12, Zenon

\* The loop of ikcp_input over the ACKs.
AcksMake(p, una, ack, order, above) ==
  AckLoop(p, una, order) = LeftState(snd_nxt[p], snd_buf[p], snd_queue[p], above \ ack)

LEMMA AckLoopMakes ==
  ASSUME TypeOK, NEW p \in Peer, snd_buf[p] = Only(snd_buf[p], DOMAIN snd_buf[p]),
         DOMAIN snd_buf[p] \subseteq 0..snd_nxt[p] - 1,
         NEW una \in Nat, NEW ack, ack \subseteq Nat, IsFiniteSet(ack),
         NEW order \in SetToSeqs(ack), NEW above, above = {s \in DOMAIN snd_buf[p] : s >= una}
  PROVE  AcksMake(p, una, ack, order, above)
<1>0. PICK nxt, buf, queue :
        /\ nxt \in Nat
        /\ nxt = snd_nxt[p] /\ buf = snd_buf[p] /\ queue = snd_queue[p]
        /\ DOMAIN buf \subseteq 0..nxt - 1 /\ buf = Only(buf, DOMAIN buf)
  BY DEF TypeOK
<1> DEFINE Visited(j) == {order[i] : i \in 1..j}
           start == ShrinkBuf(ParseUna(Snd(p), una))
           g == [j \in 0..Len(order) |-> LeftState(nxt, buf, queue, above \ Visited(j))]
           Follows(x) == x = [i \in 0..Len(order) |->
                                IF i = 0 THEN start ELSE AckSegment(x[i - 1], una, order[i])]
           f == CHOOSE x : Follows(x)
<1>1. /\ Len(order) \in Nat /\ order \in [1..Len(order) -> ack]
      /\ \A s \in ack : \E i \in 1..Len(order) : s = order[i]
  <2>1. Visits(order, ack)
    BY OrderFacts, Zenon
  <2> QED
    BY <2>1, Zenon DEF Visits
<1>2. PICK n \in Nat : n = Len(order)
  BY <1>1, Zenon
<1>3. 0 \in 0..n /\ n \in 0..n /\ \A i \in 0..n : i = 0 \/ i \in 1..n
  OBVIOUS
<1>4. \A i \in 1..n : i \in 0..n /\ i - 1 \in 0..n /\ i # 0
  OBVIOUS
<1>5. Visited(0) = {} /\ Visited(n) = ack
  <2>1. \A i \in 1..n : order[i] \in ack
    BY <1>1, <1>2, Zenon
  <2>2. \A s \in ack : \E i \in 1..n : s = order[i]
    BY <1>1, <1>2, Zenon
  <2>3. Visited(n) = ack
    BY <2>1, <2>2, Zenon
  <2>4. 1..0 = {}
    OBVIOUS
  <2> QED
    BY <2>3, <2>4
<1>6. above \subseteq DOMAIN buf /\ \A x \in above : x >= una
  BY <1>0
<1>7. g[0] = start
  <2>1. PICK una0 : una0 = snd_una[p]
    OBVIOUS
  <2>2. Snd(p) = SndState(una0, nxt, buf, queue)
    BY <1>0, <2>1, Zenon DEF Snd, SndState
  <2>3. ParsesUna(una0, nxt, buf, queue, una)
    BY <1>0, ParseUnaMakes, Zenon
  <2>4. PICK b : b = Only(buf, above) /\ DOMAIN b = above
    <3>1. DOMAIN Only(buf, above) = above
      BY Zenon DEF Only
    <3> QED
      BY <3>1, Zenon
  <2>5. ParseUna(Snd(p), una) = SndState(una0, nxt, b, queue)
    BY <1>0, <2>2, <2>3, <2>4, Zenon DEF ParsesUna
  <2>6. Shrinks(una0, nxt, b, queue)
    BY ShrinkMakes, Zenon
  <2>7. start = LeftState(nxt, buf, queue, above)
    BY <2>4, <2>5, <2>6, Zenon DEF Shrinks, LeftState
  <2>8. above \ Visited(0) = above
    BY <1>5
  <2> QED
    BY <1>2, <1>3, <2>7, <2>8, Zenon
<1>8. ASSUME NEW j \in 1..n PROVE g[j] = AckSegment(g[j - 1], una, order[j])
  <2>1. PICK s \in Nat : s = order[j]
    <3>1. order[j] \in ack
      BY <1>1, <1>2, Zenon
    <3> QED
      BY <3>1
  <2>2. PICK left : left = above \ Visited(j - 1) /\ left \ {s} = above \ Visited(j)
    <3>1. Visited(j) = Visited(j - 1) \cup {s}
      <4>1. \A i \in 1..j : i \in 1..j - 1 \/ i = j
        OBVIOUS
      <4>2. \A i \in 1..j - 1 : i \in 1..j
        OBVIOUS
      <4>3. j \in 1..j
        OBVIOUS
      <4> QED
        BY <2>1, <4>1, <4>2, <4>3
    <3> HIDE DEF Visited
    <3>2. (above \ Visited(j - 1)) \ {s} = above \ Visited(j)
      BY <3>1
    <3> QED
      BY <3>2, Zenon
  <2>3. g[j - 1] = LeftState(nxt, buf, queue, left) /\ g[j] = LeftState(nxt, buf, queue, left \ {s})
    BY <1>2, <1>4, <2>2, Zenon
  <2>4. left \subseteq DOMAIN buf /\ \A x \in left : x >= una
    BY <1>6, <2>2
  <2> HIDE DEF g, Visited
  <2>5. AckStep(nxt, buf, queue, left, una, s)
    BY <1>0, <2>4, AckTurns, Zenon
  <2> QED
    BY <2>1, <2>3, <2>5, Zenon DEF AckStep
<1>9. g[n] = LeftState(nxt, buf, queue, above \ ack)
  BY <1>2, <1>3, <1>5, Zenon
<1>10. g = [i \in 0..Len(order) |-> g[i]]
  BY Zenon
<1>11. AckLoop(p, una, order) = f[n]
  BY <1>2, Zenon DEF AckLoop
<1> HIDE DEF g, start
<1>12. Follows(g)
  <2>1. \A i \in 0..Len(order) :
          g[i] = IF i = 0 THEN start ELSE AckSegment(g[i - 1], una, order[i])
    BY <1>2, <1>3, <1>7, <1>8, Zenon
  <2> QED
    BY <1>10, <2>1, Zenon
<1>13. Follows(f)
  BY <1>12, Zenon
<1> HIDE DEF f
<1>14. Alike(f, g, n)
  <2>1. f[0] = g[0]
    BY <1>2, <1>3, <1>7, <1>13, Zenon
  <2>2. ASSUME NEW i \in 1..n, f[i - 1] = g[i - 1] PROVE f[i] = g[i]
    <3>1. f[i] = AckSegment(f[i - 1], una, order[i])
      BY <1>2, <1>4, <1>13, Zenon
    <3> QED
      BY <1>8, <2>2, <3>1, Zenon
  <2> QED
    BY <2>1, <2>2, TurnsAlike, Zenon
<1> QED
  BY <1>0, <1>3, <1>9, <1>11, <1>14, Zenon DEF Alike, AcksMake

-----------------------------------------------------------------------------
(* The numbering loop *)

\* The send side of p with n segments numbered.
NumState(p, n) ==
  SndState(snd_una[p], snd_nxt[p] + n, Numbered(p, n),
           SubSeq(snd_queue[p], n + 1, Len(snd_queue[p])))

NumStep(p, n, cwnd, more) ==
  NumberTurn(NumState(p, n), cwnd) = IF more THEN NumState(p, n + 1) ELSE NumState(p, n)

LEMMA NumberTurns ==
  ASSUME TypeOK, NEW p \in Peer, NEW len \in Nat, len = Len(snd_queue[p]), NEW n \in 0..len,
         NEW cwnd \in Nat, NEW more, more = (n < len /\ snd_nxt[p] + n < snd_una[p] + cwnd)
  PROVE  NumStep(p, n, cwnd, more)
<1>1. PICK queue \in Seq(Segment) : queue = snd_queue[p] /\ Len(queue) = len
  BY DEF TypeOK
<1>2. PICK una \in Nat, nxt \in Nat : una = snd_una[p] /\ nxt = snd_nxt[p]
  BY DEF TypeOK
<1>3. PICK rest \in Seq(Segment) : rest = SubSeq(queue, n + 1, len)
  <2>1. n \in 0..Len(queue)
    BY <1>1
  <2> QED
    BY <1>1, <2>1, DropType
<1>4. Len(rest) = len - n
  <2>1. n \in 0..Len(queue)
    BY <1>1
  <2> QED
    BY <1>1, <1>3, <2>1, DropType
<1>5. PICK buf : buf = Numbered(p, n)
  OBVIOUS
<1>6. PICK snd : snd = SndState(una, nxt + n, buf, rest)
  OBVIOUS
<1>7. NumState(p, n) = snd
  BY <1>1, <1>2, <1>3, <1>5, <1>6, Zenon DEF NumState
<1>8. snd.una = una /\ snd.nxt = nxt + n /\ snd.buf = buf /\ snd.queue = rest
  BY <1>6 DEF SndState
<1>0. n \in Nat /\ (more <=> n < len /\ nxt + n < una + cwnd)
  <2>1. n \in Nat
    OBVIOUS
  <2>2. more <=> n < len /\ nxt + n < una + cwnd
    BY <1>2, Zenon
  <2> QED
    BY <2>1, <2>2
<1>9. (nxt + n < una + cwnd /\ rest # <<>>) <=> more
  <2>1. rest # <<>> <=> n < len
    BY <1>4
  <2> QED
    BY <1>0, <2>1, Zenon
<1>10. CASE more
  <2>1. n + 1 \in 1..len /\ len \in n + 1 .. len
    <3>1. n < len
      BY <1>0, <1>10, Zenon
    <3> QED
      BY <3>1
  <2>2. Head(rest) = queue[n + 1] /\ Tail(rest) = SubSeq(queue, n + 2, len)
    <3>1. PICK k \in 1..len : k = n + 1 /\ k + 1 = n + 2
      BY <2>1
    <3>2. FirstOf(queue, k)
      BY <1>1, HeadOfRest, Zenon
    <3> QED
      BY <1>1, <1>3, <3>1, <3>2, Zenon DEF FirstOf
  <2>3. With(buf, nxt + n, Head(rest)) = Numbered(p, n + 1)
    <3>1. nxt .. nxt + (n + 1) - 1 = (nxt .. nxt + n - 1) \cup {nxt + n}
      <4>1. nxt \in Nat /\ n \in Nat
        BY <1>0
      <4> QED
        BY ONLY <4>1
    <3>2. DOMAIN buf = DOMAIN snd_buf[p] \cup nxt .. nxt + n - 1
      BY <1>2, <1>5 DEF Numbered
    <3>3. DOMAIN Numbered(p, n + 1) = DOMAIN buf \cup {nxt + n}
      BY <1>2, <3>1, <3>2 DEF Numbered
    <3>4. ASSUME NEW s \in DOMAIN buf PROVE buf[s] = Numbered(p, n + 1)[s]
      BY <1>5, <3>2, <3>3, Zenon DEF Numbered
    <3>5. ASSUME nxt + n \notin DOMAIN buf
          PROVE  Numbered(p, n + 1)[nxt + n] = Head(rest)
      <4>1. nxt + n - nxt + 1 = n + 1
        BY <1>0
      <4>2. nxt + n \notin DOMAIN snd_buf[p]
        BY <3>2, <3>5, Zenon
      <4>3. nxt + n \in DOMAIN snd_buf[p] \cup nxt .. nxt + (n + 1) - 1
        BY <3>1
      <4>4. PICK m : m = nxt + n
        OBVIOUS
      <4>5. Numbered(p, n + 1)[m] = snd_queue[p][m - snd_nxt[p] + 1]
        BY <1>2, <4>2, <4>3, <4>4, Zenon DEF Numbered
      <4>6. m - snd_nxt[p] + 1 = n + 1
        <5>1. snd_nxt[p] = nxt /\ nxt \in Nat /\ n \in Nat
          BY <1>0, <1>2, Zenon
        <5> QED
          BY ONLY <5>1, <4>4
      <4>7. Numbered(p, n + 1)[m] = queue[n + 1]
        BY <1>1, <4>5, <4>6, Zenon
      <4> QED
        BY <2>2, <4>4, <4>7, Zenon
    <3>6. PICK new : new = Numbered(p, n + 1) /\ DOMAIN new = DOMAIN buf \cup {nxt + n}
      BY <3>3, Zenon
    <3>7. new = [s \in DOMAIN buf \cup {nxt + n} |-> new[s]]
      <4>1. new = [s \in DOMAIN new |-> new[s]]
        BY <3>6, Zenon DEF Numbered
      <4> QED
        BY <3>6, <4>1, Zenon
    <3>8. \A s \in DOMAIN buf \cup {nxt + n} :
            new[s] = IF s \in DOMAIN buf THEN buf[s] ELSE Head(rest)
      BY <3>4, <3>5, <3>6, Zenon
    <3> QED
      BY <3>6, <3>7, <3>8, Zenon DEF With
  <2>4. NumberTurn(snd, cwnd) = [snd EXCEPT !.nxt = @ + 1, !.queue = Tail(@),
                                            !.buf = With(@, snd.nxt, Head(snd.queue))]
    BY <1>8, <1>9, <1>10, Zenon DEF NumberTurn
  <2>5. NumberTurn(snd, cwnd)
          = SndState(una, nxt + n + 1, With(buf, nxt + n, Head(rest)), Tail(rest))
    BY <1>6, <2>4 DEF SndState
  <2>6. nxt + n + 1 = nxt + (n + 1) /\ n + 2 = n + 1 + 1
    BY <1>2
  <2>7. NumState(p, n + 1)
          = SndState(una, nxt + (n + 1), Numbered(p, n + 1), SubSeq(queue, n + 1 + 1, len))
    BY <1>1, <1>2, Zenon DEF NumState
  <2> QED
    BY <1>7, <1>10, <2>2, <2>3, <2>5, <2>6, <2>7, Zenon DEF NumStep
<1>11. CASE ~more
  <2>1. NumberTurn(snd, cwnd) = snd
    BY <1>8, <1>9, <1>11, Zenon DEF NumberTurn
  <2> QED
    BY <1>7, <1>11, <2>1, Zenon DEF NumStep
<1> QED
  BY <1>10, <1>11, Zenon

\* ikcp_flush numbers while snd_queue and the windows let it.
LEMMA NumberLoopMakes ==
  ASSUME TypeOK, NEW p \in Peer, snd_buf[p] = Only(snd_buf[p], DOMAIN snd_buf[p]),
         NEW c \in Nat, NEW cwnd, cwnd = imin(c, imin(snd_wnd[p], rmt_wnd[p]))
  PROVE  NumberLoop(Snd(p), cwnd) = NumState(p, Moved(p, c))
<1>1. PICK len \in Nat : len = Len(snd_queue[p])
  BY DEF TypeOK
<1>2. PICK una \in Nat, nxt \in Nat : una = snd_una[p] /\ nxt = snd_nxt[p]
  BY DEF TypeOK
<1>3. cwnd \in Nat
  <2>1. snd_wnd[p] \in Nat /\ rmt_wnd[p] \in Nat
    BY DEF TypeOK
  <2> QED
    BY <2>1 DEF imin
<1>4. PICK total : total = Moved(p, c)
  OBVIOUS
<1>5. total = imax(0, imin(len, una + cwnd - nxt))
  BY <1>1, <1>2, <1>4, Zenon DEF Moved
<1>6. /\ total \in 0..len
      /\ \A i \in 0..total : (i < len /\ nxt + i < una + cwnd) <=> i < total
  <2>1. total = imax(0, imin(len, una + cwnd - nxt))
        /\ len \in Nat /\ una \in Nat /\ nxt \in Nat /\ cwnd \in Nat
    BY <1>3, <1>5, Zenon
  <2> QED
    BY ONLY <2>1 DEF imin, imax
<1> DEFINE start == Snd(p)
           At(i) == IF i <= total THEN i ELSE total
           g == [i \in 0..len |-> NumState(p, At(i))]
           Follows(x) == x = [i \in 0..len |->
                                IF i = 0 THEN start ELSE NumberTurn(x[i - 1], cwnd)]
           f == CHOOSE x : Follows(x)
<1>7. At(0) = 0 /\ At(len) = total /\ 0 \in 0..len /\ len \in 0..len
  BY <1>6
<1>8. ASSUME NEW i \in 1..len
      PROVE  /\ At(i - 1) \in 0..total /\ i - 1 \in 0..len /\ i \in 0..len /\ i # 0
             /\ At(i) = IF At(i - 1) < total THEN At(i - 1) + 1 ELSE At(i - 1)
  BY <1>6
<1>9. \A i \in 0..len : i = 0 \/ i \in 1..len
  OBVIOUS
<1> HIDE DEF At
<1>10. g[0] = start
  <2>1. g[0] = NumState(p, 0)
    BY <1>7, Zenon
  <2>2. SubSeq(snd_queue[p], 0 + 1, Len(snd_queue[p])) = snd_queue[p]
    <3>1. snd_queue[p] \in Seq(Segment)
      BY DEF TypeOK
    <3> QED
      BY <3>1, SubSeqFull
  <2>3. Numbered(p, 0) = snd_buf[p]
    <3>1. DOMAIN snd_buf[p] \cup snd_nxt[p] .. snd_nxt[p] + 0 - 1 = DOMAIN snd_buf[p]
      BY <1>2
    <3>2. snd_buf[p] = [s \in DOMAIN snd_buf[p] |-> snd_buf[p][s]]
      BY Zenon DEF Only
    <3> QED
      BY <3>1, <3>2 DEF Numbered
  <2>4. snd_nxt[p] + 0 = snd_nxt[p]
    BY <1>2
  <2>5. NumState(p, 0) = SndState(snd_una[p], snd_nxt[p], snd_buf[p], snd_queue[p])
    BY <2>2, <2>3, <2>4, Zenon DEF NumState
  <2> QED
    BY <2>1, <2>5, Zenon DEF Snd, SndState
<1>11. ASSUME NEW i \in 1..len PROVE g[i] = NumberTurn(g[i - 1], cwnd)
  <2>1. PICK n \in 0..total : n = At(i - 1)
    BY <1>8, Zenon
  <2>2. PICK more : more = (n < len /\ snd_nxt[p] + n < snd_una[p] + cwnd) /\ (more <=> n < total)
    BY <1>2, <1>6
  <2>3. NumStep(p, n, cwnd, more)
    <3>1. n \in 0..len
      BY <1>6
    <3> QED
      BY <1>1, <1>3, <2>2, <3>1, NumberTurns, Zenon
  <2>4. g[i - 1] = NumState(p, n) /\ g[i] = NumState(p, At(i))
    BY <1>8, <2>1, Zenon
  <2>5. At(i) = IF n < total THEN n + 1 ELSE n
    BY <1>8, <2>1, Zenon
  <2> QED
    BY <2>2, <2>3, <2>4, <2>5, Zenon DEF NumStep
<1>12. g = [i \in 0..len |-> g[i]]
  BY Zenon
<1>13. g[len] = NumState(p, total)
  BY <1>7, Zenon
<1>14. NumberLoop(Snd(p), cwnd) = f[len]
  <2>1. Snd(p).queue = snd_queue[p]
    BY DEF Snd
  <2>2. Len(Snd(p).queue) = len
    BY <1>1, <2>1, Zenon
  <2> QED
    BY <2>2, Zenon DEF NumberLoop
<1> HIDE DEF g, start
<1>15. Follows(g)
  <2>1. \A i \in 0..len : g[i] = IF i = 0 THEN start ELSE NumberTurn(g[i - 1], cwnd)
    BY <1>9, <1>10, <1>11, Zenon
  <2> QED
    BY <1>12, <2>1, Zenon
<1>16. Follows(f)
  BY <1>15, Zenon
<1> HIDE DEF f
<1>17. Alike(f, g, len)
  <2>1. f[0] = g[0]
    BY <1>7, <1>10, <1>16, Zenon
  <2>2. ASSUME NEW i \in 1..len, f[i - 1] = g[i - 1] PROVE f[i] = g[i]
    <3>1. f[i] = NumberTurn(f[i - 1], cwnd)
      BY <1>8, <1>16, Zenon
    <3> QED
      BY <1>11, <2>2, <3>1, Zenon
  <2> QED
    BY <2>1, <2>2, TurnsAlike, Zenon
<1> QED
  BY <1>4, <1>7, <1>13, <1>14, <1>17, Zenon DEF Alike

-----------------------------------------------------------------------------
(* Every step is what the loops make *)

\* What the loops rely on besides IInv: rcv_buf holds nothing that rcv_nxt has
\* passed.  Both buffers are functions.
Tidy(p) ==
  /\ Ahead(rcv_buf[p], rcv_nxt[p])
  /\ snd_buf[p] = Only(snd_buf[p], DOMAIN snd_buf[p])
LoopInv == IInv /\ \A p \in Peer : Tidy(p)

LEMMA FromIsAhead ==
  ASSUME NEW f, NEW n
  PROVE  Ahead(From(f, n), n)
<1>1. PICK h : h = From(f, n)
  OBVIOUS
<1>2. DOMAIN h = {x \in DOMAIN f : x >= n} /\ \A x \in DOMAIN h : h[x] = f[x]
  BY <1>1 DEF From
<1>3. {x \in DOMAIN h : x >= n} = DOMAIN h
  BY <1>2
<1>4. h = [x \in DOMAIN h |-> h[x]]
  BY <1>1, Zenon DEF From
<1>5. From(h, n) = h
  BY <1>3, <1>4, Zenon DEF From
<1> QED
  BY <1>1, <1>5, Zenon DEF Ahead

LEMMA OnlyIsItself ==
  ASSUME NEW f, NEW left, NEW h, h = Only(f, left)
  PROVE  h = Only(h, DOMAIN h)
BY Zenon DEF Only

LEMMA TidyStays ==
  ASSUME NEW p \in Peer, Tidy(p), UNCHANGED <<snd_buf, rcv_buf, rcv_nxt>>
  PROVE  Tidy(p)'
BY Zenon DEF Tidy

LEMMA TidyRefill ==
  ASSUME TypeOK, NEW p \in Peer, NEW q \in Peer, Tidy(q),
         NEW k, Refill(p, k), UNCHANGED snd_buf
  PROVE  Tidy(q)'
<1>1. PICK n : /\ rcv_nxt' = [rcv_nxt EXCEPT ![p] = n]
               /\ rcv_buf' = [rcv_buf EXCEPT ![p] = From(@, n)]
  BY Zenon DEF Refill, From
<1>2. DOMAIN rcv_nxt = Peer /\ DOMAIN rcv_buf = Peer
  BY DEF TypeOK
<1>3. CASE q = p
  <2>1. rcv_nxt'[q] = n /\ rcv_buf'[q] = From(rcv_buf[p], n)
    BY <1>1, <1>2, <1>3, Zenon
  <2>2. Ahead(From(rcv_buf[p], n), n)
    BY FromIsAhead, Zenon
  <2> QED
    BY <2>1, <2>2, Zenon DEF Tidy
<1>4. CASE q # p
  <2>1. rcv_nxt'[q] = rcv_nxt[q] /\ rcv_buf'[q] = rcv_buf[q]
    BY <1>1, <1>2, <1>4, Zenon
  <2> QED
    BY <2>1, Zenon DEF Tidy
<1> QED
  BY <1>3, <1>4, Zenon

LEMMA TidyFlush ==
  ASSUME TypeOK, NEW p \in Peer, NEW q \in Peer, Tidy(q),
         NEW c, NEW resend, NEW due, Flush(p, c, resend, due)
  PROVE  Tidy(q)'
<1>1. PICK buf : /\ snd_buf' = [snd_buf EXCEPT ![p] = buf]
                 /\ buf = Numbered(p, Moved(p, c))
                 /\ UNCHANGED <<rcv_nxt, rcv_buf>>
  BY Zenon DEF Flush
<1>2. buf = Only(buf, DOMAIN buf)
  BY <1>1, Zenon DEF Numbered, Only
<1>3. snd_buf'[q] = buf \/ snd_buf'[q] = snd_buf[q]
  <2>1. DOMAIN snd_buf = Peer
    BY DEF TypeOK
  <2> QED
    BY <1>1, <2>1
<1> QED
  BY <1>1, <1>2, <1>3, Zenon DEF Tidy

LEMMA TidyInput ==
  ASSUME TypeOK, NEW p \in Peer, NEW q \in Peer, Tidy(q), NEW d, Input(p, d)
  PROVE  Tidy(q)'
<1>1. PICK n, seg : /\ rcv_nxt' = [rcv_nxt EXCEPT ![p] = n]
                    /\ rcv_buf' = [rcv_buf EXCEPT ![p] = From(seg, n)]
  <2>1. PICK n, seg : n = RcvNxtAfter(p, d.push) /\ seg = Received(p, d.push)
    OBVIOUS
  <2>2. rcv_nxt' = [rcv_nxt EXCEPT ![p] = n]
    BY <2>1, Zenon DEF Input, InputPushes
  <2>3. rcv_buf' = [rcv_buf EXCEPT ![p] = From(seg, n)]
    BY <2>1, Zenon DEF Input, InputPushes, From
  <2> QED
    BY <2>2, <2>3, Zenon
<1>2. PICK left : snd_buf' = [snd_buf EXCEPT ![p] = Only(@, left)]
  BY Zenon DEF Input, InputAcks, Only
<1>3. DOMAIN rcv_nxt = Peer /\ DOMAIN rcv_buf = Peer /\ DOMAIN snd_buf = Peer
  BY DEF TypeOK
<1>4. CASE q = p
  <2>1. rcv_nxt'[q] = n /\ rcv_buf'[q] = From(seg, n)
    BY <1>1, <1>3, <1>4, Zenon
  <2>2. Ahead(From(seg, n), n)
    BY FromIsAhead, Zenon
  <2>3. snd_buf'[q] = Only(snd_buf[q], left)
    BY <1>2, <1>3, <1>4, Zenon
  <2>4. snd_buf'[q] = Only(snd_buf'[q], DOMAIN snd_buf'[q])
    BY <2>3, Zenon DEF Only
  <2> QED
    BY <2>1, <2>2, <2>4, Zenon DEF Tidy
<1>5. CASE q # p
  <2>1. rcv_nxt'[q] = rcv_nxt[q] /\ rcv_buf'[q] = rcv_buf[q] /\ snd_buf'[q] = snd_buf[q]
    BY <1>1, <1>2, <1>3, <1>5, Zenon
  <2> QED
    BY <2>1, Zenon DEF Tidy
<1> QED
  BY <1>4, <1>5, Zenon

LEMMA LoopInvInit == Init => LoopInv
<1> SUFFICES ASSUME Init PROVE LoopInv
  OBVIOUS
<1>1. IInv
  BY InitIInv
<1>2. ASSUME NEW p \in Peer PROVE Tidy(p)
  <2>1. snd_buf[p] = <<>> /\ rcv_buf[p] = <<>> /\ rcv_nxt[p] = 0
    BY <1>2 DEF Init
  <2>2. PICK none : none = <<>> /\ DOMAIN none = {} /\ none = [x \in {} |-> none[x]]
    BY SMT
  <2>3. {x \in DOMAIN none : x >= 0} = {}
    BY <2>2
  <2>4. From(none, 0) = none /\ Only(none, DOMAIN none) = none
    BY <2>2, <2>3, Zenon DEF From, Only
  <2> QED
    BY <2>1, <2>2, <2>4, Zenon DEF Tidy, Ahead
<1> QED
  BY <1>1, <1>2 DEF LoopInv

LEMMA LoopInvStep == LoopInv /\ [Next]_vars => LoopInv'
<1> SUFFICES ASSUME LoopInv, [Next]_vars PROVE LoopInv'
  OBVIOUS
<1>0. IInv /\ TypeOK /\ IInv'
  BY IInvStep DEF LoopInv, IInv
<1> SUFFICES ASSUME NEW q \in Peer PROVE Tidy(q)'
  BY <1>0, Zenon DEF LoopInv
<1>1. Tidy(q)
  BY Zenon DEF LoopInv
<1>2. ASSUME NEW p \in Peer, NEW count \in Counts, Send(p, count) PROVE Tidy(q)'
  <2>1. UNCHANGED <<snd_buf, rcv_buf, rcv_nxt>>
    BY <1>2 DEF Send, rcvVars
  <2> QED
    BY <1>1, <2>1, TidyStays
<1>3. ASSUME NEW p \in Peer, Recv(p) PROVE Tidy(q)'
  <2>1. PICK k : Refill(p, k)
    BY <1>3, Zenon DEF Recv
  <2>2. UNCHANGED snd_buf
    BY <1>3 DEF Recv, sndVars
  <2> QED
    BY <1>0, <1>1, <2>1, <2>2, TidyRefill, Zenon
<1>4. ASSUME NEW p \in Peer, Peek(p) PROVE Tidy(q)'
  <2>1. Refill(p, 0)
    BY <1>4, Zenon DEF Peek
  <2>2. UNCHANGED snd_buf
    BY <1>4 DEF Peek, sndVars
  <2> QED
    BY <1>0, <1>1, <2>1, <2>2, TidyRefill, Zenon
<1>5. ASSUME NEW p \in Peer, NEW sndwnd \in SndWnds[p], NEW rcvwnd \in RcvWnds[p],
             WndSize(p, sndwnd, rcvwnd)
      PROVE  Tidy(q)'
  <2>1. UNCHANGED <<snd_buf, rcv_buf, rcv_nxt>>
    BY <1>5 DEF WndSize, sndVars, rcvVars
  <2> QED
    BY <1>1, <2>1, TidyStays
<1>6. ASSUME NEW p \in Peer, AnyFlush(p) PROVE Tidy(q)'
  <2>1. PICK c, resend, due : Flush(p, c, resend, due)
    BY <1>6, Zenon DEF AnyFlush
  <2> QED
    BY <1>0, <1>1, <2>1, TidyFlush, Zenon
<1>7. ASSUME NEW p \in Peer, Deliver(p) \/ DeliverCopy(p) PROVE Tidy(q)'
  <2>1. PICK d : Input(p, d)
    BY <1>7, Zenon DEF Deliver, DeliverCopy
  <2> QED
    BY <1>0, <1>1, <2>1, TidyInput, Zenon
<1>8. CASE Lose
  <2>1. UNCHANGED <<snd_buf, rcv_buf, rcv_nxt>>
    BY <1>8 DEF Lose, sndVars, rcvVars
  <2> QED
    BY <1>1, <2>1, TidyStays
<1>9. CASE UNCHANGED vars
  <2>1. UNCHANGED <<snd_buf, rcv_buf, rcv_nxt>>
    BY <1>9 DEF vars, sndVars, rcvVars
  <2> QED
    BY <1>1, <2>1, TidyStays
<1> QED
  BY <1>2, <1>3, <1>4, <1>5, <1>6, <1>7, <1>8, <1>9 DEF Next

\* Numbers below snd_nxt only, so finitely many, are kept, carried and
\* acknowledged.
LEMMA FiniteNumbers ==
  ASSUME NEW S, NEW n \in Nat, \A s \in S : s \in Nat /\ s < n
  PROVE  IsFiniteSet(S) /\ S \subseteq 0..n - 1
<1>1. S \in SUBSET Nat /\ \A s \in S : s <= n
  OBVIOUS
<1>2. IsFiniteSet(S)
  BY <1>1, FS_BoundedSetOfNaturals
<1> QED
  BY <1>2

LEMMA NumbersAreFinite ==
  ASSUME IInv, NEW p \in Peer, NEW d \in net, d.to = p
  PROVE  /\ IsFiniteSet(DOMAIN d.push) /\ IsFiniteSet(d.ack)
         /\ DOMAIN snd_buf[p] \subseteq 0..snd_nxt[p] - 1
<1>1. PICK q \in Peer : q = Remote(p) /\ Remote(q) = p
  BY RemoteFacts
<1>2. Direction(p) /\ Direction(q) /\ Truthful(d) /\ TypeOK
  BY DEF IInv
<1>3. snd_nxt[p] \in Nat /\ snd_nxt[q] \in Nat /\ rcv_nxt[q] \in Nat
  BY <1>2 DEF TypeOK
<1>4. DatagramOK(d) /\ IsBuffer(snd_buf[p]) /\ IsBuffer(rcv_buf[q])
  BY <1>2 DEF TypeOK
<1>5. IsFiniteSet(DOMAIN d.push)
  <2>1. \A s \in DOMAIN d.push : s \in Nat /\ s < snd_nxt[q]
    BY <1>1, <1>2, <1>4 DEF Truthful, Agrees, DatagramOK
  <2> QED
    BY <1>3, <2>1, FiniteNumbers, Zenon
<1>6. IsFiniteSet(d.ack)
  <2>1. ASSUME NEW s \in d.ack PROVE s \in Nat /\ s < snd_nxt[p]
    <3>1. s \in 0 .. rcv_nxt[q] - 1 \/ s \in DOMAIN rcv_buf[q]
      BY <1>1, <1>2 DEF Truthful, Held
    <3>2. rcv_nxt[q] <= snd_nxt[p]
      BY <1>1, <1>2, Zenon DEF Direction
    <3>3. Agrees(p, rcv_buf[q])
      BY <1>1, <1>2, Zenon DEF Direction
    <3>4. CASE s \in 0 .. rcv_nxt[q] - 1
      BY <1>3, <3>2, <3>4
    <3>5. CASE s \in DOMAIN rcv_buf[q]
      BY <1>4, <3>3, <3>5 DEF Agrees, IsBuffer
    <3> QED
      BY <3>1, <3>4, <3>5
  <2> QED
    BY <1>3, <2>1, FiniteNumbers, Zenon
<1>7. DOMAIN snd_buf[p] \subseteq 0..snd_nxt[p] - 1
  <2>1. \A s \in DOMAIN snd_buf[p] : s \in Nat /\ s < snd_nxt[p]
    BY <1>2, <1>4 DEF Direction, Agrees, IsBuffer
  <2> QED
    BY <1>3, <2>1, FiniteNumbers, Zenon
<1> QED
  BY <1>5, <1>6, <1>7

LEMMA PushesAreTheLoop ==
  ASSUME LoopInv, NEW p \in Peer, NEW d \in net, Input(p, d),
         NEW order \in Ascending(DOMAIN d.push)
  PROVE  Rcv(p)' = PushLoop(p, d.push, order)
<1>1. TypeOK /\ IInv /\ Tidy(p) /\ d.to = p
  BY Zenon DEF LoopInv, IInv, Input
<1>2. PICK push : push = d.push /\ IsBuffer(push) /\ IsFiniteSet(DOMAIN push)
  <2>1. IsBuffer(d.push)
    BY <1>1 DEF TypeOK, DatagramOK, IsBuffer
  <2>2. IsFiniteSet(DOMAIN d.push)
    BY <1>1, NumbersAreFinite
  <2> QED
    BY <2>1, <2>2
<1>3. PICK n, f, acks : /\ n = RcvNxtAfter(p, push) /\ f = Received(p, push)
                        /\ acks = acklist[p] \cup Acknowledged(p, push)
  OBVIOUS
<1>4. /\ acklist' = [acklist EXCEPT ![p] = acks]
      /\ rcv_nxt' = [rcv_nxt EXCEPT ![p] = n]
      /\ rcv_buf' = [rcv_buf EXCEPT ![p] = From(f, n)]
      /\ rcv_queue' = [rcv_queue EXCEPT ![p] = MovedTo(rcv_queue[p], f, rcv_nxt[p], n)]
  <2>1. acklist' = [acklist EXCEPT ![p] = @ \cup Acknowledged(p, push)]
    BY <1>2, Zenon DEF Input, InputPushes
  <2>2. rcv_nxt' = [rcv_nxt EXCEPT ![p] = n]
    BY <1>2, <1>3, Zenon DEF Input, InputPushes
  <2>3. rcv_buf' = [rcv_buf EXCEPT ![p] = From(f, n)]
    BY <1>2, <1>3, Zenon DEF Input, InputPushes, From
  <2>4. rcv_queue' = [rcv_queue EXCEPT ![p] = MovedTo(@, f, rcv_nxt[p], n)]
    BY <1>2, <1>3, Zenon DEF Input, InputPushes
  <2> QED
    BY <1>3, <2>1, <2>2, <2>3, <2>4, Zenon
<1>5. /\ acklist'[p] = acks /\ rcv_nxt'[p] = n /\ rcv_buf'[p] = From(f, n)
      /\ rcv_queue'[p] = MovedTo(rcv_queue[p], f, rcv_nxt[p], n)
  <2>1. DOMAIN acklist = Peer /\ DOMAIN rcv_nxt = Peer /\ DOMAIN rcv_buf = Peer
        /\ DOMAIN rcv_queue = Peer
    BY <1>1 DEF TypeOK
  <2> QED
    BY <1>4, <2>1, Zenon
<1>6. Rcv(p)' = RcvState(n, From(f, n), MovedTo(rcv_queue[p], f, rcv_nxt[p], n), acks)
  BY <1>5, Zenon DEF Rcv, RcvState
<1>7. f = Taking(rcv_buf[p], push, Parsed(p, push)) /\ n = PushEnd(p, Parsed(p, push))
  BY <1>3, Zenon DEF Received, Taking, RcvNxtAfter, PushEnd
<1>8. Rcv(p)' = PushState(p, push, Parsed(p, push), acks)
  BY <1>6, <1>7, Zenon DEF PushState, MoveState
<1>9. PushLoop(p, push, order) = PushState(p, push, Parsed(p, push), acks)
  <2>1. order \in Ascending(DOMAIN push) /\ Ahead(rcv_buf[p], rcv_nxt[p])
    BY <1>1, <1>2, Zenon DEF Tidy
  <2> QED
    BY <1>1, <1>2, <1>3, <2>1, PushLoopMakes
<1> QED
  BY <1>2, <1>8, <1>9, Zenon

LEMMA AcksAreTheLoop ==
  ASSUME LoopInv, NEW p \in Peer, NEW d \in net, Input(p, d), NEW order \in SetToSeqs(d.ack)
  PROVE  Snd(p)' = AckLoop(p, d.una, order)
<1>1. TypeOK /\ IInv /\ Tidy(p) /\ d.to = p
  BY Zenon DEF LoopInv, IInv, Input
<1>2. PICK una \in Nat, ack \in SUBSET Nat : una = d.una /\ ack = d.ack /\ IsFiniteSet(ack)
  <2>1. d.una \in Nat /\ d.ack \subseteq Nat
    BY <1>1 DEF TypeOK, DatagramOK
  <2>2. IsFiniteSet(d.ack)
    BY <1>1, NumbersAreFinite
  <2> QED
    BY <2>1, <2>2
<1>3. PICK nxt \in Nat : nxt = snd_nxt[p] /\ DOMAIN snd_buf[p] \subseteq 0..nxt - 1
  <2>1. snd_nxt[p] \in Nat
    BY <1>1 DEF TypeOK
  <2>2. DOMAIN snd_buf[p] \subseteq 0..snd_nxt[p] - 1
    BY <1>1, NumbersAreFinite
  <2> QED
    BY <2>1, <2>2, Zenon
<1>4. PICK above : above = {s \in DOMAIN snd_buf[p] : s >= una}
  OBVIOUS
<1>5. above \in SUBSET Nat /\ \A s \in above : s < nxt
  BY <1>3, <1>4
<1>6. StillUnacked(p, d) = above \ ack
  <2>1. PICK low \in Nat : low = LowestUnacked(above, nxt) /\ \A s \in above : low <= s
    BY <1>5, LowestUnackedFacts
  <2>2. StillUnacked(p, d) = above \ {s \in ack : s >= low /\ s < nxt}
    BY <1>2, <1>3, <1>4, <2>1, Zenon DEF StillUnacked
  <2>3. \A s \in above : s >= low /\ s < nxt
    BY <1>5, <2>1
  <2> QED
    BY <2>2, <2>3
<1>7. PICK left : left = above \ ack
  OBVIOUS
<1>8. /\ snd_buf' = [snd_buf EXCEPT ![p] = Only(snd_buf[p], left)]
      /\ snd_una' = [snd_una EXCEPT ![p] = LowestUnacked(left, nxt)]
  <2>1. snd_buf' = [snd_buf EXCEPT ![p] = [s \in left |-> @[s]]]
    BY <1>6, <1>7, Zenon DEF Input, InputAcks
  <2>2. snd_una' = [snd_una EXCEPT ![p] = LowestUnacked(left, snd_nxt[p])]
    BY <1>6, <1>7, Zenon DEF Input, InputAcks
  <2> QED
    BY <1>3, <2>1, <2>2, Zenon DEF Only
<1>9. snd_buf'[p] = Only(snd_buf[p], left) /\ snd_una'[p] = LowestUnacked(left, nxt)
      /\ snd_nxt'[p] = nxt /\ snd_queue'[p] = snd_queue[p]
  <2>1. DOMAIN snd_buf = Peer /\ DOMAIN snd_una = Peer
    BY <1>1 DEF TypeOK
  <2>2. snd_nxt' = snd_nxt /\ snd_queue' = snd_queue
    BY Zenon DEF Input
  <2> QED
    BY <1>3, <1>8, <2>1, <2>2, Zenon
<1>10. Snd(p)' = LeftState(nxt, snd_buf[p], snd_queue[p], left)
  BY <1>9, Zenon DEF Snd, SndState, LeftState
<1>11. AckLoop(p, una, order) = LeftState(snd_nxt[p], snd_buf[p], snd_queue[p], above \ ack)
  <2>1. order \in SetToSeqs(ack) /\ snd_buf[p] = Only(snd_buf[p], DOMAIN snd_buf[p])
        /\ DOMAIN snd_buf[p] \subseteq 0..snd_nxt[p] - 1
    BY <1>1, <1>2, <1>3, Zenon DEF Tidy
  <2> QED
    <3>1. AcksMake(p, una, ack, order, above)
      BY <1>1, <1>2, <1>4, <2>1, AckLoopMakes, Zenon
    <3> QED
      BY <3>1, Zenon DEF AcksMake
<1> QED
  BY <1>2, <1>3, <1>7, <1>10, <1>11, Zenon

LEMMA NumberingIsTheLoop ==
  ASSUME LoopInv, NEW p \in Peer, NEW c \in Nat, NEW resend, NEW due, Flush(p, c, resend, due)
  PROVE  Snd(p)' = NumberLoop(Snd(p), imin(c, imin(snd_wnd[p], rmt_wnd[p])))
<1>1. TypeOK /\ Tidy(p)
  BY Zenon DEF LoopInv, IInv
<1>2. PICK n : n = Moved(p, c)
  OBVIOUS
<1>3. /\ snd_queue' = [snd_queue EXCEPT ![p] = SubSeq(@, n + 1, Len(@))]
      /\ snd_buf' = [snd_buf EXCEPT ![p] = Numbered(p, n)]
      /\ snd_nxt' = [snd_nxt EXCEPT ![p] = @ + n]
      /\ snd_una' = snd_una
  <2>1. snd_queue' = [snd_queue EXCEPT ![p] = SubSeq(@, n + 1, Len(@))]
    BY <1>2, Zenon DEF Flush
  <2>2. snd_buf' = [snd_buf EXCEPT ![p] = Numbered(p, n)]
    BY <1>2, Zenon DEF Flush
  <2>3. snd_nxt' = [snd_nxt EXCEPT ![p] = @ + n] /\ snd_una' = snd_una
    BY <1>2, Zenon DEF Flush
  <2> QED
    BY <2>1, <2>2, <2>3, Zenon
<1>4. /\ snd_queue'[p] = SubSeq(snd_queue[p], n + 1, Len(snd_queue[p]))
      /\ snd_buf'[p] = Numbered(p, n) /\ snd_nxt'[p] = snd_nxt[p] + n
      /\ snd_una'[p] = snd_una[p]
  <2>1. DOMAIN snd_queue = Peer /\ DOMAIN snd_buf = Peer /\ DOMAIN snd_nxt = Peer
    BY <1>1 DEF TypeOK
  <2> QED
    BY <1>3, <2>1, Zenon
<1>5. Snd(p)' = NumState(p, n)
  BY <1>4, Zenon DEF Snd, SndState, NumState
<1>6. PICK cwnd : cwnd = imin(c, imin(snd_wnd[p], rmt_wnd[p]))
  OBVIOUS
<1>7. NumberLoop(Snd(p), cwnd) = NumState(p, Moved(p, c))
  <2>1. snd_buf[p] = Only(snd_buf[p], DOMAIN snd_buf[p])
    BY <1>1, Zenon DEF Tidy
  <2> QED
    BY <1>1, <1>6, <2>1, NumberLoopMakes
<1> QED
  BY <1>2, <1>5, <1>6, <1>7, Zenon

\* InputIsTheLoop: whatever a datagram holds, ikcp_input in KcpArq leaves what
\* its loop over the segments leaves.
THEOREM InputRunsTheLoops == Spec => InputIsTheLoop
<1>1. ASSUME LoopInv, NEW p \in Peer, NEW d \in net, Input(p, d)
      PROVE  /\ \A order \in Ascending(DOMAIN d.push) : Rcv(p)' = PushLoop(p, d.push, order)
             /\ \A order \in SetToSeqs(d.ack) : Snd(p)' = AckLoop(p, d.una, order)
  <2>1. ASSUME NEW order \in Ascending(DOMAIN d.push)
        PROVE  Rcv(p)' = PushLoop(p, d.push, order)
    BY <1>1, PushesAreTheLoop
  <2>2. ASSUME NEW order \in SetToSeqs(d.ack)
        PROVE  Snd(p)' = AckLoop(p, d.una, order)
    BY <1>1, AcksAreTheLoop
  <2> QED
    BY <2>1, <2>2
<1> DEFINE Step == \A p \in Peer, d \in net :
       Input(p, d) =>
         /\ \A order \in Ascending(DOMAIN d.push) :
              Rcv(p)' = PushLoop(p, d.push, order)
         /\ \A order \in SetToSeqs(d.ack) : Snd(p)' = AckLoop(p, d.una, order)
<1>2. LoopInv /\ [Next]_vars => [Step]_vars
  BY <1>1, Zenon
<1>3. InputIsTheLoop <=> [][Step]_vars
  BY DEF InputIsTheLoop
<1> HIDE DEF Step
<1> QED
  BY LoopInvInit, LoopInvStep, <1>2, <1>3, PTL DEF Spec

\* CallsAreTheLoops: ikcp_recv, also when it peeks, and ikcp_flush leave in
\* KcpArq what their loops leave.
THEOREM CallsRunTheLoops == Spec => CallsAreTheLoops
<1> DEFINE Step(p) ==
       /\ Recv(p) => Rcv(p)' = RecvLoop(p)
       /\ Peek(p) => Rcv(p)' = MoveLoop(Rcv(p), rcv_wnd[p])
       /\ \A c \in 0..snd_wnd[p] :
            \/ Snd(p)' = NumberLoop(Snd(p), imin(c, imin(snd_wnd[p], rmt_wnd[p])))
            \/ \A resend \in SUBSET DOMAIN snd_buf[p], due \in BOOLEAN :
                 ~Flush(p, c, resend, due)
       All == \A p \in Peer : Step(p)
<1>1. ASSUME LoopInv, NEW p \in Peer PROVE Step(p)
  <2>1. TypeOK /\ Ahead(rcv_buf[p], rcv_nxt[p])
    BY <1>1, Zenon DEF LoopInv, IInv, Tidy
  <2>2. Recv(p) => Rcv(p)' = RecvLoop(p)
    BY <2>1, RecvIsTheLoop
  <2>3. Peek(p) => Rcv(p)' = MoveLoop(Rcv(p), rcv_wnd[p])
    BY <2>1, PeekIsTheLoop
  <2>4. ASSUME NEW c \in 0..snd_wnd[p], NEW resend, NEW due, Flush(p, c, resend, due)
        PROVE  Snd(p)' = NumberLoop(Snd(p), imin(c, imin(snd_wnd[p], rmt_wnd[p])))
    <3>1. c \in Nat
      BY <2>1 DEF TypeOK
    <3> QED
      BY <1>1, <2>4, <3>1, NumberingIsTheLoop
  <2> QED
    BY <2>2, <2>3, <2>4, Zenon
<1>2. LoopInv /\ [Next]_vars => [All]_vars
  BY <1>1, Zenon
<1>3. CallsAreTheLoops <=> [][All]_vars
  BY DEF CallsAreTheLoops
<1> HIDE DEF All
<1> QED
  BY LoopInvInit, LoopInvStep, <1>2, <1>3, PTL DEF Spec

-----------------------------------------------------------------------------
(* The 32-bit numbers *)

\* The same for numbers of the conversation, and equality.
LEMMA SeenExact ==
  ASSUME NEW a \in Int, NEW b \in Int, -H <= a - b, a - b < H
  PROVE  Seen(a, b) = a - b /\ (SameNumber(a, b) <=> a = b)
<1>1. Origin \in Int /\ H \in Nat \ {0}
  BY WrapAssumption, HalfRangeAssumption
<1>2. Seen(a, b) = a - b
  <2>1. (Origin + a) - (Origin + b) = a - b
    BY <1>1
  <2> QED BY <1>1, <2>1, DiffExact DEF Seen, Field
<1>3. ASSUME SameNumber(a, b) PROVE a = b
  <2>1. Cut(Origin + a) = Cut(Origin + b)
    BY <1>3 DEF SameNumber, Field
  <2>2. Seen(a, b) = Diff(Cut(Origin + a), Cut(Origin + a))
    BY <2>1 DEF Seen, Field
  <2>3. Diff(Cut(Origin + a), Cut(Origin + a)) = 0
    <3>1. (Origin + a) - (Origin + a) = 0 /\ Origin + a \in Int
      BY <1>1
    <3> QED BY <1>1, <3>1, DiffExact
  <2> QED BY <1>2, <2>2, <2>3
<1> QED BY <1>2, <1>3 DEF SameNumber

-----------------------------------------------------------------------------
(* The windows *)

\* Both windows stay within W, what is in flight within the send window, and
\* what waits out of order within the receive window.
Windows(p) ==
  /\ snd_wnd[p] <= W /\ rcv_wnd[p] <= W
  /\ snd_nxt[p] <= snd_una[p] + W
  /\ \A s \in DOMAIN rcv_buf[p] : rcv_nxt[p] <= s /\ s < rcv_nxt[p] + W

WInv == IInv /\ \A p \in Peer : Windows(p)

\* What a step does to the numbers of an endpoint, ikcp_flush apart.
Steady(p) ==
  /\ snd_nxt'[p] = snd_nxt[p] \/ snd_nxt'[p] <= snd_una[p] + W
  /\ \/ rcv_nxt'[p] = rcv_nxt[p] /\ rcv_buf'[p] = rcv_buf[p]
     \/ /\ rcv_nxt[p] <= rcv_nxt'[p]
        /\ \A s \in DOMAIN rcv_buf'[p] : rcv_nxt'[p] <= s
  /\ snd_wnd'[p] <= W /\ rcv_wnd'[p] <= W

LEMMA SteadyKeepsWindows ==
  ASSUME WInv, IInv', [Next]_vars, NEW p \in Peer, Steady(p)
  PROVE  Windows(p)'
<1>1. /\ TypeOK /\ Windows(p) /\ W \in Nat
      /\ snd_una'[p] >= snd_una[p] /\ GrowsInWindow(p)
  BY UnaStep, GrowsStep, WrapAssumption DEF WInv, IInv
<1>2. /\ snd_una[p] \in Nat /\ snd_una'[p] \in Nat /\ snd_nxt[p] \in Nat
      /\ snd_nxt'[p] \in Nat /\ rcv_nxt[p] \in Nat /\ rcv_nxt'[p] \in Nat
      /\ rcv_wnd[p] \in Nat /\ DOMAIN rcv_buf'[p] \subseteq Nat
  BY <1>1 DEF IInv, TypeOK, IsBuffer
<1>3. snd_nxt'[p] <= snd_una'[p] + W
  BY <1>1, <1>2 DEF Steady, Windows
<1>4. ASSUME NEW s \in DOMAIN rcv_buf'[p]
      PROVE  rcv_nxt'[p] <= s /\ s < rcv_nxt'[p] + W
  <2>1. CASE rcv_nxt'[p] = rcv_nxt[p] /\ rcv_buf'[p] = rcv_buf[p]
    BY <1>1, <2>1 DEF Windows
  <2>2. CASE /\ rcv_nxt[p] <= rcv_nxt'[p]
             /\ \A x \in DOMAIN rcv_buf'[p] : rcv_nxt'[p] <= x
    <3>1. s \in DOMAIN rcv_buf[p] \/ s < rcv_nxt'[p] + rcv_wnd[p]
      BY <1>1 DEF GrowsInWindow
    <3>2. s \in DOMAIN rcv_buf[p] => s < rcv_nxt[p] + W
      BY <1>1 DEF Windows
    <3>3. s \in Nat /\ rcv_wnd[p] <= W
      BY <1>1, <1>2 DEF Windows
    <3> QED BY <1>1, <1>2, <2>2, <3>1, <3>2, <3>3
  <2> QED BY <2>1, <2>2 DEF Steady
<1> QED BY <1>3, <1>4 DEF Steady, Windows

\* The move loops leave nothing below rcv_nxt in rcv_buf.
LEMMA MoveSteady ==
  ASSUME WInv, NEW p \in Peer, NEW n \in Nat, rcv_nxt[p] <= n, NEW f,
         rcv_nxt' = [rcv_nxt EXCEPT ![p] = n],
         rcv_buf' = [rcv_buf EXCEPT ![p] = [s \in {x \in DOMAIN f : x >= n} |-> f[s]]],
         UNCHANGED <<snd_nxt, wndVars>>
  PROVE  \A x \in Peer : Steady(x)
<1>1. TypeOK
  BY DEF WInv, IInv
<1>2. ASSUME NEW x \in Peer PROVE Steady(x)
  <2>1. snd_nxt'[x] = snd_nxt[x] /\ snd_wnd'[x] <= W /\ rcv_wnd'[x] <= W
    BY DEF WInv, Windows, wndVars
  <2>2. CASE x = p
    <3>1. rcv_nxt'[p] = n /\ \A s \in DOMAIN rcv_buf'[p] : n <= s
      <4>1. DOMAIN rcv_buf'[p] = {s \in DOMAIN f : s >= n} /\ rcv_nxt'[p] = n
        BY <1>1 DEF TypeOK
      <4> QED BY <4>1
    <3> QED BY <2>1, <2>2, <3>1 DEF Steady
  <2>3. CASE x # p
    BY <1>1, <2>1, <2>3 DEF Steady, TypeOK
  <2> QED BY <2>2, <2>3
<1> QED BY <1>2

LEMMA StillSteady ==
  ASSUME WInv, NEW p \in Peer, UNCHANGED <<snd_nxt, rcv_nxt, rcv_buf>>,
         snd_wnd'[p] <= W, rcv_wnd'[p] <= W
  PROVE  Steady(p)
BY DEF Steady

LEMMA InputSteady ==
  ASSUME WInv, NEW p \in Peer, NEW d \in net, Input(p, d)
  PROVE  \A x \in Peer : Steady(x)
<1>1. TypeOK /\ IsBuffer(d.push) /\ InputPushes(p, d.push)
  BY DEF WInv, IInv, TypeOK, DatagramOK, IsBuffer, Input
<1>2. PICK n \in Nat : n = RcvNxtAfter(p, d.push) /\ rcv_nxt[p] <= n
  BY <1>1, RcvNxtAfterFacts
<1>3. PICK f : f = Received(p, d.push)
  OBVIOUS
<1>4. /\ rcv_nxt' = [rcv_nxt EXCEPT ![p] = n]
      /\ rcv_buf' = [rcv_buf EXCEPT ![p] = [s \in {x \in DOMAIN f : x >= n} |-> f[s]]]
  BY <1>1, <1>2, <1>3 DEF InputPushes
<1>5. UNCHANGED <<snd_nxt, wndVars>>
  BY DEF Input
<1> QED BY <1>2, <1>4, <1>5, MoveSteady

LEMMA RefillSteady ==
  ASSUME WInv, NEW p \in Peer, NEW k \in 0..Len(rcv_queue[p]), Refill(p, k),
         UNCHANGED <<snd_nxt, wndVars>>
  PROVE  \A x \in Peer : Steady(x)
<1>1. TypeOK
  BY DEF WInv, IInv
<1>2. PICK n \in Nat :
        /\ rcv_nxt[p] <= n
        /\ rcv_nxt' = [rcv_nxt EXCEPT ![p] = n]
        /\ rcv_buf' = [rcv_buf EXCEPT ![p] = [s \in {x \in DOMAIN @ : x >= n} |-> @[s]]]
  BY <1>1, RefillFacts, ZenonT(40)
<1>3. PICK f : f = rcv_buf[p]
  OBVIOUS
<1>4. rcv_buf' = [rcv_buf EXCEPT ![p] = [s \in {x \in DOMAIN f : x >= n} |-> f[s]]]
  BY <1>2, <1>3
<1> QED BY <1>2, <1>4, MoveSteady

\* ikcp_flush numbers segments up to the smallest of its windows.
LEMMA FlushSteady ==
  ASSUME WInv, NEW p \in Peer, AnyFlush(p)
  PROVE  \A x \in Peer : Steady(x)
<1>1. TypeOK /\ W \in Nat
  BY WrapAssumption DEF WInv, IInv
<1>2. PICK c \in Nat, resend \in SUBSET DOMAIN snd_buf[p], due \in BOOLEAN :
        Flush(p, c, resend, due)
  BY <1>1 DEF AnyFlush, TypeOK
<1>3. PICK n : n = Moved(p, c)
  OBVIOUS
<1>4. /\ snd_nxt' = [snd_nxt EXCEPT ![p] = @ + n]
      /\ UNCHANGED <<rcv_nxt, rcv_buf, wndVars>>
  BY <1>2, <1>3 DEF Flush
<1>5. snd_nxt'[p] = snd_nxt[p] \/ snd_nxt'[p] <= snd_una[p] + W
  <2>1. PICK w \in Int : w = imin(c, imin(snd_wnd[p], rmt_wnd[p])) /\ w <= W
    <3>1. PICK v \in Int : v = imin(snd_wnd[p], rmt_wnd[p]) /\ v <= snd_wnd[p]
      <4>1. snd_wnd[p] \in Int /\ rmt_wnd[p] \in Int
        BY <1>1 DEF TypeOK
      <4> QED BY <4>1, MinMaxFacts
    <3>2. imin(c, v) \in Int /\ imin(c, v) <= v
      BY MinMaxFacts
    <3>3. snd_wnd[p] \in Int /\ snd_wnd[p] <= W
      BY <1>1 DEF TypeOK, WInv, Windows
    <3> QED BY <1>1, <3>1, <3>2, <3>3
  <2>2. PICK len \in Nat : len = Len(snd_queue[p])
    BY <1>1, LenProperties DEF TypeOK
  <2>3. PICK una \in Nat, nxt \in Nat : una = snd_una[p] /\ nxt = snd_nxt[p]
    BY <1>1 DEF TypeOK
  <2>4. n = imax(0, imin(len, una + w - nxt))
    BY <1>3, <2>1, <2>2, <2>3 DEF Moved
  <2>5. n = 0 \/ nxt + n <= una + W
    BY <1>1, <2>1, <2>4 DEF imin, imax
  <2>6. snd_nxt'[p] = nxt + n
    BY <1>1, <1>4, <2>3 DEF TypeOK
  <2> QED BY <2>3, <2>5, <2>6
<1>6. ASSUME NEW x \in Peer PROVE Steady(x)
  <2>1. snd_wnd'[x] <= W /\ rcv_wnd'[x] <= W
    BY <1>4 DEF WInv, Windows, wndVars
  <2>2. snd_nxt'[x] = snd_nxt[x] \/ snd_nxt'[x] <= snd_una[x] + W
    BY <1>1, <1>4, <1>5 DEF TypeOK
  <2> QED BY <1>4, <2>1, <2>2 DEF Steady
<1> QED BY <1>6

LEMMA WndSizeSteady ==
  ASSUME WInv, NEW p \in Peer, NEW sndwnd \in SndWnds[p],
         NEW rcvwnd \in RcvWnds[p], WndSize(p, sndwnd, rcvwnd)
  PROVE  \A x \in Peer : Steady(x)
<1>1. TypeOK
  BY DEF WInv, IInv
<1>2. sndwnd <= W /\ imax(rcvwnd, WND_RCV) <= W
  BY WrapAssumption DEF imax
<1>3. ASSUME NEW x \in Peer PROVE Steady(x)
  <2>1. snd_wnd[x] <= W /\ rcv_wnd[x] <= W
    BY DEF WInv, Windows
  <2>2. \/ snd_wnd'[x] = snd_wnd[x]
        \/ snd_wnd'[x] = sndwnd
    BY <1>1 DEF WndSize, TypeOK
  <2>3. \/ rcv_wnd'[x] = rcv_wnd[x]
        \/ rcv_wnd'[x] = imax(rcvwnd, WND_RCV)
    BY <1>1 DEF WndSize, TypeOK
  <2>4. UNCHANGED <<snd_nxt, rcv_nxt, rcv_buf>>
    BY DEF WndSize, sndVars, rcvVars
  <2>5. snd_wnd'[x] <= W /\ rcv_wnd'[x] <= W
    BY <1>2, <2>1, <2>2, <2>3
  <2> QED BY <2>4, <2>5, StillSteady
<1> QED BY <1>3

LEMMA WInvInit == Init => WInv
<1> SUFFICES ASSUME Init PROVE WInv
  OBVIOUS
<1>1. IInv
  BY InitIInv
<1>2. ASSUME NEW p \in Peer PROVE Windows(p)
  <2>1. /\ snd_wnd[p] = WND_SND /\ rcv_wnd[p] = WND_RCV /\ snd_nxt[p] = 0
        /\ snd_una[p] = 0 /\ DOMAIN rcv_buf[p] = {}
    BY DEF Init
  <2> QED BY <2>1, WrapAssumption DEF Windows
<1> QED BY <1>1, <1>2 DEF WInv

LEMMA WInvStep == WInv /\ [Next]_vars => WInv'
<1> SUFFICES ASSUME WInv, [Next]_vars PROVE WInv'
  OBVIOUS
<1>1. IInv'
  BY IInvStep DEF WInv
<1>2. \A x \in Peer : Steady(x)
  <2>1. ASSUME UNCHANGED <<snd_nxt, rcv_nxt, rcv_buf, wndVars>>
        PROVE  \A x \in Peer : Steady(x)
    BY <2>1 DEF Steady, WInv, Windows, wndVars
  <2>2. CASE UNCHANGED vars
    BY <2>1, <2>2 DEF vars, sndVars, rcvVars
  <2>3. CASE Next
    <3>1. ASSUME NEW p \in Peer, NEW count \in Counts, Send(p, count)
          PROVE  UNCHANGED <<snd_nxt, rcv_nxt, rcv_buf, wndVars>>
      BY <3>1 DEF Send, rcvVars
    <3>2. ASSUME NEW p \in Peer, Recv(p)
          PROVE  \A x \in Peer : Steady(x)
      <4>1. PICK k \in 1..Len(rcv_queue[p]) : Refill(p, k)
        BY <3>2 DEF Recv
      <4>2. k \in 0..Len(rcv_queue[p]) /\ UNCHANGED <<snd_nxt, wndVars>>
        BY <3>2, <4>1 DEF Recv, sndVars
      <4> QED BY <4>1, <4>2, RefillSteady
    <3>3. ASSUME NEW p \in Peer, Peek(p)
          PROVE  \A x \in Peer : Steady(x)
      <4>1. 0 \in 0..Len(rcv_queue[p])
        BY LenProperties DEF WInv, IInv, TypeOK
      <4>2. Refill(p, 0) /\ UNCHANGED <<snd_nxt, wndVars>>
        BY <3>3 DEF Peek, sndVars
      <4> QED BY <4>1, <4>2, RefillSteady
    <3>4. ASSUME NEW p \in Peer, Deliver(p) \/ DeliverCopy(p)
          PROVE  \A x \in Peer : Steady(x)
      <4>1. PICK d \in net : Input(p, d)
        BY <3>4 DEF Deliver, DeliverCopy
      <4> QED BY <4>1, InputSteady
    <3>5. ASSUME Lose
          PROVE  UNCHANGED <<snd_nxt, rcv_nxt, rcv_buf, wndVars>>
      BY <3>5 DEF Lose, sndVars, rcvVars
    <3> QED BY <2>1, <2>3, <3>1, <3>2, <3>3, <3>4, <3>5, FlushSteady, WndSizeSteady DEF Next
  <2> QED BY <2>2, <2>3
<1> QED BY <1>1, <1>2, SteadyKeepsWindows DEF WInv

-----------------------------------------------------------------------------
(* The comparisons *)

\* How far the numbers of a conversation are apart.
LEMMA Distances ==
  ASSUME WInv, NEW p \in Peer
  PROVE  LET q == Remote(p) IN
         /\ snd_una[p] \in Nat /\ snd_nxt[p] \in Nat /\ rcv_nxt[q] \in Nat
         /\ snd_una[p] <= snd_nxt[p] /\ snd_nxt[p] <= snd_una[p] + W
         /\ DOMAIN snd_buf[p] \subseteq snd_una[p] .. snd_nxt[p] - 1
         /\ \A s \in Held(p) : s \in Nat /\ s < snd_nxt[p]
         /\ rcv_nxt[q] <= snd_nxt[p]
         /\ snd_una[p] <= rcv_nxt[q] + W
<1> DEFINE q == Remote(p)
<1>1. /\ TypeOK /\ Direction(p) /\ Windows(p) /\ q \in Peer /\ Windows(q) /\ W \in Nat
  BY RemoteFacts, WrapAssumption DEF WInv, IInv
<1>2. /\ snd_una[p] \in Nat /\ snd_nxt[p] \in Nat /\ rcv_nxt[q] \in Nat
      /\ DOMAIN snd_buf[p] \subseteq Nat /\ DOMAIN rcv_buf[q] \subseteq Nat
  BY <1>1 DEF TypeOK, IsBuffer
<1>3. /\ snd_una[p] <= snd_nxt[p] /\ snd_nxt[p] <= snd_una[p] + W
      /\ \A s \in DOMAIN snd_buf[p] : s >= snd_una[p] /\ s < snd_nxt[p]
      /\ \A s \in DOMAIN rcv_buf[q] : s < snd_nxt[p] /\ s < rcv_nxt[q] + W
      /\ rcv_nxt[q] <= snd_nxt[p]
  BY <1>1 DEF Direction, Windows, Agrees
<1>4. Held(p) = 0 .. rcv_nxt[q] - 1 \cup DOMAIN rcv_buf[q]
  BY DEF Held
<1>5. \A s \in Held(p) : s \in Nat /\ s < snd_nxt[p]
  BY <1>2, <1>3, <1>4
<1>6. snd_una[p] <= rcv_nxt[q] + W
  <2>1. SUFFICES ASSUME snd_una[p] > rcv_nxt[q] + W PROVE FALSE
    BY <1>1, <1>2
  <2>2. PICK s \in Nat : s = snd_una[p] - 1
    BY <1>1, <1>2, <2>1
  <2>3. s \in 0 .. snd_nxt[p] - 1 /\ s \notin DOMAIN snd_buf[p]
    BY <1>2, <1>3, <2>2
  <2>4. s \in Held(p)
    BY <1>1, <2>3 DEF Direction, InHands
  <2> QED BY <1>1, <1>2, <1>3, <1>4, <2>1, <2>2, <2>4
<1>7. DOMAIN snd_buf[p] \subseteq snd_una[p] .. snd_nxt[p] - 1
  BY <1>2, <1>3
<1> QED BY <1>2, <1>3, <1>5, <1>6, <1>7

\* The rcv_nxt that the turn of a PUSH finds is within the window.
LEMMA RcvNxtAtRange ==
  ASSUME WInv, NEW p \in Peer, NEW push, DOMAIN push \subseteq Nat, NEW s \in Nat
  PROVE  /\ RcvNxtAt(p, push, s) \in Nat
         /\ rcv_nxt[p] <= RcvNxtAt(p, push, s)
         /\ RcvNxtAt(p, push, s) <= rcv_nxt[p] + W
<1>1. TypeOK /\ W \in Nat /\ rcv_wnd[p] <= W
  BY WrapAssumption DEF WInv, IInv, Windows
<1>2. PICK r \in Nat, wnd \in Nat : r = rcv_nxt[p] /\ wnd = rcv_wnd[p]
  BY <1>1 DEF TypeOK
<1>3. PICK room \in Nat : room = WndUnused(p) /\ room <= wnd
  BY <1>1, <1>2, WndUnusedType, WndUnusedBound
<1>4. PICK at \in Nat : at = RcvNxtAt(p, push, s) /\ r <= at
  BY <1>1, <1>2, RcvNxtAtFacts
<1>5. \/ at = r
      \/ at = Frontier(DOMAIN rcv_buf[p] \cup {x \in DOMAIN push : x < s}, r, room)
  BY <1>2, <1>3, <1>4 DEF RcvNxtAt
<1>6. at <= r + room
  BY <1>5, FrontierFacts
<1> QED BY <1>1, <1>2, <1>3, <1>4, <1>6

\* A comparison of two numbers that are close enough.
LEMMA Compared ==
  ASSUME NEW a \in Int, NEW b \in Int, -H <= a - b, a - b < H
  PROVE  /\ Seen(a, b) > 0 <=> a > b
         /\ Seen(a, b) < 0 <=> a < b
         /\ Seen(a, b) >= 0 <=> a >= b
         /\ SameNumber(a, b) <=> a = b
<1>1. Seen(a, b) = a - b /\ (SameNumber(a, b) <=> a = b)
  BY SeenExact
<1> QED BY <1>1

LEMMA WindowVerdictHolds ==
  ASSUME WInv, NEW p \in Peer
  PROVE  WindowVerdict(p)
<1>1. W \in Nat /\ H \in Nat /\ 2 * W < H
  BY WrapAssumption, HalfRangeAssumption
<1>2. /\ snd_una[p] \in Nat /\ snd_nxt[p] \in Nat
      /\ snd_una[p] <= snd_nxt[p] /\ snd_nxt[p] <= snd_una[p] + W
  BY Distances
<1>3. ASSUME NEW c \in 0..W
      PROVE  Seen(snd_nxt[p], snd_una[p] + c) < 0 <=> snd_nxt[p] < snd_una[p] + c
  <2>1. snd_una[p] + c \in Int /\ -H <= snd_nxt[p] - (snd_una[p] + c)
        /\ snd_nxt[p] - (snd_una[p] + c) < H
    BY <1>1, <1>2
  <2> QED BY <1>2, <2>1, Compared
<1> QED BY <1>3 DEF WindowVerdict

LEMMA MoveVerdictHolds ==
  ASSUME WInv, NEW p \in Peer
  PROVE  MoveVerdict(p)
<1>1. W \in Nat /\ H \in Nat /\ 2 * W < H
  BY WrapAssumption, HalfRangeAssumption
<1>2. PICK r \in Nat : r = rcv_nxt[p]
  BY DEF WInv, IInv, TypeOK
<1>3. \A s \in DOMAIN rcv_buf[p] : s \in Nat /\ r <= s /\ s < r + W
  BY <1>2 DEF WInv, IInv, TypeOK, IsBuffer, Windows
<1>4. ASSUME NEW s \in DOMAIN rcv_buf[p], NEW nxt \in r .. r + W
      PROVE  SameNumber(s, nxt) <=> s = nxt
  <2>1. nxt \in Int /\ s \in Int /\ -H <= s - nxt /\ s - nxt < H
    BY <1>1, <1>2, <1>3
  <2> QED BY <2>1, Compared
<1> QED BY <1>2, <1>4 DEF MoveVerdict

LEMMA ProgressVerdictHolds ==
  ASSUME WInv, NEW p \in Peer
  PROVE  ProgressVerdict(p)
<1>1. W \in Nat /\ H \in Nat /\ 2 * W < H
  BY WrapAssumption, HalfRangeAssumption
<1>2. /\ snd_una[p] \in Nat /\ snd_nxt[p] \in Nat
      /\ snd_una[p] <= snd_nxt[p] /\ snd_nxt[p] <= snd_una[p] + W
  BY Distances
<1>3. ASSUME NEW una \in snd_una[p] .. snd_nxt[p]
      PROVE  Seen(una, snd_una[p]) > 0 <=> una > snd_una[p]
  <2>1. una \in Int /\ -H <= una - snd_una[p] /\ una - snd_una[p] < H
    BY <1>1, <1>2
  <2> QED BY <1>2, <2>1, Compared
<1> QED BY <1>3 DEF ProgressVerdict

LEMMA UnaVerdictHolds ==
  ASSUME WInv, NEW d \in net, Fresh(d)
  PROVE  UnaVerdict(d.to, d.una)
<1> DEFINE p == d.to
<1>1. W \in Nat /\ H \in Nat /\ 2 * W < H
  BY WrapAssumption, HalfRangeAssumption
<1>2. p \in Peer /\ d.una \in Nat /\ Truthful(d)
  BY DEF WInv, IInv, TypeOK, DatagramOK
<1>3. /\ snd_una[p] \in Nat /\ snd_nxt[p] \in Nat /\ rcv_nxt[Remote(p)] \in Nat
      /\ snd_una[p] <= snd_nxt[p] /\ snd_nxt[p] <= snd_una[p] + W
      /\ DOMAIN snd_buf[p] \subseteq snd_una[p] .. snd_nxt[p] - 1
      /\ rcv_nxt[Remote(p)] <= snd_nxt[p]
  BY <1>2, Distances
<1>4. d.una >= snd_una[p] - (H - 2 * W) /\ d.una <= snd_nxt[p]
  BY <1>2, <1>3 DEF Fresh, Truthful
<1>5. ASSUME NEW s \in DOMAIN snd_buf[p]
      PROVE  Seen(d.una, s) > 0 <=> d.una > s
  <2>1. s \in Int /\ -H <= d.una - s /\ d.una - s < H
    BY <1>1, <1>2, <1>3, <1>4
  <2> QED BY <1>2, <2>1, Compared
<1> QED BY <1>5 DEF UnaVerdict

LEMMA AckVerdictHolds ==
  ASSUME WInv, NEW d \in net, Fresh(d), NEW sn \in d.ack
  PROVE  AckVerdict(d.to, sn)
<1> DEFINE p == d.to
<1>1. W \in Nat /\ H \in Nat /\ 2 * W < H
  BY WrapAssumption, HalfRangeAssumption
<1>2. p \in Peer /\ Truthful(d)
  BY DEF WInv, IInv, TypeOK, DatagramOK
<1>3. /\ snd_una[p] \in Nat /\ snd_nxt[p] \in Nat
      /\ snd_una[p] <= snd_nxt[p] /\ snd_nxt[p] <= snd_una[p] + W
      /\ DOMAIN snd_buf[p] \subseteq snd_una[p] .. snd_nxt[p] - 1
      /\ \A s \in Held(p) : s \in Nat /\ s < snd_nxt[p]
  BY <1>2, Distances
<1>4. sn \in Nat /\ sn < snd_nxt[p] /\ sn >= snd_una[p] - (H - 2 * W)
  BY <1>2, <1>3 DEF Fresh, Truthful
<1>5. Seen(sn, snd_una[p]) < 0 <=> sn < snd_una[p]
  <2>1. -H <= sn - snd_una[p] /\ sn - snd_una[p] < H
    BY <1>1, <1>3, <1>4
  <2> QED BY <1>3, <1>4, <2>1, Compared
<1>6. Seen(sn, snd_nxt[p]) >= 0 <=> sn >= snd_nxt[p]
  <2>1. -H <= sn - snd_nxt[p] /\ sn - snd_nxt[p] < H
    BY <1>1, <1>3, <1>4
  <2> QED BY <1>3, <1>4, <2>1, Compared
<1>7. ASSUME NEW s \in DOMAIN snd_buf[p]
      PROVE  (SameNumber(sn, s) <=> sn = s) /\ (Seen(sn, s) < 0 <=> sn < s)
  <2>1. s \in Int /\ -H <= sn - s /\ sn - s < H
    BY <1>1, <1>3, <1>4
  <2> QED BY <1>4, <2>1, Compared
<1> QED BY <1>5, <1>6, <1>7 DEF AckVerdict

LEMMA MaxackVerdictHolds ==
  ASSUME WInv, NEW d \in net, Fresh(d)
  PROVE  MaxackVerdict(d.ack)
<1> DEFINE p == d.to
<1>1. W \in Nat /\ H \in Nat /\ 2 * W < H
  BY WrapAssumption, HalfRangeAssumption
<1>2. p \in Peer /\ Truthful(d)
  BY DEF WInv, IInv, TypeOK, DatagramOK
<1>3. /\ snd_una[p] \in Nat /\ snd_nxt[p] \in Nat /\ snd_nxt[p] <= snd_una[p] + W
      /\ \A s \in Held(p) : s \in Nat /\ s < snd_nxt[p]
  BY <1>2, Distances
<1>4. \A s \in d.ack : s \in Nat /\ s < snd_nxt[p] /\ s >= snd_una[p] - (H - 2 * W)
  BY <1>2, <1>3 DEF Fresh, Truthful
<1>5. ASSUME NEW sn \in d.ack, NEW maxack \in d.ack
      PROVE  Seen(sn, maxack) > 0 <=> sn > maxack
  <2>1. sn \in Int /\ maxack \in Int /\ -H <= sn - maxack /\ sn - maxack < H
    BY <1>1, <1>3, <1>4
  <2> QED BY <2>1, Compared
<1> QED BY <1>5 DEF MaxackVerdict

LEMMA PushVerdictHolds ==
  ASSUME WInv, NEW d \in net, Fresh(d), NEW sn \in DOMAIN d.push
  PROVE  PushVerdict(d.to, d.push, sn)
<1> DEFINE p == d.to
           q == Remote(p)
<1>1. W \in Nat /\ H \in Nat /\ 2 * W < H
  BY WrapAssumption, HalfRangeAssumption
<1>2. /\ p \in Peer /\ q \in Peer /\ Remote(q) = p /\ Truthful(d)
      /\ DOMAIN d.push \subseteq Nat /\ sn \in Nat
  BY RemoteFacts DEF WInv, IInv, TypeOK, DatagramOK
<1>3. PICK r \in Nat, wnd \in Nat : r = rcv_nxt[p] /\ wnd = rcv_wnd[p]
  BY <1>2 DEF WInv, IInv, TypeOK
<1>4. wnd <= W /\ \A s \in DOMAIN rcv_buf[p] : s \in Nat /\ r <= s /\ s < r + W
  BY <1>2, <1>3 DEF WInv, IInv, TypeOK, IsBuffer, Windows
<1>5. sn < r + 2 * W /\ sn >= r - (H - 2 * W)
  <2>1. sn < snd_nxt[q]
    BY <1>2 DEF Truthful, Agrees
  <2>2. /\ snd_una[q] \in Nat /\ snd_nxt[q] \in Nat
        /\ snd_nxt[q] <= snd_una[q] + W /\ snd_una[q] <= r + W
    BY <1>2, <1>3, Distances
  <2>3. sn >= r - (H - 2 * W)
    BY <1>3 DEF Fresh
  <2> QED BY <1>1, <1>2, <1>3, <2>1, <2>2, <2>3
<1>6. PICK nxt \in Nat : nxt = RcvNxtAt(p, d.push, sn) /\ r <= nxt /\ nxt <= r + W
  BY <1>2, <1>3, RcvNxtAtRange
<1>7. Seen(sn, nxt + wnd) < 0 <=> sn < nxt + wnd
  <2>1. nxt + wnd \in Int /\ -H <= sn - (nxt + wnd) /\ sn - (nxt + wnd) < H
    BY <1>1, <1>2, <1>4, <1>5, <1>6
  <2> QED BY <1>2, <2>1, Compared
<1>8. Seen(sn, nxt) >= 0 <=> sn >= nxt
  <2>1. -H <= sn - nxt /\ sn - nxt < H
    BY <1>1, <1>2, <1>5, <1>6
  <2> QED BY <1>2, <2>1, Compared
<1>9. ASSUME sn >= nxt, sn < nxt + wnd, NEW s \in DOMAIN rcv_buf[p]
      PROVE  (SameNumber(sn, s) <=> sn = s) /\ (Seen(sn, s) > 0 <=> sn > s)
  <2>1. s \in Int /\ -H <= sn - s /\ sn - s < H
    BY <1>1, <1>2, <1>4, <1>6, <1>9
  <2> QED BY <1>2, <2>1, Compared
<1>10. ASSUME sn >= nxt, sn < nxt + wnd, NEW move \in nxt .. nxt + W
       PROVE  SameNumber(sn, move) <=> sn = move
  <2>1. move \in Int /\ -H <= sn - move /\ sn - move < H
    BY <1>1, <1>2, <1>4, <1>6, <1>10
  <2> QED BY <1>2, <2>1, Compared
<1> QED BY <1>3, <1>6, <1>7, <1>8, <1>9, <1>10 DEF PushVerdict

-----------------------------------------------------------------------------
(* The theorem *)

\* However sequence numbers wrap, no comparison that ikcp_input, ikcp_flush or
\* the parse functions make on 32 bits comes out wrong, as long as windows stay
\* below a quarter of the range and datagrams are not too old: the model of
\* KcpArq may count without a limit.
THEOREM ComparisonsAreRight == Spec => []WrapSafe
<1>1. WInv => WrapSafe
  BY WindowVerdictHolds, MoveVerdictHolds, ProgressVerdictHolds, UnaVerdictHolds,
     AckVerdictHolds, MaxackVerdictHolds, PushVerdictHolds DEF WrapSafe
<1> QED BY <1>1, WInvInit, WInvStep, PTL DEF Spec
=============================================================================
