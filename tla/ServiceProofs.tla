--------------------------- MODULE ServiceProofs ----------------------------
(***************************************************************************)
(* Proofs about Service, for every number of clients and whatever is typed *)
(* at each: the packets of a client follow one another through its queue,  *)
(* the channel, the datagrams and the control block, and what is handled   *)
(* is what was typed, as long as at most one client sends in chunks.       *)
(***************************************************************************)
EXTENDS Service, SequenceTheorems, WellFoundedInduction, TLAPS

-----------------------------------------------------------------------------
(* Numbers and sequences *)

\* A set of natural numbers has a least element.
LEMMA Least ==
  ASSUME NEW T \in SUBSET Nat, T # {}
  PROVE  \E m \in T : \A x \in T : m <= x
<1>1. PICK m \in T : \A x \in T : <<x, m>> \notin OpToRel(<, Nat)
  BY NatLessThanWellFounded, WFMin, Zenon
<1>2. \A x \in T : ~(x < m)
  BY <1>1, Zenon DEF OpToRel
<1>3. \A x \in T : m <= x
  BY <1>2
<1> QED
  BY <1>3

\* Induction over the numbers up to n, for those of a set.
LEMMA UpTo ==
  ASSUME NEW n \in Nat, NEW S, 0 \in S, \A k \in 1..n : k - 1 \in S => k \in S
  PROVE  \A k \in 0..n : k \in S
<1> DEFINE Bad == {k \in 0..n : k \notin S}
<1>1. ASSUME Bad # {} PROVE FALSE
  <2>1. Bad \in SUBSET Nat
    OBVIOUS
  <2>2. PICK m \in Bad : \A x \in Bad : m <= x
    BY <1>1, <2>1, Least, Zenon
  <2>3. m \in 1..n
    OBVIOUS
  <2>4. m - 1 \in 0..n /\ ~(m <= m - 1)
    BY <2>3
  <2>5. m - 1 \in S
    BY <2>2, <2>4
  <2> QED
    BY <2>3, <2>5
<1> QED
  BY <1>1

\* v is what step makes of base, one number after the other.
Run(v, n, A, base, step) ==
  /\ v \in [0..n -> A]
  /\ v[0] = base
  /\ \A k \in 1..n : v[k] = step[k][v[k - 1]]

LEMMA RunExists ==
  ASSUME NEW n \in Nat, NEW A, NEW base \in A, NEW step \in [1..n -> [A -> A]]
  PROVE  \E v : Run(v, n, A, base, step)
<1> DEFINE Has(m) == \E v : Run(v, m, A, base, step)
<1>1. Has(0)
  <2>1. Run([k \in 0..0 |-> base], 0, A, base, step)
    BY DEF Run
  <2> QED
    BY <2>1
<1>2. ASSUME NEW m \in 1..n, Has(m - 1) PROVE Has(m)
  <2>1. PICK v : Run(v, m - 1, A, base, step)
    BY <1>2
  <2> DEFINE w == [k \in 0..m |-> IF k = m THEN step[m][v[m - 1]] ELSE v[k]]
  <2>2. /\ \A k \in 0..m : k = m \/ k \in 0 .. m - 1
        /\ 0 \in 0 .. m - 1 /\ m - 1 \in 0 .. m - 1 /\ 0 \in 0..m /\ 0 # m
        /\ \A k \in 1..m : k \in 0..m /\ k - 1 \in 0..m /\ k - 1 # m
        /\ \A k \in 1..m : k = m \/ k \in 1 .. m - 1
    OBVIOUS
  <2>3. v \in [0 .. m - 1 -> A] /\ v[0] = base
        /\ \A k \in 1 .. m - 1 : v[k] = step[k][v[k - 1]]
    BY <2>1, Zenon DEF Run
  <2>4. step[m] \in [A -> A]
    BY Zenon
  <2>5. w \in [0..m -> A]
    <3>1. v[m - 1] \in A
      BY <2>2, <2>3, Zenon
    <3>2. step[m][v[m - 1]] \in A
      BY <2>4, <3>1, Zenon
    <3>3. \A k \in 0..m : (IF k = m THEN step[m][v[m - 1]] ELSE v[k]) \in A
      BY <2>2, <2>3, <3>2, Zenon
    <3> QED
      BY <3>3, Zenon
  <2>6. w[0] = base
    BY <2>2, <2>3, Zenon
  <2>7. ASSUME NEW k \in 1..m PROVE w[k] = step[k][w[k - 1]]
    <3>1. w[k - 1] = v[k - 1]
      BY <2>2, Zenon
    <3>2. CASE k = m
      BY <2>2, <3>1, <3>2, Zenon
    <3>3. CASE k # m
      <4>1. w[k] = v[k] /\ k \in 1 .. m - 1
        BY <2>2, <3>3, Zenon
      <4> QED
        BY <2>3, <3>1, <4>1, Zenon
    <3> QED
      BY <3>2, <3>3, Zenon
  <2>8. Run(w, m, A, base, step)
    BY <2>5, <2>6, <2>7, Zenon DEF Run
  <2> QED
    BY <2>8
<1> HIDE DEF Has
<1> DEFINE S == {m \in 0..n : Has(m)}
<1>3. 0 \in S
  BY <1>1
<1>4. ASSUME NEW m \in 1..n, m - 1 \in S PROVE m \in S
  BY <1>2, <1>4
<1> HIDE DEF S
<1>5. n \in S
  <2>1. \A k \in 0..n : k \in S
    BY <1>3, <1>4, UpTo
  <2> QED
    BY <2>1
<1> QED
  BY <1>5 DEF S, Has

-----------------------------------------------------------------------------
(* HandleReceiveMsg *)

Datagram == [from : Clients, pck : Packet]
Server == [keys : Seq(Clients), queue : [Clients -> Seq(Packet)]]

\* The two fields that Input changes.
LEMMA TwoFields ==
  ASSUME NEW A, NEW C, NEW Q, NEW s \in [keys : A, queue : [C -> Q]],
         NEW c \in C, NEW x \in A, NEW y \in Q
  PROVE  LET r == [s EXCEPT !.keys = x, !.queue[c] = y]
         IN /\ r \in [keys : A, queue : [C -> Q]]
            /\ r.keys = x /\ r.queue = [s.queue EXCEPT ![c] = y]
<1> DEFINE r == [s EXCEPT !.keys = x, !.queue[c] = y]
<1>1. r.keys = x
  OBVIOUS
<1>2. r.queue = [s.queue EXCEPT ![c] = y]
  OBVIOUS
<1>3. [s.queue EXCEPT ![c] = y] \in [C -> Q]
  OBVIOUS
<1>4. r \in [keys : A, queue : [C -> Q]]
  OBVIOUS
<1> HIDE DEF r
<1>5. r \in [keys : A, queue : [C -> Q]] /\ r.keys = x /\ r.queue = [s.queue EXCEPT ![c] = y]
  BY <1>1, <1>2, <1>4
<1> QED
  BY <1>5 DEF r

LEMMA InputFacts ==
  ASSUME NEW server \in Server, NEW d \in Datagram
  PROVE  /\ Input(server, d) \in Server
         /\ Input(server, d).keys = IF Contains(server.keys, d.from) THEN server.keys
                                    ELSE Append(server.keys, d.from)
         /\ \A c \in Clients :
              Input(server, d).queue[c] = IF d.from = c
                                          THEN Append(server.queue[c], d.pck)
                                          ELSE server.queue[c]
<1>1. /\ server.keys \in Seq(Clients) /\ server.queue \in [Clients -> Seq(Packet)]
      /\ d.from \in Clients /\ d.pck \in Packet
  BY DEF Server, Datagram
<1> DEFINE x == IF Contains(server.keys, d.from) THEN server.keys
                ELSE Append(server.keys, d.from)
           y == Append(server.queue[d.from], d.pck)
<1>2. x \in Seq(Clients) /\ y \in Seq(Packet)
  BY <1>1, AppendProperties
<1>3. Input(server, d) = [server EXCEPT !.keys = x, !.queue[d.from] = y]
  BY Zenon DEF Input
<1>4. ASSUME NEW c \in Clients
      PROVE  [server.queue EXCEPT ![d.from] = y][c]
               = IF d.from = c THEN Append(server.queue[c], d.pck) ELSE server.queue[c]
  <2>1. CASE d.from = c
    BY <1>1, <2>1
  <2>2. CASE d.from # c
    BY <1>1, <2>2
  <2> QED
    BY <2>1, <2>2
<1>5. LET r == [server EXCEPT !.keys = x, !.queue[d.from] = y]
      IN r \in Server /\ r.keys = x /\ r.queue = [server.queue EXCEPT ![d.from] = y]
  <2> HIDE DEF x, y
  <2> QED
    BY <1>1, <1>2, TwoFields, Zenon DEF Server
<1> QED
  BY <1>3, <1>4, <1>5, Zenon

\* v takes the n datagrams of ds up, one after the other.
TakesUp(v, n, ds, base) ==
  /\ v \in [0..n -> Server]
  /\ v[0] = base
  /\ \A k \in 1..n : v[k] = Input(v[k - 1], ds[k])

\* What the service thread leaves is reached datagram by datagram.
LEMMA Received ==
  ASSUME NEW n \in Nat, n = Len(datagrams), datagrams \in Seq(Datagram),
         NEW base \in Server, base = [keys |-> connects, queue |-> rcv_queue]
  PROVE  \E v : TakesUp(v, n, datagrams, base) /\ HandleReceiveMsg = v[n]
<1>1. \A k \in 1..n : datagrams[k] \in Datagram
  BY ElementOfSeq
<1> DEFINE step == [k \in 1..n |-> [s \in Server |-> Input(s, datagrams[k])]]
           Takes(v) == v = [k \in 0..n |-> IF k = 0 THEN base
                                          ELSE Input(v[k - 1], datagrams[k])]
<1>2. step \in [1..n -> [Server -> Server]]
  <2>1. ASSUME NEW k \in 1..n, NEW s \in Server PROVE Input(s, datagrams[k]) \in Server
    BY <1>1, InputFacts, Zenon
  <2> QED
    BY <2>1, Zenon
<1>3. PICK w : Run(w, n, Server, base, step)
  <2> HIDE DEF step
  <2> QED
    BY <1>2, RunExists, Zenon
<1>4. Takes(w)
  <2>1. w \in [0..n -> Server] /\ w[0] = base /\ \A k \in 1..n : w[k] = step[k][w[k - 1]]
    BY <1>3, Zenon DEF Run
  <2>2. ASSUME NEW k \in 0..n
        PROVE  w[k] = IF k = 0 THEN base ELSE Input(w[k - 1], datagrams[k])
    <3>1. CASE k = 0
      BY <2>1, <3>1, Zenon
    <3>2. CASE k # 0
      <4>1. k \in 1..n /\ k - 1 \in 0..n
        BY <3>2
      <4>2. w[k - 1] \in Server
        BY <2>1, <4>1, Zenon
      <4>3. step[k][w[k - 1]] = Input(w[k - 1], datagrams[k])
        BY <4>1, <4>2, Zenon
      <4> QED
        BY <2>1, <3>2, <4>1, <4>3, Zenon
    <3> QED
      BY <3>1, <3>2, Zenon
  <2>3. w = [k \in 0..n |-> w[k]]
    BY <2>1, Zenon
  <2> QED
    BY <2>2, <2>3, Zenon
<1> DEFINE v == CHOOSE v : Takes(v)
<1>5. Takes(v)
  BY <1>4, Zenon
<1>6. HandleReceiveMsg = v[n]
  BY Zenon DEF HandleReceiveMsg
<1> HIDE DEF v
<1>7. v[0] = base /\ \A k \in 1..n : v[k] = Input(v[k - 1], datagrams[k])
  <2>1. 0 \in 0..n /\ \A k \in 1..n : k \in 0..n /\ k # 0
    OBVIOUS
  <2> QED
    BY <1>5, <2>1, Zenon
<1>8. \A k \in 0..n : v[k] \in Server
  <2> DEFINE S == {k \in 0..n : v[k] \in Server}
  <2>1. 0 \in S
    BY <1>7
  <2>2. ASSUME NEW k \in 1..n, k - 1 \in S PROVE k \in S
    <3>1. v[k] \in Server
      BY <1>1, <1>7, <2>2, InputFacts, Zenon
    <3> QED
      BY <3>1
  <2> HIDE DEF S
  <2>3. \A k \in 0..n : k \in S
    BY <2>1, <2>2, UpTo
  <2> QED
    BY <2>3 DEF S
<1>9. v \in [0..n -> Server]
  BY <1>5, <1>8, Zenon
<1> QED
  BY <1>6, <1>7, <1>9, Zenon DEF TakesUp

-----------------------------------------------------------------------------
(* The packets of a client follow one another *)

Cursor == [input : Nat \ {0}, chunk : Nat \ {0}]

\* Behind the last of t inputs
End(t) == [input |-> t + 1, chunk |-> 1]

\* The places of the packets of the first t inputs of c, and the end.
Cursors(c, t) ==
  {q \in Cursor : \/ q.input <= t /\ q.chunk <= Inputs[c][q.input]
                  \/ q = End(t)}

\* The packet at a place, and the place behind it.
PckAt(c, q) == ChunksOf(c, q.input, Inputs[c][q.input])[q.chunk]
After(c, q) ==
  IF q.chunk < Inputs[c][q.input] THEN [input |-> q.input, chunk |-> q.chunk + 1]
  ELSE [input |-> q.input + 1, chunk |-> 1]

\* pck is the packet at q, one of the first t inputs, and r is behind it.
Step(c, t, q, pck, r) == q.input <= t /\ pck = PckAt(c, q) /\ r = After(c, q)

\* The packets of s are those of c from the place a up to the place b.
Chain(c, t, s, a, b) ==
  \E cur \in [0..Len(s) -> Cursors(c, t)] :
    /\ cur[0] = a /\ cur[Len(s)] = b
    /\ \A k \in 1..Len(s) : Step(c, t, cur[k - 1], s[k], cur[k])

\* The same of the datagrams of ds that c has sent.
Link(c, t, q, d, r) == IF d.from = c THEN Step(c, t, q, d.pck, r) ELSE r = q

ChainFrom(c, t, ds, a, b) ==
  \E cur \in [0..Len(ds) -> Cursors(c, t)] :
    /\ cur[0] = a /\ cur[Len(ds)] = b
    /\ \A k \in 1..Len(ds) : Link(c, t, cur[k - 1], ds[k], cur[k])

LEMMA InputType ==
  ASSUME NEW c \in Clients, NEW m \in 1..Len(Inputs[c])
  PROVE  Inputs[c][m] \in Nat \ {0}
<1>1. Inputs[c] \in Seq(Nat \ {0})
  BY ServiceAssumption
<1> QED
  BY <1>1, ElementOfSeq

\* A place of an input typed is one of its packets, and so is the one behind it
\* or the first of the next input.
LEMMA PlaceFacts ==
  ASSUME NEW c \in Clients, NEW t \in 0..Len(Inputs[c]), NEW q \in Cursors(c, t),
         q.input <= t
  PROVE  /\ q.input \in 1..t /\ Inputs[c][q.input] \in Nat \ {0}
         /\ q.chunk \in 1..Inputs[c][q.input]
         /\ After(c, q) \in Cursors(c, t)
<1>1. Len(Inputs[c]) \in Nat
  BY ServiceAssumption, LenProperties
<1>2. q \in Cursor /\ q.input \in Nat \ {0} /\ q.chunk \in Nat \ {0}
  BY DEF Cursors, Cursor
<1>3. q # End(t)
  BY <1>1 DEF End
<1>4. q.input \in 1..t /\ q.chunk <= Inputs[c][q.input]
  BY <1>2, <1>3 DEF Cursors
<1>5. \A m \in 1..t : m \in 1..Len(Inputs[c])
  BY <1>1
<1>6. \A m \in 1..t : Inputs[c][m] \in Nat \ {0}
  BY <1>5, InputType
<1> DEFINE n == Inputs[c][q.input]
<1>7. n \in Nat \ {0}
  BY <1>4, <1>6
<1>8. CASE q.chunk < n
  <2>1. After(c, q) = [input |-> q.input, chunk |-> q.chunk + 1]
    BY <1>8 DEF After
  <2>2. After(c, q) \in Cursor
    BY <1>2, <2>1 DEF Cursor
  <2>3. After(c, q).input = q.input /\ After(c, q).chunk = q.chunk + 1
    BY <2>1
  <2>4. q.chunk + 1 <= n
    BY <1>2, <1>7, <1>8
  <2>5. After(c, q).input <= t /\ After(c, q).chunk <= Inputs[c][After(c, q).input]
    BY <2>3, <2>4, Zenon
  <2>6. After(c, q) \in Cursors(c, t)
    BY <2>2, <2>5, Zenon DEF Cursors
  <2> QED
    BY <1>2, <1>4, <1>7, <2>6
<1>9. CASE ~(q.chunk < n)
  <2>1. After(c, q) = [input |-> q.input + 1, chunk |-> 1]
    BY <1>9 DEF After
  <2>2. After(c, q) \in Cursor
    BY <1>2, <2>1 DEF Cursor
  <2>3. CASE q.input = t
    <3>1. After(c, q) = End(t)
      BY <2>1, <2>3 DEF End
    <3>2. After(c, q) \in Cursors(c, t)
      BY <2>2, <3>1, Zenon DEF Cursors
    <3> QED
      BY <1>2, <1>4, <1>7, <3>2
  <2>4. CASE q.input # t
    <3>1. q.input + 1 \in 1..t
      BY <1>4, <2>4
    <3>2. Inputs[c][q.input + 1] \in Nat \ {0}
      BY <1>6, <3>1
    <3>3. After(c, q).input <= t /\ After(c, q).chunk <= Inputs[c][After(c, q).input]
      BY <2>1, <3>1, <3>2
    <3>4. After(c, q) \in Cursors(c, t)
      BY <2>2, <3>3, Zenon DEF Cursors
    <3> QED
      BY <1>2, <1>4, <1>7, <3>4
  <2> QED
    BY <2>3, <2>4
<1> QED
  BY <1>8, <1>9

LEMMA ChainEmpty ==
  ASSUME NEW c, NEW t, NEW a \in Cursors(c, t)
  PROVE  Chain(c, t, <<>>, a, a) /\ ChainFrom(c, t, <<>>, a, a)
<1> DEFINE cur == [k \in 0..0 |-> a]
<1>1. Len(<<>>) = 0 /\ 1..0 = {} /\ 0 \in 0..0
  OBVIOUS
<1>2. cur \in [0..0 -> Cursors(c, t)] /\ cur[0] = a
  BY <1>1, Zenon
<1> HIDE DEF cur
<1>3. Chain(c, t, <<>>, a, a)
  BY <1>1, <1>2, Zenon DEF Chain
<1>4. ChainFrom(c, t, <<>>, a, a)
  BY <1>1, <1>2, Zenon DEF ChainFrom
<1> QED
  BY <1>3, <1>4

\* The first packet of a chain, and the chain behind it.
LEMMA ChainHead ==
  ASSUME NEW c, NEW t, NEW A, NEW s \in Seq(A), s # <<>>, NEW a, NEW b,
         Chain(c, t, s, a, b)
  PROVE  /\ a \in Cursors(c, t) /\ a.input <= t /\ Head(s) = PckAt(c, a)
         /\ Chain(c, t, Tail(s), After(c, a), b)
<1> DEFINE n == Len(s)
           u == Tail(s)
<1>1. n \in Nat \ {0} /\ Len(u) = n - 1 /\ \A k \in 1 .. n - 1 : u[k] = s[k + 1]
  <2>1. n \in Nat /\ n # 0 /\ u \in Seq(A) /\ Len(u) = n - 1
    BY LenProperties, HeadTailProperties, EmptySeq
  <2>2. \A k \in 1 .. n - 1 : u[k] = s[k + 1]
    BY HeadTailProperties
  <2> QED
    BY <2>1, <2>2
<1>2. Head(s) = s[1]
  BY HeadTailProperties
<1>3. PICK cur \in [0..n -> Cursors(c, t)] :
        /\ cur[0] = a /\ cur[n] = b
        /\ \A k \in 1..n : Step(c, t, cur[k - 1], s[k], cur[k])
  BY Zenon DEF Chain
<1> HIDE DEF n, u
<1> DEFINE rest == [k \in 0 .. n - 1 |-> cur[k + 1]]
<1>4. /\ 0 \in 0..n /\ 1 \in 1..n /\ 1 - 1 = 0 /\ 0 + 1 = 1
      /\ n - 1 \in 0 .. n - 1 /\ 0 \in 0 .. n - 1 /\ (n - 1) + 1 = n
      /\ \A k \in 0 .. n - 1 : k + 1 \in 0..n
      /\ \A k \in 1 .. n - 1 : /\ k - 1 \in 0 .. n - 1 /\ k \in 0 .. n - 1 /\ k + 1 \in 1..n
                               /\ (k - 1) + 1 = k /\ (k + 1) - 1 = k
  BY <1>1
<1>5. Step(c, t, a, s[1], cur[1])
  BY <1>3, <1>4, Zenon
<1>6. rest \in [0 .. n - 1 -> Cursors(c, t)]
  BY <1>3, <1>4, Zenon
<1>7. rest[0] = After(c, a) /\ rest[n - 1] = b
  BY <1>3, <1>4, <1>5, Zenon DEF Step
<1>8. ASSUME NEW k \in 1 .. n - 1 PROVE Step(c, t, rest[k - 1], u[k], rest[k])
  <2>1. rest[k - 1] = cur[k] /\ rest[k] = cur[k + 1] /\ u[k] = s[k + 1]
    BY <1>1, <1>4, Zenon
  <2>2. Step(c, t, cur[k], s[k + 1], cur[k + 1])
    BY <1>3, <1>4, Zenon
  <2> QED
    BY <2>1, <2>2, Zenon
<1>9. Chain(c, t, u, After(c, a), b)
  <2> HIDE DEF rest
  <2> QED
    BY <1>1, <1>6, <1>7, <1>8, Zenon DEF Chain
<1>10. a \in Cursors(c, t)
  BY <1>3, <1>4, Zenon
<1> QED
  BY <1>2, <1>5, <1>9, <1>10, Zenon DEF Step, u

\* new is cur with one more place, r, at the end.
Longer(new, cur, n, S, r) ==
  /\ new \in [0 .. n + 1 -> S]
  /\ new[0] = cur[0] /\ new[n] = cur[n] /\ new[n + 1] = r
  /\ \A k \in 1..n : new[k - 1] = cur[k - 1] /\ new[k] = cur[k]

LEMMA OneMore ==
  ASSUME NEW S, NEW n \in Nat, NEW cur \in [0..n -> S], NEW r \in S
  PROVE  \E new : Longer(new, cur, n, S, r)
<1> DEFINE new == [k \in 0 .. n + 1 |-> IF k = n + 1 THEN r ELSE cur[k]]
<1>1. /\ \A k \in 0 .. n + 1 : k = n + 1 \/ k \in 0..n
      /\ 0 \in 0 .. n + 1 /\ n \in 0 .. n + 1 /\ n + 1 \in 0 .. n + 1
      /\ 0 # n + 1 /\ n # n + 1
      /\ \A k \in 1..n : /\ k \in 0 .. n + 1 /\ k - 1 \in 0 .. n + 1
                         /\ k # n + 1 /\ k - 1 # n + 1
  OBVIOUS
<1>2. new \in [0 .. n + 1 -> S]
  <2>1. \A k \in 0 .. n + 1 : (IF k = n + 1 THEN r ELSE cur[k]) \in S
    BY <1>1, Zenon
  <2> QED
    BY <2>1, Zenon
<1>3. new[0] = cur[0] /\ new[n] = cur[n] /\ new[n + 1] = r
  BY <1>1, Zenon
<1>4. \A k \in 1..n : new[k - 1] = cur[k - 1] /\ new[k] = cur[k]
  BY <1>1, Zenon
<1> HIDE DEF new
<1>5. Longer(new, cur, n, S, r)
  BY <1>2, <1>3, <1>4, Zenon DEF Longer
<1> QED
  BY <1>5, Zenon

LEMMA AppendFacts ==
  ASSUME NEW A, NEW s \in Seq(A), NEW x \in A
  PROVE  /\ Append(s, x) \in Seq(A) /\ Len(s) \in Nat /\ Len(Append(s, x)) = Len(s) + 1
         /\ \A k \in 1..Len(s) : Append(s, x)[k] = s[k]
         /\ Append(s, x)[Len(s) + 1] = x
         /\ \A k \in 1 .. Len(s) + 1 : k \in 1..Len(s) \/ k = Len(s) + 1
<1>1. Len(s) \in Nat
  BY LenProperties
<1>2. \A k \in 1 .. Len(s) + 1 : k \in 1..Len(s) \/ k = Len(s) + 1
  BY <1>1
<1> QED
  BY <1>1, <1>2, AppendProperties

LEMMA ChainAppend ==
  ASSUME NEW c, NEW t, NEW A, NEW s \in Seq(A), NEW a, NEW b, NEW x \in A, NEW r,
         Chain(c, t, s, a, b), Step(c, t, b, x, r), r \in Cursors(c, t)
  PROVE  Chain(c, t, Append(s, x), a, r)
<1> DEFINE n == Len(s)
           u == Append(s, x)
<1>1. /\ n \in Nat /\ Len(u) = n + 1 /\ (\A k \in 1..n : u[k] = s[k]) /\ u[n + 1] = x
      /\ \A k \in 1 .. n + 1 : k \in 1..n \/ k = n + 1
  BY AppendFacts
<1>2. PICK cur \in [0..n -> Cursors(c, t)] :
        /\ cur[0] = a /\ cur[n] = b
        /\ \A k \in 1..n : Step(c, t, cur[k - 1], s[k], cur[k])
  BY Zenon DEF Chain
<1> HIDE DEF n, u
<1> DEFINE S == Cursors(c, t)
<1>3. PICK new : Longer(new, cur, n, S, r)
  <2> HIDE DEF S
  <2>1. cur \in [0..n -> S] /\ r \in S
    BY <1>2, Zenon DEF S
  <2> QED
    BY <1>1, <2>1, OneMore, Zenon
<1>4. /\ new \in [0 .. n + 1 -> Cursors(c, t)]
      /\ new[0] = cur[0] /\ new[n] = cur[n] /\ new[n + 1] = r
      /\ \A k \in 1..n : new[k - 1] = cur[k - 1] /\ new[k] = cur[k]
  BY <1>3, Zenon DEF Longer
<1>5. ASSUME NEW k \in 1 .. n + 1 PROVE Step(c, t, new[k - 1], u[k], new[k])
  <2>1. CASE k \in 1..n
    BY <1>1, <1>2, <1>4, <2>1, Zenon
  <2>2. CASE k = n + 1
    <3>1. (n + 1) - 1 = n
      BY <1>1
    <3>2. Step(c, t, new[n], u[n + 1], new[n + 1])
      BY <1>1, <1>2, <1>4, Zenon
    <3> QED
      BY <2>2, <3>1, <3>2, Zenon
  <2> QED
    BY <1>1, <2>1, <2>2, Zenon
<1> QED
  BY <1>1, <1>2, <1>4, <1>5, Zenon DEF Chain, u

\* A datagram more: of c itself, or of another client.
LEMMA ChainFromAppend ==
  ASSUME NEW c, NEW t, NEW s \in Seq(Datagram), NEW a, NEW b, NEW d \in Datagram, NEW r,
         ChainFrom(c, t, s, a, b), r \in Cursors(c, t),
         Link(c, t, b, d, r)
  PROVE  ChainFrom(c, t, Append(s, d), a, r)
<1> DEFINE n == Len(s)
           u == Append(s, d)
<1>1. /\ n \in Nat /\ Len(u) = n + 1 /\ (\A k \in 1..n : u[k] = s[k]) /\ u[n + 1] = d
      /\ \A k \in 1 .. n + 1 : k \in 1..n \/ k = n + 1
  BY AppendFacts
<1>2. PICK cur \in [0..n -> Cursors(c, t)] :
        /\ cur[0] = a /\ cur[n] = b
        /\ \A k \in 1..n : Link(c, t, cur[k - 1], s[k], cur[k])
  BY Zenon DEF ChainFrom
<1>3. Link(c, t, b, d, r)
  OBVIOUS
<1> HIDE DEF n, u
<1> DEFINE S == Cursors(c, t)
<1>4. PICK new : Longer(new, cur, n, S, r)
  <2> HIDE DEF S
  <2>1. cur \in [0..n -> S] /\ r \in S
    BY <1>2, Zenon DEF S
  <2> QED
    BY <1>1, <2>1, OneMore, Zenon
<1>5. /\ new \in [0 .. n + 1 -> Cursors(c, t)]
      /\ new[0] = cur[0] /\ new[n] = cur[n] /\ new[n + 1] = r
      /\ \A k \in 1..n : new[k - 1] = cur[k - 1] /\ new[k] = cur[k]
  BY <1>4, Zenon DEF Longer
<1>6. ASSUME NEW k \in 1 .. n + 1 PROVE Link(c, t, new[k - 1], u[k], new[k])
  <2>1. CASE k \in 1..n
    BY <1>1, <1>2, <1>5, <2>1, Zenon
  <2>2. CASE k = n + 1
    <3>1. (n + 1) - 1 = n
      BY <1>1
    <3>2. Link(c, t, new[n], u[n + 1], new[n + 1])
      BY <1>1, <1>2, <1>3, <1>5, Zenon
    <3> QED
      BY <2>2, <3>1, <3>2, Zenon
  <2> QED
    BY <1>1, <2>1, <2>2, Zenon
<1> QED
  BY <1>1, <1>2, <1>5, <1>6, Zenon DEF ChainFrom, u

\* Two chains, one behind the other.
LEMMA ChainConcat ==
  ASSUME NEW c, NEW t, NEW A, NEW s \in Seq(A), NEW u \in Seq(A), NEW a, NEW b, NEW e,
         Chain(c, t, s, a, b), Chain(c, t, u, b, e)
  PROVE  Chain(c, t, s \o u, a, e)
<1> DEFINE n == Len(s)
           m == Len(u)
           w == s \o u
           S == Cursors(c, t)
<1>1. /\ n \in Nat /\ m \in Nat /\ Len(w) = n + m
      /\ \A k \in 1..n : w[k] = s[k]
      /\ \A k \in n + 1 .. n + m : w[k] = u[k - n]
  <2>1. n \in Nat /\ m \in Nat
    BY LenProperties
  <2>2. Len(w) = n + m
    BY ConcatProperties
  <2>3. \A k \in 1 .. n + m : w[k] = IF k <= n THEN s[k] ELSE u[k - n]
    BY ConcatProperties
  <2> HIDE DEF n, m, w
  <2> QED
    BY <2>1, <2>2, <2>3
<1>2. PICK p \in [0..n -> S] :
        /\ p[0] = a /\ p[n] = b
        /\ \A k \in 1..n : Step(c, t, p[k - 1], s[k], p[k])
  BY Zenon DEF Chain
<1>3. PICK q \in [0..m -> S] :
        /\ q[0] = b /\ q[m] = e
        /\ \A k \in 1..m : Step(c, t, q[k - 1], u[k], q[k])
  BY Zenon DEF Chain
<1> HIDE DEF n, m, w, S
<1> DEFINE cur == [k \in 0 .. n + m |-> IF k <= n THEN p[k] ELSE q[k - n]]
<1>4. /\ 0 \in 0 .. n + m /\ 0 <= n /\ n + m \in 0 .. n + m /\ (n + m) - n = m
      /\ \A k \in 0 .. n + m : IF k <= n THEN k \in 0..n ELSE k - n \in 0..m
      /\ \A k \in 1..n : k - 1 \in 0 .. n + m /\ k \in 0 .. n + m /\ k <= n /\ k - 1 <= n
      /\ \A k \in n + 1 .. n + m :
           /\ k - 1 \in 0 .. n + m /\ k \in 0 .. n + m /\ ~(k <= n)
           /\ k - n \in 1..m /\ (k - 1) - n = (k - n) - 1
           /\ k - 1 <= n => k - 1 = n /\ (k - n) - 1 = 0
      /\ \A k \in 1 .. n + m : k \in 1..n \/ k \in n + 1 .. n + m
      /\ n + m <= n => n + m = n /\ m = 0
  BY <1>1
<1>5. cur \in [0 .. n + m -> S]
  <2>1. \A k \in 0 .. n + m : (IF k <= n THEN p[k] ELSE q[k - n]) \in S
    BY <1>2, <1>3, <1>4, Zenon
  <2> QED
    BY <2>1, Zenon
<1>6. cur[0] = a
  BY <1>2, <1>4, Zenon
<1>7. cur[n + m] = e
  <2>1. CASE n + m <= n
    BY <1>2, <1>3, <1>4, <2>1, Zenon
  <2>2. CASE ~(n + m <= n)
    BY <1>3, <1>4, <2>2, Zenon
  <2> QED
    BY <2>1, <2>2
<1>8. ASSUME NEW k \in 1 .. n + m PROVE Step(c, t, cur[k - 1], w[k], cur[k])
  <2>1. CASE k \in 1..n
    <3>1. cur[k - 1] = p[k - 1] /\ cur[k] = p[k]
      BY <1>4, <2>1, Zenon
    <3> QED
      BY <1>1, <1>2, <2>1, <3>1, Zenon
  <2>2. CASE k \in n + 1 .. n + m
    <3>1. cur[k] = q[k - n]
      BY <1>4, <2>2, Zenon
    <3>2. cur[k - 1] = q[(k - n) - 1]
      <4>1. CASE k - 1 <= n
        BY <1>2, <1>3, <1>4, <2>2, <4>1, Zenon
      <4>2. CASE ~(k - 1 <= n)
        BY <1>4, <2>2, <4>2, Zenon
      <4> QED
        BY <4>1, <4>2
    <3>3. Step(c, t, q[(k - n) - 1], u[k - n], q[k - n])
      BY <1>3, <1>4, <2>2, Zenon
    <3> QED
      BY <1>1, <2>2, <3>1, <3>2, <3>3, Zenon
  <2> QED
    BY <1>4, <2>1, <2>2, Zenon
<1> HIDE DEF cur
<1> QED
  BY <1>1, <1>5, <1>6, <1>7, <1>8, Zenon DEF Chain, w, S

\* The packets of one more input.
LEMMA ChunksChain ==
  ASSUME NEW c \in Clients, NEW t \in 1..Len(Inputs[c]), NEW n, n = Inputs[c][t]
  PROVE  /\ Chain(c, t, ChunksOf(c, t, n), [input |-> t, chunk |-> 1], End(t))
         /\ ChunksOf(c, t, n) \in Seq(Packet)
<1>1. n \in Nat \ {0} /\ t \in Nat \ {0}
  <2>1. Len(Inputs[c]) \in Nat
    BY ServiceAssumption, LenProperties
  <2> QED
    BY <2>1, InputType
<1> DEFINE s == ChunksOf(c, t, n)
           S == Cursors(c, t)
           cur == [k \in 0..n |-> IF k = n THEN End(t) ELSE [input |-> t, chunk |-> k + 1]]
<1>2. s \in Seq(Packet) /\ Len(s) = n
  <2>1. ASSUME NEW i \in 1..n
        PROVE  [type |-> IF n = 1 THEN "WHOLE" ELSE IF i < n THEN "MULS" ELSE "MULE",
                piece |-> Piece(c, t, i)] \in Packet
    <3>1. Piece(c, t, i) \in Pieces
      BY <1>1 DEF Piece, Pieces
    <3> QED
      BY <3>1 DEF Packet
  <2>2. s \in [1..n -> Packet]
    BY <2>1, Zenon DEF ChunksOf
  <2> HIDE DEF s
  <2> QED
    BY <1>1, <2>2, LenProperties
<1>3. ASSUME NEW k \in 0..n PROVE cur[k] \in S
  <2>1. CASE k = n
    <3>1. End(t) \in S
      BY <1>1 DEF End, Cursors, Cursor
    <3> QED
      BY <2>1, <3>1, Zenon
  <2>2. CASE k # n
    <3>1. [input |-> t, chunk |-> k + 1] \in Cursor /\ k + 1 <= n
      BY <1>1, <2>2 DEF Cursor
    <3>2. [input |-> t, chunk |-> k + 1] \in S
      BY <1>1, <3>1 DEF Cursors
    <3> QED
      BY <2>2, <3>2, Zenon
  <2> QED
    BY <2>1, <2>2
<1>4. cur \in [0..n -> S]
  BY <1>3, Zenon
<1>5. cur[0] = [input |-> t, chunk |-> 1] /\ cur[n] = End(t)
  BY <1>1
<1>6. ASSUME NEW k \in 1..n PROVE Step(c, t, cur[k - 1], s[k], cur[k])
  <2>1. cur[k - 1] = [input |-> t, chunk |-> k]
    BY <1>1
  <2> DEFINE q == [input |-> t, chunk |-> k]
  <2>2. q.input = t /\ q.chunk = k
    OBVIOUS
  <2>3. s[k] = PckAt(c, q)
    BY <2>2, Zenon DEF PckAt
  <2>4. cur[k] = After(c, q)
    <3>1. CASE k = n
      BY <1>1, <2>2, <3>1 DEF After, End
    <3>2. CASE k # n
      <4>1. k < n /\ k \in 0..n
        BY <1>1, <3>2
      <4> QED
        BY <2>2, <3>2, <4>1 DEF After
    <3> QED
      BY <3>1, <3>2
  <2>5. q.input <= t
    BY <1>1, <2>2
  <2> QED
    BY <2>1, <2>3, <2>4, <2>5, Zenon DEF Step
<1> HIDE DEF s, S, cur
<1>7. Chain(c, t, s, [input |-> t, chunk |-> 1], End(t))
  BY <1>2, <1>4, <1>5, <1>6, Zenon DEF Chain, S
<1> QED
  BY <1>2, <1>7 DEF s

-----------------------------------------------------------------------------
(* Type correctness *)

LEMMA TypeInit == Init => TypeOK
<1> SUFFICES ASSUME Init PROVE TypeOK
  OBVIOUS
<1>1. \A c \in Clients : Len(Inputs[c]) \in Nat
  BY ServiceAssumption, LenProperties
<1>2. typed \in [Clients -> Nat] /\ \A c \in Clients : typed[c] <= Len(Inputs[c])
  BY <1>1 DEF Init
<1>3. /\ {pcksToSend, channel, rcv_queue} \subseteq [Clients -> Seq(Packet)]
      /\ handled \in [Clients -> Seq(Seq(Pieces))]
      /\ datagrams \in Seq([from : Clients, pck : Packet])
      /\ connects \in Seq(Clients) /\ cache \in Seq(Pieces)
  BY EmptySeq DEF Init
<1>4. IsInjective(connects)
  BY DEF Init, IsInjective
<1> QED
  BY <1>2, <1>3, <1>4 DEF Init, TypeOK

\* What TypeOK says of the variables of the server.
LEMMA ServerType ==
  ASSUME TypeOK
  PROVE  /\ datagrams \in Seq(Datagram)
         /\ [keys |-> connects, queue |-> rcv_queue] \in Server
BY DEF TypeOK, Datagram, Server

\* An endpoint heard of again is not connected again.
LEMMA KeysOnce ==
  ASSUME NEW keys \in Seq(Clients), IsInjective(keys), NEW c \in Clients, ~Contains(keys, c)
  PROVE  IsInjective(Append(keys, c))
<1> DEFINE n == Len(keys)
           u == Append(keys, c)
<1>1. /\ n \in Nat /\ Len(u) = n + 1 /\ (\A k \in 1..n : u[k] = keys[k]) /\ u[n + 1] = c
      /\ \A k \in 1 .. n + 1 : k \in 1..n \/ k = n + 1
  BY AppendFacts
<1>2. DOMAIN keys = 1..n
  BY LenProperties
<1>3. DOMAIN u = 1 .. n + 1
  <2>1. u \in Seq(Clients)
    BY AppendProperties
  <2> QED
    BY <1>1, <2>1, LenProperties
<1>4. \A k \in 1..n : keys[k] # c
  BY Zenon DEF Contains
<1> HIDE DEF n, u
<1>5. ASSUME NEW i \in 1 .. n + 1, NEW j \in 1 .. n + 1, u[i] = u[j] PROVE i = j
  <2>1. CASE i \in 1..n /\ j \in 1..n
    BY <1>1, <1>2, <1>5, <2>1, Zenon DEF IsInjective
  <2>2. CASE i = n + 1 \/ j = n + 1
    BY <1>1, <1>4, <1>5, <2>2, Zenon
  <2> QED
    BY <1>1, <2>1, <2>2, Zenon
<1> QED
  BY <1>3, <1>5, Zenon DEF IsInjective, u

\* The table and the queues after HandleReceiveMsg.
LEMMA ReceivedType ==
  ASSUME TypeOK
  PROVE  HandleReceiveMsg \in Server /\ IsInjective(HandleReceiveMsg.keys)
<1> DEFINE n == Len(datagrams)
           base == [keys |-> connects, queue |-> rcv_queue]
<1>1. n \in Nat /\ datagrams \in Seq(Datagram) /\ base \in Server
  BY ServerType, LenProperties
<1>2. \A k \in 1..n : datagrams[k] \in Datagram
  BY <1>1, ElementOfSeq
<1>3. base.keys = connects
  OBVIOUS
<1> HIDE DEF n, base
<1>4. PICK v : TakesUp(v, n, datagrams, base) /\ HandleReceiveMsg = v[n]
  BY <1>1, Received, Zenon DEF n, base
<1>5. v \in [0..n -> Server] /\ v[0] = base /\ \A k \in 1..n : v[k] = Input(v[k - 1], datagrams[k])
  BY <1>4, Zenon DEF TakesUp
<1> DEFINE S == {k \in 0..n : IsInjective(v[k].keys)}
<1>6. 0 \in S
  <2>1. IsInjective(connects) /\ 0 \in 0..n
    BY <1>1 DEF TypeOK
  <2> QED
    BY <1>3, <1>5, <2>1, Zenon
<1>7. ASSUME NEW k \in 1..n, k - 1 \in S PROVE k \in S
  <2>1. k \in 0..n /\ k - 1 \in 0..n /\ IsInjective(v[k - 1].keys)
    BY <1>1, <1>7
  <2>2. PICK server \in Server : server = v[k - 1]
    BY <1>5, <2>1, Zenon
  <2>3. PICK d \in Datagram : d = datagrams[k]
    BY <1>2, Zenon
  <2>4. v[k] = Input(server, d)
    BY <1>5, <2>2, <2>3, Zenon
  <2>5. v[k].keys = IF Contains(server.keys, d.from) THEN server.keys
                    ELSE Append(server.keys, d.from)
    <3>1. Input(server, d).keys = IF Contains(server.keys, d.from) THEN server.keys
                                  ELSE Append(server.keys, d.from)
      BY InputFacts
    <3> QED
      BY <2>4, <3>1, Zenon
  <2>6. server.keys \in Seq(Clients) /\ d.from \in Clients
    BY DEF Server, Datagram
  <2>7. IsInjective(v[k].keys)
    <3>1. CASE Contains(server.keys, d.from)
      BY <2>1, <2>2, <2>5, <3>1, Zenon
    <3>2. CASE ~Contains(server.keys, d.from)
      BY <2>1, <2>2, <2>5, <2>6, <3>2, KeysOnce, Zenon
    <3> QED
      BY <3>1, <3>2
  <2> QED
    BY <2>1, <2>7
<1>8. n \in S
  <2> HIDE DEF S
  <2>1. \A k \in 0..n : k \in S
    BY <1>1, <1>6, <1>7, UpTo
  <2> QED
    BY <1>1, <2>1
<1>9. n \in 0..n
  BY <1>1
<1> QED
  BY <1>4, <1>5, <1>8, <1>9, Zenon

\* The packet at the head of the queue of c is taken and handled.
Handles(server, c) ==
  /\ server.queue[c] # <<>>
  /\ rcv_queue' = [server.queue EXCEPT ![c] = Tail(@)]
  /\ OnPckBytes(c, Head(server.queue[c]))

\* What is found readable has a packet.
LEMMA Readable ==
  ASSUME NEW keys \in Seq(Clients), NEW queue, FirstReadable(keys, queue) > 0
  PROVE  LET i == FirstReadable(keys, queue)
         IN keys[i] \in Clients /\ queue[keys[i]] # <<>>
<1> DEFINE I == {i \in 1..Len(keys) : queue[keys[i]] # <<>>}
           f == FirstReadable(keys, queue)
<1>1. f = IF I # {} THEN Min(I) ELSE 0
  BY DEF FirstReadable, SelectInSeq
<1>2. I # {} /\ f = Min(I)
  BY <1>1
<1>3. I \in SUBSET Nat
  BY LenProperties
<1>4. PICK g \in I : \A i \in I : g <= i
  BY <1>2, <1>3, Least, Zenon
<1>5. Min(I) = g
  <2>1. \A y \in I : (\A x \in I : y <= x) => y = g
    BY <1>3, <1>4
  <2> QED
    BY <1>4, <2>1, Zenon DEF Min
<1>6. g \in 1..Len(keys) /\ queue[keys[g]] # <<>>
  BY <1>4
<1>7. keys[g] \in Clients
  BY <1>6, ElementOfSeq
<1>8. f = g
  BY <1>2, <1>5, Zenon
<1> QED
  BY <1>6, <1>7, <1>8, Zenon

\* A tick of the service thread handles one packet, or finds none.
LEMMA TickFacts ==
  ASSUME TypeOK, ServerTick
  PROVE  LET server == HandleReceiveMsg
         IN /\ connects' = server.keys /\ datagrams' = <<>>
            /\ UNCHANGED <<clientVars, channel>>
            /\ \/ rcv_queue' = server.queue /\ UNCHANGED <<cache, handled, alive>>
               \/ \E c \in Clients : Handles(server, c)
<1>1. PICK server \in Server : server = HandleReceiveMsg
  BY ReceivedType, Zenon
<1> DEFINE i == FirstReadable(server.keys, server.queue)
           c == server.keys[i]
<1>2. /\ connects' = server.keys /\ datagrams' = <<>>
      /\ UNCHANGED <<clientVars, channel>>
      /\ \/ rcv_queue' = server.queue /\ UNCHANGED <<cache, handled, alive>>
         \/ /\ i > 0
            /\ rcv_queue' = [server.queue EXCEPT ![c] = Tail(@)]
            /\ OnPckBytes(c, Head(server.queue[c]))
  BY <1>1, Zenon DEF ServerTick
<1>3. server.keys \in Seq(Clients)
  BY DEF Server
<1>4. i > 0 => c \in Clients /\ server.queue[c] # <<>>
  BY <1>3, Readable, Zenon
<1> HIDE DEF i, c
<1>5. \/ rcv_queue' = server.queue /\ UNCHANGED <<cache, handled, alive>>
      \/ \E e \in Clients : Handles(server, e)
  BY <1>2, <1>4, Zenon DEF Handles
<1> QED
  BY <1>1, <1>2, <1>5, Zenon

\* What a packet handled leaves.
LEMMA HandlerType ==
  ASSUME NEW c \in Clients, NEW pck \in Packet, OnPckBytes(c, pck),
         cache \in Seq(Pieces), handled \in [Clients -> Seq(Seq(Pieces))]
  PROVE  /\ cache' \in Seq(Pieces) /\ handled' \in [Clients -> Seq(Seq(Pieces))]
         /\ alive' \subseteq alive
<1>1. pck.piece \in Pieces
  BY DEF Packet
<1>2. Append(cache, pck.piece) \in Seq(Pieces)
  BY <1>1, AppendProperties
<1>3. ASSUME NEW x \in Seq(Pieces), PacketHandler(c, x)
      PROVE  handled' \in [Clients -> Seq(Seq(Pieces))]
  <2>1. Append(handled[c], x) \in Seq(Seq(Pieces))
    BY AppendProperties
  <2> QED
    BY <1>3, <2>1 DEF PacketHandler
<1>4. CASE /\ pck.type = "MULS" /\ cache' = Append(cache, pck.piece)
           /\ UNCHANGED <<handled, alive>>
  BY <1>2, <1>4
<1>5. CASE \E type \in TypesOf(Append(cache, pck.piece)) :
             /\ cache' = IF type = "MULS" THEN Append(cache, pck.piece) ELSE <<>>
             /\ IF type = "WHOLE" THEN PacketHandler(c, Append(cache, pck.piece))
                ELSE UNCHANGED handled
             /\ alive' = IF type = "none" THEN alive \ {"service"} ELSE alive
  <2>1. <<>> \in Seq(Pieces)
    BY EmptySeq
  <2>2. cache' \in Seq(Pieces)
    BY <1>2, <1>5, <2>1
  <2>3. handled' \in [Clients -> Seq(Seq(Pieces))]
    BY <1>2, <1>3, <1>5
  <2>4. alive' \subseteq alive
    BY <1>5
  <2> QED
    BY <2>2, <2>3, <2>4
<1>6. CASE PacketHandler(c, <<pck.piece>>) /\ UNCHANGED <<cache, alive>>
  <2>1. <<pck.piece>> \in Seq(Pieces)
    BY <1>1
  <2> QED
    BY <1>3, <1>6, <2>1
<1> QED
  BY <1>4, <1>5, <1>6, Zenon DEF OnPckBytes

LEMMA TypeStep == TypeOK /\ [Next]_vars => TypeOK'
<1> SUFFICES ASSUME TypeOK, [Next]_vars PROVE TypeOK'
  OBVIOUS
<1>1. /\ typed \in [Clients -> Nat] /\ \A c \in Clients : typed[c] <= Len(Inputs[c])
      /\ pcksToSend \in [Clients -> Seq(Packet)] /\ channel \in [Clients -> Seq(Packet)]
      /\ rcv_queue \in [Clients -> Seq(Packet)]
      /\ datagrams \in Seq(Datagram)
      /\ connects \in Seq(Clients) /\ IsInjective(connects)
      /\ cache \in Seq(Pieces)
      /\ handled \in [Clients -> Seq(Seq(Pieces))]
      /\ alive \subseteq {"receive", "service"}
  BY DEF TypeOK, Datagram
<1>2. ASSUME NEW c \in Clients, Type(c)
      PROVE  TypeOK'
  <2>1. typed[c] < Len(Inputs[c]) /\ typed' = [typed EXCEPT ![c] = typed[c] + 1]
    BY <1>2, Zenon DEF Type
  <2>2. typed' \in [Clients -> Nat] /\ \A d \in Clients : typed'[d] <= Len(Inputs[d])
    <3>1. Len(Inputs[c]) \in Nat /\ typed[c] \in Nat
      BY <1>1, ServiceAssumption, LenProperties
    <3>2. typed[c] + 1 \in Nat /\ typed[c] + 1 <= Len(Inputs[c])
      BY <2>1, <3>1
    <3>3. typed \in [Clients -> Nat]
      BY <1>1
    <3>4. typed' \in [Clients -> Nat]
      BY <2>1, <3>2, <3>3
    <3>5. ASSUME NEW d \in Clients PROVE typed'[d] <= Len(Inputs[d])
      <4>1. typed[d] <= Len(Inputs[d])
        BY <1>1
      <4>2. typed'[d] = IF d = c THEN typed[c] + 1 ELSE typed[d]
        BY <2>1, <3>3
      <4> QED
        BY <3>2, <4>1, <4>2, Zenon
    <3> QED
      BY <3>4, <3>5
  <2>3. typed'[c] \in 1..Len(Inputs[c])
    <3>1. Len(Inputs[c]) \in Nat /\ typed[c] \in Nat
      BY <1>1, ServiceAssumption, LenProperties
    <3> QED
      BY <1>1, <2>1, <3>1
  <2> DEFINE x == ChunksOf(c, typed'[c], Inputs[c][typed'[c]])
  <2>4. x \in Seq(Packet)
    BY <2>3, ChunksChain
  <2>5. pcksToSend' = [pcksToSend EXCEPT ![c] = pcksToSend[c] \o x]
    BY <1>2, Zenon DEF Type
  <2> HIDE DEF x
  <2>6. pcksToSend[c] \o x \in Seq(Packet)
    <3>1. pcksToSend[c] \in Seq(Packet)
      BY <1>1
    <3> QED
      BY <2>4, <3>1, ConcatProperties
  <2>7. pcksToSend' \in [Clients -> Seq(Packet)]
    BY <1>1, <2>5, <2>6
  <2> QED
    BY <1>1, <1>2, <2>2, <2>7 DEF Type, TypeOK, serverVars, Datagram
<1>3. ASSUME NEW c \in Clients, ClientTick(c)
      PROVE  TypeOK'
  <2>1. pcksToSend[c] \in Seq(Packet) /\ pcksToSend[c] # <<>> /\ channel[c] \in Seq(Packet)
    BY <1>1, <1>3 DEF ClientTick
  <2>2. Head(pcksToSend[c]) \in Packet /\ Tail(pcksToSend[c]) \in Seq(Packet)
    BY <2>1, HeadTailProperties
  <2>3. Append(channel[c], Head(pcksToSend[c])) \in Seq(Packet)
    BY <2>1, <2>2, AppendProperties
  <2>4. channel' \in [Clients -> Seq(Packet)] /\ pcksToSend' \in [Clients -> Seq(Packet)]
    BY <1>1, <1>3, <2>2, <2>3 DEF ClientTick
  <2> QED
    BY <1>1, <1>3, <2>4 DEF ClientTick, TypeOK, serverVars, Datagram
<1>4. ASSUME NEW c \in Clients, Receive(c)
      PROVE  TypeOK'
  <2>1. channel[c] # <<>> /\ channel[c] \in Seq(Packet)
    BY <1>1, <1>4 DEF Receive
  <2>2. Head(channel[c]) \in Packet /\ Tail(channel[c]) \in Seq(Packet)
    BY <2>1, HeadTailProperties
  <2>3. [from |-> c, pck |-> Head(channel[c])] \in Datagram
    BY <2>2 DEF Datagram
  <2>4. datagrams' \in Seq(Datagram)
    BY <1>1, <1>4, <2>3, AppendProperties DEF Receive
  <2>5. channel' \in [Clients -> Seq(Packet)]
    BY <1>1, <1>4, <2>2 DEF Receive
  <2> QED
    BY <1>1, <1>4, <2>4, <2>5 DEF Receive, TypeOK, serverVars, clientVars, Datagram
<1>5. CASE ServerTick
  <2>1. PICK server \in Server : server = HandleReceiveMsg /\ IsInjective(server.keys)
    BY ReceivedType, Zenon
  <2>2. server.keys \in Seq(Clients) /\ server.queue \in [Clients -> Seq(Packet)]
    BY DEF Server
  <2>3. /\ connects' = server.keys /\ datagrams' = <<>>
        /\ UNCHANGED <<clientVars, channel>>
        /\ \/ rcv_queue' = server.queue /\ UNCHANGED <<cache, handled, alive>>
           \/ \E c \in Clients : Handles(server, c)
    BY <1>5, <2>1, TickFacts, Zenon
  <2>4. /\ rcv_queue' \in [Clients -> Seq(Packet)]
        /\ cache' \in Seq(Pieces) /\ handled' \in [Clients -> Seq(Seq(Pieces))]
        /\ alive' \subseteq alive
    <3>1. CASE rcv_queue' = server.queue /\ UNCHANGED <<cache, handled, alive>>
      BY <1>1, <2>2, <3>1
    <3>2. ASSUME NEW c \in Clients, Handles(server, c)
          PROVE  /\ rcv_queue' \in [Clients -> Seq(Packet)]
                 /\ cache' \in Seq(Pieces) /\ handled' \in [Clients -> Seq(Seq(Pieces))]
                 /\ alive' \subseteq alive
      <4>1. server.queue[c] \in Seq(Packet) /\ server.queue[c] # <<>>
        BY <2>2, <3>2 DEF Handles
      <4>2. Head(server.queue[c]) \in Packet /\ Tail(server.queue[c]) \in Seq(Packet)
        BY <4>1, HeadTailProperties
      <4>3. OnPckBytes(c, Head(server.queue[c]))
            /\ rcv_queue' = [server.queue EXCEPT ![c] = Tail(server.queue[c])]
        BY <3>2, Zenon DEF Handles
      <4>4. rcv_queue' \in [Clients -> Seq(Packet)]
        BY <2>2, <4>2, <4>3
      <4> QED
        BY <1>1, <4>2, <4>3, <4>4, HandlerType, Zenon
    <3> QED
      BY <2>3, <3>1, <3>2
  <2>5. <<>> \in Seq([from : Clients, pck : Packet])
    OBVIOUS
  <2> QED
    BY <1>1, <2>1, <2>2, <2>3, <2>4, <2>5 DEF TypeOK, clientVars
<1>6. ASSUME NEW t \in {"receive", "service"}, ThreadEnds(t)
      PROVE  TypeOK'
  BY <1>1, <1>6 DEF ThreadEnds, TypeOK, clientVars, serverVars, Datagram
<1>7. ASSUME NEW c \in Clients, Again(c)
      PROVE  TypeOK'
  <2>1. /\ typed' = [typed EXCEPT ![c] = 0] /\ handled' = [handled EXCEPT ![c] = <<>>]
        /\ UNCHANGED <<pcksToSend, channel, datagrams, connects, rcv_queue, cache, alive>>
    BY <1>7 DEF Again
  <2>2. \A d \in Clients : Len(Inputs[d]) \in Nat
    BY ServiceAssumption, LenProperties
  <2>3. typed' \in [Clients -> Nat] /\ \A d \in Clients : typed'[d] <= Len(Inputs[d])
    BY <1>1, <2>1, <2>2
  <2>4. <<>> \in Seq(Seq(Pieces))
    BY EmptySeq
  <2>5. handled' \in [Clients -> Seq(Seq(Pieces))]
    BY <1>1, <2>1, <2>4
  <2> QED
    BY <1>1, <2>1, <2>3, <2>5 DEF TypeOK, Datagram
<1>8. CASE UNCHANGED vars
  BY <1>1, <1>8 DEF vars, TypeOK, clientVars, serverVars, Datagram
<1> QED
  BY <1>2, <1>3, <1>4, <1>5, <1>6, <1>7, <1>8, Zenon DEF Next

\* The variables of the service keep their types, and the table of the server
\* (KCPUtil._KCPConnects) has each endpoint once, however many of its datagrams
\* are handled in one tick.
THEOREM TypeCorrect == Spec => []TypeOK
<1> QED
  BY TypeInit, TypeStep, PTL DEF Spec

-----------------------------------------------------------------------------
(* What is handled is what was typed *)

\* c sends something in more than one packet.
Chunker(c) == \E m \in 1..Len(Inputs[c]) : Inputs[c][m] > 1

\* At most one client does: _kcpPckReceiveCache is one list for all.
OneChunker == \A c, d \in Clients : Chunker(c) /\ Chunker(d) => c = d

\* The place of the packet of c that is to be handled next.
Position(c) ==
  [input |-> Len(handled[c]) + 1, chunk |-> IF Chunker(c) THEN Len(cache) + 1 ELSE 1]

\* From there the packets of c go on in the control block, the datagrams, the
\* channel and the queue of the client, up to the last that was typed.
Flow(c) ==
  \E p, q, r \in Cursors(c, typed[c]) :
    /\ Chain(c, typed[c], rcv_queue[c], Position(c), p)
    /\ ChainFrom(c, typed[c], datagrams, p, q)
    /\ Chain(c, typed[c], channel[c], q, r)
    /\ Chain(c, typed[c], pcksToSend[c], r, End(typed[c]))

\* The cache has the pieces of the input that is being handled.
CacheOf(c) ==
  IF Chunker(c) THEN \A i \in 1..Len(cache) : cache[i] = Piece(c, Len(handled[c]) + 1, i)
  ELSE TRUE

HandledPieces(c) == \A m \in 1..Len(handled[c]) : handled[c][m] = InputPieces(c, m)

\* The inductive invariant.
IInv ==
  /\ TypeOK
  /\ (\A c \in Clients : ~Chunker(c)) => cache = <<>>
  /\ \A c \in Clients : Flow(c) /\ CacheOf(c) /\ HandledPieces(c)

LEMMA ChainStart ==
  ASSUME NEW c, NEW t, NEW s, NEW a, NEW b, Chain(c, t, s, a, b), Len(s) \in Nat
  PROVE  a \in Cursors(c, t)
<1>1. PICK cur \in [0..Len(s) -> Cursors(c, t)] : cur[0] = a
  BY Zenon DEF Chain
<1>2. 0 \in 0..Len(s)
  OBVIOUS
<1> QED
  BY <1>1, <1>2, Zenon

\* A chain stays one when more is typed.
LEMMA CursorsGrow ==
  ASSUME NEW c \in Clients, NEW t \in Nat, t + 1 \in 1..Len(Inputs[c])
  PROVE  /\ Cursors(c, t) \subseteq Cursors(c, t + 1)
         /\ \A q \in Cursors(c, t) : \A pck, r : Step(c, t, q, pck, r) => Step(c, t + 1, q, pck, r)
<1>1. Inputs[c][t + 1] \in Nat \ {0}
  BY InputType
<1>2. ASSUME NEW q \in Cursors(c, t) PROVE q \in Cursors(c, t + 1)
  <2>1. q \in Cursor /\ q.input \in Nat \ {0} /\ q.chunk \in Nat \ {0}
    BY DEF Cursors, Cursor
  <2>2. CASE q.input <= t /\ q.chunk <= Inputs[c][q.input]
    <3>1. q.input <= t + 1
      BY <2>1, <2>2
    <3> QED
      BY <2>1, <2>2, <3>1, Zenon DEF Cursors
  <2>3. CASE q = End(t)
    <3>1. q.input = t + 1 /\ q.chunk = 1
      BY <2>3 DEF End
    <3>2. q.input <= t + 1 /\ q.chunk <= Inputs[c][q.input]
      BY <1>1, <3>1
    <3> QED
      BY <2>1, <3>2, Zenon DEF Cursors
  <2> QED
    BY <2>2, <2>3, Zenon DEF Cursors
<1>3. ASSUME NEW q \in Cursors(c, t), NEW pck, NEW r, Step(c, t, q, pck, r)
      PROVE  Step(c, t + 1, q, pck, r)
  <2>1. q.input \in Nat
    BY DEF Cursors, Cursor
  <2>2. q.input <= t + 1
    BY <1>3, <2>1 DEF Step
  <2> QED
    BY <1>3, <2>2, Zenon DEF Step
<1> QED
  BY <1>2, <1>3, Zenon

LEMMA ChainGrows ==
  ASSUME NEW c \in Clients, NEW t \in Nat, t + 1 \in 1..Len(Inputs[c]),
         NEW s, NEW a, NEW b, Len(s) \in Nat
  PROVE  /\ Chain(c, t, s, a, b) => Chain(c, t + 1, s, a, b)
         /\ ChainFrom(c, t, s, a, b) => ChainFrom(c, t + 1, s, a, b)
<1> DEFINE n == Len(s)
           S == Cursors(c, t)
           U == Cursors(c, t + 1)
<1>1. S \subseteq U /\ \A q \in S : \A pck, r : Step(c, t, q, pck, r) => Step(c, t + 1, q, pck, r)
  BY CursorsGrow, Zenon
<1>2. n \in Nat /\ \A k \in 1..n : k - 1 \in 0..n
  OBVIOUS
<1> HIDE DEF n, S, U
<1>3. ASSUME NEW cur \in [0..n -> S] PROVE cur \in [0..n -> U]
  BY <1>1, Zenon
<1>4. ASSUME Chain(c, t, s, a, b) PROVE Chain(c, t + 1, s, a, b)
  <2>1. PICK cur \in [0..n -> S] :
          /\ cur[0] = a /\ cur[n] = b
          /\ \A k \in 1..n : Step(c, t, cur[k - 1], s[k], cur[k])
    BY <1>4, Zenon DEF Chain, n, S
  <2>2. \A k \in 1..n : Step(c, t + 1, cur[k - 1], s[k], cur[k])
    BY <1>1, <1>2, <2>1, Zenon
  <2> QED
    BY <1>3, <2>1, <2>2, Zenon DEF Chain, n, U
<1>5. ASSUME ChainFrom(c, t, s, a, b) PROVE ChainFrom(c, t + 1, s, a, b)
  <2>1. PICK cur \in [0..n -> S] :
          /\ cur[0] = a /\ cur[n] = b
          /\ \A k \in 1..n : Link(c, t, cur[k - 1], s[k], cur[k])
    BY <1>5, Zenon DEF ChainFrom, n, S
  <2>2. \A k \in 1..n : Link(c, t + 1, cur[k - 1], s[k], cur[k])
    BY <1>1, <1>2, <2>1, Zenon DEF Link
  <2> QED
    BY <1>3, <2>1, <2>2, Zenon DEF ChainFrom, n, U
<1> QED
  BY <1>4, <1>5, Zenon

\* HandleReceiveMsg moves the datagrams of c to the end of its queue.
LEMMA Delivered ==
  ASSUME TypeOK, NEW c \in Clients, NEW t, NEW a, NEW p, NEW q,
         Chain(c, t, rcv_queue[c], a, p), ChainFrom(c, t, datagrams, p, q)
  PROVE  Chain(c, t, HandleReceiveMsg.queue[c], a, q)
<1> DEFINE n == Len(datagrams)
           base == [keys |-> connects, queue |-> rcv_queue]
           S == Cursors(c, t)
<1>1. n \in Nat /\ datagrams \in Seq(Datagram) /\ base \in Server
  BY ServerType, LenProperties
<1>2. \A k \in 1..n : datagrams[k] \in Datagram
  BY <1>1, ElementOfSeq
<1>3. base.queue = rcv_queue
  OBVIOUS
<1> HIDE DEF n, base, S
<1>4. PICK v : TakesUp(v, n, datagrams, base) /\ HandleReceiveMsg = v[n]
  BY <1>1, Received, Zenon DEF n, base
<1>5. v \in [0..n -> Server] /\ v[0] = base /\ \A k \in 1..n : v[k] = Input(v[k - 1], datagrams[k])
  BY <1>4, Zenon DEF TakesUp
<1>6. PICK cur \in [0..n -> S] :
        /\ cur[0] = p /\ cur[n] = q
        /\ \A k \in 1..n : Link(c, t, cur[k - 1], datagrams[k], cur[k])
  BY Zenon DEF ChainFrom, n, S
<1> DEFINE G == {k \in 0..n : Chain(c, t, v[k].queue[c], a, cur[k])}
<1>7. 0 \in G
  <2>1. 0 \in 0..n
    BY <1>1
  <2> QED
    BY <1>3, <1>5, <1>6, <2>1, Zenon
<1>8. ASSUME NEW k \in 1..n, k - 1 \in G PROVE k \in G
  <2>1. k \in 0..n /\ k - 1 \in 0..n
    BY <1>1
  <2>2. PICK server \in Server : server = v[k - 1]
    BY <1>5, <2>1, Zenon
  <2>3. PICK d \in Datagram : d = datagrams[k]
    BY <1>2, Zenon
  <2>4. v[k] = Input(server, d)
    BY <1>5, <2>2, <2>3, Zenon
  <2>5. server.queue[c] \in Seq(Packet) /\ d.pck \in Packet
    BY DEF Server, Datagram
  <2>6. Chain(c, t, server.queue[c], a, cur[k - 1])
    BY <1>8, <2>2
  <2>7. Link(c, t, cur[k - 1], d, cur[k]) /\ cur[k] \in S
    BY <1>6, <2>1, <2>3, Zenon
  <2>8. Input(server, d).queue[c]
          = IF d.from = c THEN Append(server.queue[c], d.pck) ELSE server.queue[c]
    BY InputFacts
  <2>9. CASE d.from = c
    <3>1. Step(c, t, cur[k - 1], d.pck, cur[k])
      BY <2>7, <2>9, Zenon DEF Link
    <3>2. Chain(c, t, Append(server.queue[c], d.pck), a, cur[k])
      BY <2>5, <2>6, <2>7, <3>1, ChainAppend, Zenon DEF S
    <3>3. v[k].queue[c] = Append(server.queue[c], d.pck)
      BY <2>4, <2>8, <2>9, Zenon
    <3> QED
      BY <2>1, <3>2, <3>3, Zenon
  <2>10. CASE d.from # c
    <3>1. cur[k] = cur[k - 1]
      BY <2>7, <2>10, Zenon DEF Link
    <3>2. v[k].queue[c] = server.queue[c]
      BY <2>4, <2>8, <2>10, Zenon
    <3> QED
      BY <2>1, <2>6, <3>1, <3>2, Zenon
  <2> QED
    BY <2>9, <2>10
<1>9. n \in G
  <2> HIDE DEF G
  <2>1. \A k \in 0..n : k \in G
    BY <1>1, <1>7, <1>8, UpTo
  <2> QED
    BY <1>1, <2>1
<1> QED
  BY <1>4, <1>6, <1>9, Zenon

LEMMA InvariantInit == Init => IInv
<1> SUFFICES ASSUME Init PROVE IInv
  OBVIOUS
<1>1. TypeOK
  BY TypeInit
<1>2. cache = <<>> /\ datagrams = <<>>
  BY DEF Init
<1>3. ASSUME NEW c \in Clients PROVE Flow(c) /\ CacheOf(c) /\ HandledPieces(c)
  <2>1. /\ typed[c] = 0 /\ rcv_queue[c] = <<>> /\ channel[c] = <<>>
        /\ pcksToSend[c] = <<>> /\ handled[c] = <<>>
    BY DEF Init
  <2>2. Position(c) = End(typed[c])
    BY <1>2, <2>1 DEF Position, End
  <2>3. End(typed[c]) \in Cursors(c, typed[c])
    BY <2>1 DEF End, Cursors, Cursor
  <2> DEFINE e == End(typed[c])
  <2>4. /\ Chain(c, typed[c], <<>>, e, e) /\ ChainFrom(c, typed[c], <<>>, e, e)
        /\ e \in Cursors(c, typed[c])
    BY <2>3, ChainEmpty, Zenon
  <2>5. Flow(c)
    BY <1>2, <2>1, <2>2, <2>4, Zenon DEF Flow
  <2>6. CacheOf(c) /\ HandledPieces(c)
    BY <1>2, <2>1 DEF CacheOf, HandledPieces
  <2> QED
    BY <2>5, <2>6
<1> QED
  BY <1>1, <1>2, <1>3, Zenon DEF IInv

\* A step that leaves alone what the invariant says of c.
LEMMA Untouched ==
  ASSUME NEW c \in Clients, Flow(c), CacheOf(c), HandledPieces(c),
         typed'[c] = typed[c], rcv_queue'[c] = rcv_queue[c], datagrams' = datagrams,
         channel'[c] = channel[c], pcksToSend'[c] = pcksToSend[c],
         cache' = cache, handled'[c] = handled[c]
  PROVE  Flow(c)' /\ CacheOf(c)' /\ HandledPieces(c)'
<1>1. Position(c)' = Position(c)
  BY Zenon DEF Position
<1>2. Flow(c)'
  BY <1>1, Zenon DEF Flow
<1>3. CacheOf(c)'
  BY Zenon DEF CacheOf
<1>4. HandledPieces(c)'
  BY Zenon DEF HandledPieces
<1> QED
  BY <1>2, <1>3, <1>4

\* A step of the client or of the receive thread hands nothing on to a handler.
LEMMA NothingHandled ==
  ASSUME NEW c \in Clients, CacheOf(c), HandledPieces(c),
         cache' = cache, handled'[c] = handled[c]
  PROVE  CacheOf(c)' /\ HandledPieces(c)' /\ Position(c)' = Position(c)
<1>1. Position(c)' = Position(c)
  BY Zenon DEF Position
<1>2. CacheOf(c)'
  BY Zenon DEF CacheOf
<1>3. HandledPieces(c)'
  BY Zenon DEF HandledPieces
<1> QED
  BY <1>1, <1>2, <1>3

LEMMA QueueTypes ==
  ASSUME TypeOK, NEW c \in Clients
  PROVE  /\ typed[c] \in Nat /\ typed[c] <= Len(Inputs[c]) /\ Len(Inputs[c]) \in Nat
         /\ typed[c] \in 0..Len(Inputs[c])
         /\ pcksToSend[c] \in Seq(Packet) /\ channel[c] \in Seq(Packet)
         /\ rcv_queue[c] \in Seq(Packet)
         /\ Len(pcksToSend[c]) \in Nat /\ Len(channel[c]) \in Nat
         /\ Len(rcv_queue[c]) \in Nat /\ Len(datagrams) \in Nat
<1>1. typed[c] \in Nat /\ typed[c] <= Len(Inputs[c]) /\ Len(Inputs[c]) \in Nat
  BY ServiceAssumption, LenProperties DEF TypeOK
<1>2. /\ pcksToSend[c] \in Seq(Packet) /\ channel[c] \in Seq(Packet)
      /\ rcv_queue[c] \in Seq(Packet)
  BY DEF TypeOK
<1>3. datagrams \in Seq(Datagram)
  BY ServerType
<1> QED
  BY <1>1, <1>2, <1>3, LenProperties

LEMMA TypeFlows ==
  ASSUME IInv, NEW c \in Clients, Type(c)
  PROVE  Flow(c)'
<1>1. TypeOK /\ Flow(c) /\ CacheOf(c) /\ HandledPieces(c)
  BY DEF IInv
<1> DEFINE t == typed[c]
           u == t + 1
           S == Cursors(c, t)
           U == Cursors(c, u)
           x == ChunksOf(c, u, Inputs[c][u])
<1>2. /\ typed' = [typed EXCEPT ![c] = t + 1]
      /\ UNCHANGED <<channel, datagrams, serverVars, alive>>
      /\ t < Len(Inputs[c])
      /\ pcksToSend' = [pcksToSend EXCEPT ![c] = pcksToSend[c]
                                      \o ChunksOf(c, typed'[c], Inputs[c][typed'[c]])]
  BY Zenon DEF Type
<1>3. /\ t \in Nat /\ Len(Inputs[c]) \in Nat /\ pcksToSend[c] \in Seq(Packet)
      /\ Len(pcksToSend[c]) \in Nat /\ Len(channel[c]) \in Nat
      /\ Len(rcv_queue[c]) \in Nat /\ Len(datagrams) \in Nat
  BY <1>1, QueueTypes
<1>4. typed'[c] = u
  BY <1>1, <1>2 DEF TypeOK
<1>5. pcksToSend'[c] = pcksToSend[c] \o x
  <2>1. pcksToSend'[c] = pcksToSend[c] \o ChunksOf(c, typed'[c], Inputs[c][typed'[c]])
    BY <1>1, <1>2 DEF TypeOK
  <2> QED
    BY <1>4, <2>1, Zenon
<1>6. u \in 1..Len(Inputs[c])
  BY <1>2, <1>3
<1>7. Chain(c, u, x, End(t), End(u)) /\ x \in Seq(Packet)
  <2>1. End(t) = [input |-> u, chunk |-> 1]
    BY DEF End
  <2> QED
    BY <1>6, <2>1, ChunksChain
<1>8. PICK p \in S, q \in S, r \in S :
        /\ Chain(c, t, rcv_queue[c], Position(c), p)
        /\ ChainFrom(c, t, datagrams, p, q)
        /\ Chain(c, t, channel[c], q, r)
        /\ Chain(c, t, pcksToSend[c], r, End(t))
  BY <1>1, Zenon DEF Flow
<1>9. p \in U /\ q \in U /\ r \in U
  BY <1>3, <1>6, <1>8, CursorsGrow, Zenon
<1>10. /\ Chain(c, u, rcv_queue[c], Position(c), p)
       /\ ChainFrom(c, u, datagrams, p, q)
       /\ Chain(c, u, channel[c], q, r)
       /\ Chain(c, u, pcksToSend[c], r, End(t))
  BY <1>3, <1>6, <1>8, ChainGrows, Zenon
<1> HIDE DEF t, u, x, S
<1>11. Chain(c, u, pcksToSend[c] \o x, r, End(u))
  BY <1>3, <1>7, <1>10, ChainConcat, Zenon
<1>12. /\ Position(c)' = Position(c) /\ rcv_queue' = rcv_queue /\ datagrams' = datagrams
       /\ channel' = channel
  <2>1. handled' = handled /\ cache' = cache
    BY <1>2 DEF serverVars
  <2>2. Position(c)' = Position(c)
    BY <2>1, Zenon DEF Position
  <2> QED
    BY <1>2, <2>2 DEF serverVars
<1> QED
  BY <1>4, <1>5, <1>9, <1>10, <1>11, <1>12, Zenon DEF Flow

LEMMA ClientTickFlows ==
  ASSUME IInv, NEW c \in Clients, ClientTick(c)
  PROVE  Flow(c)'
<1>1. TypeOK /\ Flow(c)
  BY DEF IInv
<1> DEFINE t == typed[c]
           S == Cursors(c, t)
<1>2. /\ UNCHANGED <<typed, datagrams, serverVars, alive>>
      /\ pcksToSend[c] # <<>>
      /\ channel'[c] = Append(channel[c], Head(pcksToSend[c]))
      /\ pcksToSend'[c] = Tail(pcksToSend[c])
  BY <1>1 DEF ClientTick, TypeOK
<1>3. /\ t \in 0..Len(Inputs[c]) /\ pcksToSend[c] \in Seq(Packet)
      /\ channel[c] \in Seq(Packet)
  BY <1>1, QueueTypes
<1>4. PICK p \in S, q \in S, r \in S :
        /\ Chain(c, t, rcv_queue[c], Position(c), p)
        /\ ChainFrom(c, t, datagrams, p, q)
        /\ Chain(c, t, channel[c], q, r)
        /\ Chain(c, t, pcksToSend[c], r, End(t))
  BY <1>1, Zenon DEF Flow
<1>5. /\ r.input <= t /\ Head(pcksToSend[c]) = PckAt(c, r)
      /\ Chain(c, t, Tail(pcksToSend[c]), After(c, r), End(t))
  BY <1>2, <1>3, <1>4, ChainHead, Zenon
<1>6. After(c, r) \in S
  BY <1>3, <1>4, <1>5, PlaceFacts, Zenon
<1>7. Head(pcksToSend[c]) \in Packet
  BY <1>2, <1>3, HeadTailProperties
<1>8. Step(c, t, r, Head(pcksToSend[c]), After(c, r))
  BY <1>5, Zenon DEF Step
<1>9. Chain(c, t, Append(channel[c], Head(pcksToSend[c])), q, After(c, r))
  BY <1>3, <1>4, <1>6, <1>7, <1>8, ChainAppend, Zenon
<1>10. /\ Position(c)' = Position(c) /\ rcv_queue' = rcv_queue /\ datagrams' = datagrams
       /\ typed' = typed
  <2>1. handled' = handled /\ cache' = cache
    BY <1>2 DEF serverVars
  <2>2. Position(c)' = Position(c)
    BY <2>1, Zenon DEF Position
  <2> QED
    BY <1>2, <2>2 DEF serverVars
<1> QED
  BY <1>2, <1>4, <1>5, <1>6, <1>9, <1>10, Zenon DEF Flow

\* A datagram of c goes from the channel to the receive queue of the socket; it
\* leaves the chains of the others as they are.
LEMMA ReceiveFlows ==
  ASSUME IInv, NEW c \in Clients, Receive(c), NEW d \in Clients
  PROVE  Flow(d)'
<1>1. TypeOK /\ Flow(d)
  BY DEF IInv
<1> DEFINE t == typed[d]
           S == Cursors(d, t)
           new == [from |-> c, pck |-> Head(channel[c])]
<1>2. /\ UNCHANGED <<clientVars, serverVars, alive>>
      /\ channel[c] # <<>>
      /\ channel' = [channel EXCEPT ![c] = Tail(channel[c])]
      /\ datagrams' = Append(datagrams, new)
  BY Zenon DEF Receive
<1>3. /\ t \in 0..Len(Inputs[d]) /\ channel[d] \in Seq(Packet) /\ channel[c] \in Seq(Packet)
      /\ datagrams \in Seq(Datagram)
  BY <1>1, QueueTypes, ServerType
<1>4. PICK p \in S, q \in S, r \in S :
        /\ Chain(d, t, rcv_queue[d], Position(d), p)
        /\ ChainFrom(d, t, datagrams, p, q)
        /\ Chain(d, t, channel[d], q, r)
        /\ Chain(d, t, pcksToSend[d], r, End(t))
  BY <1>1, Zenon DEF Flow
<1>5. Head(channel[c]) \in Packet
  BY <1>2, <1>3, HeadTailProperties
<1>6. new \in Datagram /\ new.from = c /\ new.pck = Head(channel[c])
  BY <1>5 DEF Datagram
<1>7. /\ Position(d)' = Position(d) /\ rcv_queue' = rcv_queue /\ pcksToSend' = pcksToSend
      /\ typed' = typed
  <2>1. handled' = handled /\ cache' = cache
    BY <1>2 DEF serverVars
  <2>2. Position(d)' = Position(d)
    BY <2>1, Zenon DEF Position
  <2> QED
    BY <1>2, <2>2 DEF serverVars, clientVars
<1> HIDE DEF new
<1>8. CASE d = c
  <2>1. channel'[d] = Tail(channel[d])
    BY <1>1, <1>2, <1>8 DEF TypeOK
  <2>2. channel[d] # <<>>
    BY <1>2, <1>8
  <2>3. /\ q.input <= t /\ Head(channel[d]) = PckAt(d, q)
        /\ Chain(d, t, Tail(channel[d]), After(d, q), r)
    BY <1>3, <1>4, <2>2, ChainHead, Zenon
  <2>4. After(d, q) \in S
    BY <1>3, <1>4, <2>3, PlaceFacts, Zenon
  <2>5. Link(d, t, q, new, After(d, q))
    <3>1. new.from = d /\ new.pck = Head(channel[d])
      BY <1>6, <1>8
    <3> QED
      BY <2>3, <3>1, Zenon DEF Link, Step
  <2>6. ChainFrom(d, t, Append(datagrams, new), p, After(d, q))
    BY <1>3, <1>4, <1>6, <2>4, <2>5, ChainFromAppend, Zenon
  <2> QED
    BY <1>2, <1>4, <1>7, <2>1, <2>3, <2>4, <2>6, Zenon DEF Flow
<1>9. CASE d # c
  <2>1. channel'[d] = channel[d]
    BY <1>1, <1>2, <1>9 DEF TypeOK
  <2>2. Link(d, t, q, new, q)
    BY <1>6, <1>9, Zenon DEF Link
  <2>3. ChainFrom(d, t, Append(datagrams, new), p, q)
    BY <1>3, <1>4, <1>6, <2>2, ChainFromAppend, Zenon
  <2> QED
    BY <1>2, <1>4, <1>7, <2>1, <2>3, Zenon DEF Flow
<1> QED
  BY <1>8, <1>9

\* Behind the last packet that was typed there is none.
LEMMA EndIsLast ==
  ASSUME NEW c \in Clients, NEW t \in Nat, NEW s, Len(s) \in Nat, NEW b
  PROVE  /\ Chain(c, t, s, End(t), b) => Len(s) = 0 /\ b = End(t)
         /\ ChainFrom(c, t, s, End(t), b) =>
              b = End(t) /\ \A k \in 1..Len(s) : s[k].from # c
<1> DEFINE n == Len(s)
<1>1. \A pck, r : ~Step(c, t, End(t), pck, r)
  <2>1. End(t).input = t + 1 /\ ~(t + 1 <= t)
    BY DEF End
  <2> QED
    BY <2>1, Zenon DEF Step
<1>2. n \in Nat /\ 0 \in 0..n /\ n \in 0..n
  OBVIOUS
<1> HIDE DEF n
<1>3. ASSUME Chain(c, t, s, End(t), b) PROVE n = 0 /\ b = End(t)
  <2>1. PICK cur \in [0..n -> Cursors(c, t)] :
          /\ cur[0] = End(t) /\ cur[n] = b
          /\ \A k \in 1..n : Step(c, t, cur[k - 1], s[k], cur[k])
    BY <1>3, Zenon DEF Chain, n
  <2>2. n = 0
    <3>1. CASE n # 0
      <4>1. 1 \in 1..n /\ 1 - 1 = 0
        BY <1>2, <3>1
      <4>2. Step(c, t, cur[0], s[1], cur[1])
        BY <2>1, <4>1
      <4> QED
        BY <1>1, <2>1, <4>2, Zenon
    <3> QED
      BY <3>1
  <2> QED
    BY <2>1, <2>2
<1>4. ASSUME ChainFrom(c, t, s, End(t), b)
      PROVE  b = End(t) /\ \A k \in 1..n : s[k].from # c
  <2>1. PICK cur \in [0..n -> Cursors(c, t)] :
          /\ cur[0] = End(t) /\ cur[n] = b
          /\ \A k \in 1..n : Link(c, t, cur[k - 1], s[k], cur[k])
    BY <1>4, Zenon DEF ChainFrom, n
  <2> DEFINE G == {k \in 0..n : cur[k] = End(t)}
  <2>2. 0 \in G
    BY <1>2, <2>1
  <2>3. ASSUME NEW k \in 1..n, k - 1 \in G PROVE k \in G /\ s[k].from # c
    <3>1. cur[k - 1] = End(t) /\ k \in 0..n
      BY <1>2, <2>3
    <3>2. Link(c, t, End(t), s[k], cur[k])
      BY <2>1, <3>1
    <3>3. s[k].from # c /\ cur[k] = End(t)
      BY <1>1, <3>2, Zenon DEF Link
    <3> QED
      BY <3>1, <3>3
  <2> HIDE DEF G
  <2>4. \A k \in 0..n : k \in G
    BY <1>2, <2>2, <2>3, UpTo
  <2>5. b = End(t)
    BY <1>2, <2>1, <2>4 DEF G
  <2>6. \A k \in 1..n : k - 1 \in 0..n
    BY <1>2
  <2>7. \A k \in 1..n : s[k].from # c
    BY <2>3, <2>4, <2>6, Zenon
  <2> QED
    BY <2>5, <2>7
<1> QED
  BY <1>3, <1>4, Zenon DEF n

\* A user who begins again has nothing on its way.
LEMMA AgainFlows ==
  ASSUME IInv, NEW c \in Clients, Again(c)
  PROVE  Flow(c)' /\ CacheOf(c)' /\ HandledPieces(c)'
<1>1. TypeOK /\ Flow(c)
  BY DEF IInv
<1> DEFINE t == typed[c]
           e == End(0)
<1>2. /\ typed \in [Clients -> Nat] /\ handled \in [Clients -> Seq(Seq(Pieces))]
      /\ t \in Nat /\ Len(handled[c]) = t
      /\ Len(rcv_queue[c]) \in Nat /\ Len(datagrams) \in Nat
      /\ Len(channel[c]) \in Nat /\ Len(pcksToSend[c]) \in Nat
      /\ rcv_queue[c] \in Seq(Packet) /\ channel[c] \in Seq(Packet)
      /\ pcksToSend[c] \in Seq(Packet)
  BY <1>1, QueueTypes DEF Again, TypeOK
<1>3. /\ typed'[c] = 0 /\ handled'[c] = <<>>
      /\ UNCHANGED <<pcksToSend, channel, datagrams, rcv_queue, cache>>
  BY <1>2 DEF Again
<1>4. PICK p, q, r \in Cursors(c, t) :
        /\ Chain(c, t, rcv_queue[c], Position(c), p)
        /\ ChainFrom(c, t, datagrams, p, q)
        /\ Chain(c, t, channel[c], q, r)
        /\ Chain(c, t, pcksToSend[c], r, End(t))
  BY <1>1, Zenon DEF Flow
<1>5. Position(c) = End(t)
  <2>1. Position(c) \in Cursors(c, t)
    BY <1>2, <1>4, ChainStart, Zenon
  <2>2. Position(c).input = t + 1 /\ ~(t + 1 <= t)
    BY <1>2 DEF Position
  <2> QED
    BY <2>1, <2>2, Zenon DEF Cursors
<1>6. p = End(t) /\ Len(rcv_queue[c]) = 0
  <2>1. Chain(c, t, rcv_queue[c], End(t), p)
    BY <1>4, <1>5
  <2> QED
    BY <1>2, <2>1, EndIsLast, Zenon
<1>7. q = End(t) /\ \A k \in 1..Len(datagrams) : datagrams[k].from # c
  BY <1>2, <1>4, <1>6, EndIsLast, Zenon
<1>8. r = End(t) /\ Len(channel[c]) = 0
  BY <1>2, <1>4, <1>7, EndIsLast, Zenon
<1>9. Len(pcksToSend[c]) = 0
  BY <1>2, <1>4, <1>8, EndIsLast, Zenon
<1>10. rcv_queue[c] = <<>> /\ channel[c] = <<>> /\ pcksToSend[c] = <<>>
  BY <1>2, <1>6, <1>8, <1>9, EmptySeq
<1>11. Chunker(c) => Len(cache) = 0
  <2>1. (IF Chunker(c) THEN Len(cache) + 1 ELSE 1) = 1
    BY <1>5 DEF Position, End
  <2>2. Len(cache) \in Nat
    BY <1>1, LenProperties DEF TypeOK
  <2> QED
    BY <2>1, <2>2
<1>12. Position(c)' = e
  <2>1. Len(<<>>) = 0
    BY EmptySeq
  <2>2. Position(c)' = [input |-> Len(handled'[c]) + 1,
                        chunk |-> IF Chunker(c) THEN Len(cache') + 1 ELSE 1]
    BY Zenon DEF Position, Chunker
  <2> QED
    BY <1>3, <1>11, <2>1, <2>2 DEF End
<1>13. e \in Cursors(c, 0)
  BY DEF End, Cursors, Cursor
<1>14. Chain(c, 0, <<>>, e, e)
  BY <1>13, ChainEmpty, Zenon
<1>15. ChainFrom(c, 0, datagrams, e, e)
  <2> DEFINE n == Len(datagrams)
  <2>1. PICK cur \in [0..n -> Cursors(c, 0)] : \A k \in 0..n : cur[k] = e
    <3>1. [k \in 0..n |-> e] \in [0..n -> Cursors(c, 0)]
      BY <1>13
    <3> QED
      BY <3>1
  <2>2. 0 \in 0..n /\ n \in 0..n /\ \A k \in 1..n : k \in 0..n /\ k - 1 \in 0..n
    BY <1>2
  <2>3. cur[0] = e /\ cur[n] = e /\ \A k \in 1..n : Link(c, 0, cur[k - 1], datagrams[k], cur[k])
    BY <1>7, <2>1, <2>2, Zenon DEF Link
  <2> QED
    BY <2>3, Zenon DEF ChainFrom
<1> HIDE DEF t, e
<1>16. Flow(c)'
  BY <1>3, <1>10, <1>12, <1>13, <1>14, <1>15, Zenon DEF Flow, e
<1>17. CacheOf(c)'
  <2>1. Chunker(c) => 1..Len(cache') = {}
    BY <1>3, <1>11
  <2>2. CacheOf(c)' <=> (Chunker(c) => \A i \in 1..Len(cache') :
                           cache'[i] = Piece(c, Len(handled'[c]) + 1, i))
    BY Zenon DEF CacheOf, Chunker, Piece
  <2> QED
    BY <2>1, <2>2, Zenon
<1>18. HandledPieces(c)'
  BY <1>3 DEF HandledPieces
<1> QED
  BY <1>16, <1>17, <1>18

\* After HandleReceiveMsg the queue of c has all that the server got from it.
LEMMA TickQueue ==
  ASSUME IInv, NEW c \in Clients
  PROVE  /\ HandleReceiveMsg.queue[c] \in Seq(Packet)
         /\ \E q, r \in Cursors(c, typed[c]) :
              /\ Chain(c, typed[c], HandleReceiveMsg.queue[c], Position(c), q)
              /\ Chain(c, typed[c], channel[c], q, r)
              /\ Chain(c, typed[c], pcksToSend[c], r, End(typed[c]))
<1>1. TypeOK /\ Flow(c)
  BY DEF IInv
<1> DEFINE t == typed[c]
           S == Cursors(c, t)
<1>2. PICK p \in S, q \in S, r \in S :
        /\ Chain(c, t, rcv_queue[c], Position(c), p)
        /\ ChainFrom(c, t, datagrams, p, q)
        /\ Chain(c, t, channel[c], q, r)
        /\ Chain(c, t, pcksToSend[c], r, End(t))
  BY <1>1, Zenon DEF Flow
<1>3. Chain(c, t, HandleReceiveMsg.queue[c], Position(c), q)
  BY <1>1, <1>2, Delivered, Zenon
<1>4. HandleReceiveMsg.queue[c] \in Seq(Packet)
  <2>1. HandleReceiveMsg \in Server
    BY <1>1, ReceivedType
  <2> QED
    BY <2>1 DEF Server
<1> QED
  BY <1>2, <1>3, <1>4, Zenon

\* The queue of c after the tick starts at the place after it.
LEMMA TickFlows ==
  ASSUME IInv, NEW c \in Clients, NEW s, typed' = typed, channel' = channel,
         pcksToSend' = pcksToSend, datagrams' = <<>>,
         \A q : Chain(c, typed[c], HandleReceiveMsg.queue[c], Position(c), q)
                  => Chain(c, typed[c], rcv_queue'[c], Position(c)', q)
  PROVE  Flow(c)'
<1> DEFINE t == typed[c]
           S == Cursors(c, t)
<1>1. PICK q \in S, r \in S :
        /\ Chain(c, t, HandleReceiveMsg.queue[c], Position(c), q)
        /\ Chain(c, t, channel[c], q, r)
        /\ Chain(c, t, pcksToSend[c], r, End(t))
  BY TickQueue, Zenon
<1>2. Chain(c, t, rcv_queue'[c], Position(c)', q)
  BY <1>1, Zenon
<1>3. ChainFrom(c, t, <<>>, q, q)
  BY <1>1, ChainEmpty, Zenon
<1> QED
  BY <1>1, <1>2, <1>3, Zenon DEF Flow

\* What the handler is given for the packet at a place.
LEMMA PacketAt ==
  ASSUME NEW c \in Clients, NEW q, NEW n \in Nat \ {0}, n = Inputs[c][q.input], q.chunk \in 1..n
  PROVE  /\ PckAt(c, q).piece = Piece(c, q.input, q.chunk)
         /\ PckAt(c, q).type = IF n = 1 THEN "WHOLE" ELSE IF q.chunk < n THEN "MULS" ELSE "MULE"
<1>1. PckAt(c, q) = [type |-> IF n = 1 THEN "WHOLE" ELSE IF q.chunk < n THEN "MULS" ELSE "MULE",
                     piece |-> Piece(c, q.input, q.chunk)]
  BY Zenon DEF PckAt, ChunksOf
<1> QED
  BY <1>1

\* One more content is handled: it is the next input of c.
LEMMA OneMoreHandled ==
  ASSUME NEW c \in Clients, handled \in [Clients -> Seq(Seq(Pieces))], HandledPieces(c),
         NEW x \in Seq(Pieces), x = InputPieces(c, Len(handled[c]) + 1), PacketHandler(c, x)
  PROVE  /\ HandledPieces(c)' /\ Len(handled'[c]) = Len(handled[c]) + 1
         /\ \A d \in Clients \ {c} : handled'[d] = handled[d]
<1> DEFINE s == handled[c]
           n == Len(s)
<1>1. s \in Seq(Seq(Pieces)) /\ n \in Nat
  BY LenProperties
<1>2. handled' = [handled EXCEPT ![c] = Append(s, x)]
  BY Zenon DEF PacketHandler
<1>3. handled'[c] = Append(s, x) /\ \A d \in Clients \ {c} : handled'[d] = handled[d]
  BY <1>2
<1>4. /\ Len(Append(s, x)) = n + 1 /\ (\A k \in 1..n : Append(s, x)[k] = s[k])
      /\ Append(s, x)[n + 1] = x /\ \A k \in 1 .. n + 1 : k \in 1..n \/ k = n + 1
  BY <1>1, AppendFacts
<1>5. \A k \in 1..n : s[k] = InputPieces(c, k)
  BY Zenon DEF HandledPieces
<1>6. x = InputPieces(c, n + 1)
  OBVIOUS
<1> HIDE DEF s, n
<1>7. \A k \in 1 .. n + 1 : Append(s, x)[k] = InputPieces(c, k)
  BY <1>4, <1>5, <1>6, Zenon
<1>8. HandledPieces(c)'
  <2>1. Len(handled'[c]) = n + 1
    BY <1>3, <1>4, Zenon
  <2>2. \A k \in 1..Len(handled'[c]) : handled'[c][k] = InputPieces(c, k)
    BY <1>3, <1>7, <2>1, Zenon
  <2> QED
    BY <2>2, Zenon DEF HandledPieces, InputPieces, Piece
<1> QED
  BY <1>3, <1>4, <1>8, Zenon DEF s, n

\* A packet handled moves its client one place on, and no other.
LEMMA HandlerStep ==
  ASSUME IInv, NEW c \in Clients, Position(c) \in Cursors(c, typed[c]),
         Position(c).input <= typed[c], OnPckBytes(c, PckAt(c, Position(c)))
  PROVE  /\ Position(c)' = After(c, Position(c)) /\ CacheOf(c)' /\ HandledPieces(c)'
         /\ \A d \in Clients \ {c} : handled'[d] = handled[d]
         /\ cache' = cache \/ Chunker(c)
<1> DEFINE a == Position(c)
           m == a.input
           n == Inputs[c][m]
           h == Len(handled[c])
           l == Len(cache)
           piece == Piece(c, m, a.chunk)
<1>1. /\ TypeOK /\ CacheOf(c) /\ HandledPieces(c) /\ typed[c] \in 0..Len(Inputs[c])
      /\ typed[c] \in Nat
      /\ cache \in Seq(Pieces) /\ handled \in [Clients -> Seq(Seq(Pieces))]
      /\ h \in Nat /\ l \in Nat
  <2>1. TypeOK /\ CacheOf(c) /\ HandledPieces(c)
    BY DEF IInv
  <2>2. cache \in Seq(Pieces) /\ handled \in [Clients -> Seq(Seq(Pieces))]
    BY <2>1 DEF TypeOK
  <2>3. handled[c] \in Seq(Seq(Pieces))
    BY <2>2
  <2> QED
    BY <2>1, <2>2, <2>3, QueueTypes, LenProperties
<1>2. m = h + 1 /\ a.chunk = IF Chunker(c) THEN l + 1 ELSE 1
  BY DEF Position
<1>3. m \in 1..typed[c] /\ n \in Nat \ {0} /\ a.chunk \in 1..n
  BY <1>1, PlaceFacts
<1>4. PckAt(c, a).piece = piece
      /\ PckAt(c, a).type = IF n = 1 THEN "WHOLE" ELSE IF a.chunk < n THEN "MULS" ELSE "MULE"
  BY <1>3, PacketAt
<1>5. n > 1 => Chunker(c)
  <2>1. m \in 1..Len(Inputs[c])
    BY <1>1, <1>3
  <2> QED
    BY <2>1, Zenon DEF Chunker
<1>6. piece \in Pieces
  BY <1>1, <1>3 DEF Piece, Pieces
<1>7. Position(c)' = [input |-> Len(handled'[c]) + 1,
                      chunk |-> IF Chunker(c) THEN Len(cache') + 1 ELSE 1]
  BY Zenon DEF Position, Chunker
<1>8. CacheOf(c)' <=> (Chunker(c) => \A i \in 1..Len(cache') :
                         cache'[i] = Piece(c, Len(handled'[c]) + 1, i))
  BY Zenon DEF CacheOf, Chunker, Piece
<1>9. OnPckBytes(c, PckAt(c, a))
  OBVIOUS
<1>10. Chunker(c) => \A i \in 1..l : cache[i] = Piece(c, m, i)
  BY <1>1, <1>2, Zenon DEF CacheOf
<1>11. After(c, a) = IF a.chunk < n THEN [input |-> m, chunk |-> a.chunk + 1]
                     ELSE [input |-> m + 1, chunk |-> 1]
  BY Zenon DEF After
<1> HIDE DEF a, m, n, h, l, piece
<1>12. CASE n = 1
  <2>1. PckAt(c, a).type = "WHOLE" /\ a.chunk = 1
    BY <1>3, <1>4, <1>12
  <2>2. PacketHandler(c, <<piece>>) /\ UNCHANGED cache
    BY <1>4, <1>9, <2>1, Zenon DEF OnPckBytes
  <2>3. <<piece>> = InputPieces(c, h + 1) /\ <<piece>> \in Seq(Pieces)
    <3>1. InputPieces(c, m) = [i \in 1..1 |-> Piece(c, m, i)]
      BY <1>12, Zenon DEF InputPieces, n
    <3>2. [i \in 1..1 |-> Piece(c, m, i)] = <<Piece(c, m, 1)>>
      OBVIOUS
    <3>3. piece = Piece(c, m, 1)
      BY <2>1, Zenon DEF piece
    <3>4. <<piece>> \in Seq(Pieces)
      BY <1>6
    <3> QED
      BY <1>2, <3>1, <3>2, <3>3, <3>4, Zenon
  <2>4. /\ HandledPieces(c)' /\ Len(handled'[c]) = h + 1
        /\ \A d \in Clients \ {c} : handled'[d] = handled[d]
    BY <1>1, <2>2, <2>3, OneMoreHandled, Zenon DEF h
  <2>5. Chunker(c) => l = 0
    BY <1>1, <1>2, <2>1
  <2>6. Position(c)' = After(c, a)
    <3>1. After(c, a) = [input |-> m + 1, chunk |-> 1]
      BY <1>11, <1>12, <2>1
    <3>2. Len(handled'[c]) + 1 = m + 1
      BY <1>2, <2>4
    <3>3. (IF Chunker(c) THEN Len(cache') + 1 ELSE 1) = 1
      BY <2>2, <2>5 DEF l
    <3> QED
      BY <1>7, <3>1, <3>2, <3>3, Zenon
  <2>7. CacheOf(c)'
    <3>1. Chunker(c) => 1..Len(cache') = {}
      BY <2>2, <2>5 DEF l
    <3> QED
      BY <1>8, <3>1, Zenon
  <2> QED
    BY <2>2, <2>4, <2>6, <2>7, Zenon DEF a
<1>13. CASE n # 1 /\ a.chunk < n
  <2>1. PckAt(c, a).type = "MULS" /\ Chunker(c) /\ a.chunk = l + 1
    BY <1>2, <1>3, <1>4, <1>5, <1>13
  <2>2. cache' = Append(cache, piece) /\ UNCHANGED handled
    BY <1>4, <1>9, <2>1 DEF OnPckBytes
  <2>3. /\ Len(cache') = l + 1 /\ (\A i \in 1..l : cache'[i] = cache[i])
        /\ cache'[l + 1] = piece /\ \A i \in 1 .. l + 1 : i \in 1..l \/ i = l + 1
    BY <1>1, <1>6, <2>2, AppendFacts DEF l
  <2>4. Len(handled'[c]) + 1 = m
    BY <1>2, <2>2 DEF h
  <2>5. Position(c)' = After(c, a)
    BY <1>7, <1>11, <1>13, <2>1, <2>3, <2>4, Zenon
  <2>6. CacheOf(c)'
    <3>1. piece = Piece(c, m, l + 1)
      BY <2>1, Zenon DEF piece
    <3>2. \A i \in 1 .. l + 1 : cache'[i] = Piece(c, m, i)
      BY <1>10, <2>1, <2>3, <3>1, Zenon
    <3> QED
      BY <1>8, <2>3, <2>4, <3>2, Zenon
  <2>7. HandledPieces(c)'
    BY <1>1, <2>2, Zenon DEF HandledPieces, InputPieces, Piece
  <2> QED
    BY <2>1, <2>2, <2>5, <2>6, <2>7, Zenon DEF a
<1>14. CASE n # 1 /\ ~(a.chunk < n)
  <2>1. PckAt(c, a).type = "MULE" /\ Chunker(c) /\ a.chunk = l + 1 /\ a.chunk = n
    BY <1>2, <1>3, <1>4, <1>5, <1>14
  <2> DEFINE x == Append(cache, piece)
  <2>2. x # <<>> /\ Head(x).chunk = 1
    <3>1. x \in Seq(Pieces) /\ Len(x) = l + 1 /\ (\A i \in 1..l : x[i] = cache[i])
          /\ x[l + 1] = piece
      BY <1>1, <1>6, AppendFacts DEF l
    <3>2. x # <<>> /\ Head(x) = x[1]
      <4>1. Len(x) # 0
        BY ONLY <1>1, <3>1
      <4>2. x # <<>>
        BY <4>1, EmptySeq
      <4> QED
        BY <3>1, <4>2
    <3>3. x[1] = Piece(c, m, 1)
      <4>1. CASE l = 0
        BY <2>1, <3>1, <4>1 DEF piece
      <4>2. CASE l # 0
        <5>1. 1 \in 1..l
          BY <1>1, <4>2
        <5> QED
          BY <1>10, <2>1, <3>1, <5>1
      <4> QED
        BY <4>1, <4>2
    <3> QED
      BY <3>2, <3>3 DEF Piece
  <2>3. cache' = <<>> /\ PacketHandler(c, x)
    <3>1. \E type \in TypesOf(x) : /\ cache' = IF type = "MULS" THEN x ELSE <<>>
                                 /\ IF type = "WHOLE" THEN PacketHandler(c, x)
                                    ELSE UNCHANGED handled
      BY <1>4, <1>9, <2>1 DEF OnPckBytes
    <3>2. TypesOf(x) = {"WHOLE"}
      BY <2>2 DEF TypesOf
    <3> QED
      BY <3>1, <3>2
  <2>4. /\ x \in Seq(Pieces) /\ Len(x) = l + 1 /\ (\A i \in 1..l : x[i] = cache[i])
        /\ x[l + 1] = piece /\ \A i \in 1 .. l + 1 : i \in 1..l \/ i = l + 1
    BY <1>1, <1>6, AppendFacts DEF l
  <2> HIDE DEF x
  <2>5. x = InputPieces(c, h + 1)
    <3>1. piece = Piece(c, m, l + 1)
      BY <2>1, Zenon DEF piece
    <3>2. \A i \in 1 .. l + 1 : x[i] = Piece(c, m, i)
      BY <1>10, <2>1, <2>4, <3>1, Zenon
    <3>3. x = [i \in 1..n |-> x[i]]
      <4>1. x = [i \in 1..Len(x) |-> x[i]]
        BY <2>4, LenProperties
      <4> QED
        BY <2>1, <2>4, <4>1, Zenon
    <3>4. l + 1 = n
      BY <2>1, Zenon
    <3>5. [i \in 1..n |-> x[i]] = [i \in 1..n |-> Piece(c, m, i)]
      BY <3>2, <3>4, Zenon
    <3> QED
      BY <1>2, <3>3, <3>5, Zenon DEF InputPieces, n
  <2>6. /\ HandledPieces(c)' /\ Len(handled'[c]) = h + 1
        /\ \A d \in Clients \ {c} : handled'[d] = handled[d]
    BY <1>1, <2>3, <2>4, <2>5, OneMoreHandled, Zenon DEF h
  <2>7. Len(cache') = 0
    BY <2>3
  <2>8. Position(c)' = After(c, a)
    <3>1. Len(handled'[c]) + 1 = m + 1 /\ Len(cache') + 1 = 1
      BY <1>2, <2>6, <2>7
    <3> QED
      BY <1>7, <1>11, <1>14, <2>1, <3>1, Zenon
  <2>9. CacheOf(c)'
    <3>1. 1..Len(cache') = {}
      BY <2>7
    <3> QED
      BY <1>8, <3>1, Zenon
  <2> QED
    BY <2>1, <2>6, <2>8, <2>9, Zenon DEF a
<1> QED
  BY <1>12, <1>13, <1>14, Zenon

\* A tick of the service thread keeps the invariant: at most one client has
\* pieces in the cache.
LEMMA TickStep ==
  ASSUME IInv, OneChunker, ServerTick
  PROVE  /\ (\A c \in Clients : ~Chunker(c)) => cache' = <<>>
         /\ \A c \in Clients : Flow(c)' /\ CacheOf(c)' /\ HandledPieces(c)'
<1>1. /\ TypeOK /\ ((\A c \in Clients : ~Chunker(c)) => cache = <<>>)
      /\ \A c \in Clients : Flow(c) /\ CacheOf(c) /\ HandledPieces(c)
  BY DEF IInv
<1> DEFINE server == HandleReceiveMsg
<1>2. /\ datagrams' = <<>> /\ typed' = typed /\ pcksToSend' = pcksToSend /\ channel' = channel
      /\ \/ rcv_queue' = server.queue /\ UNCHANGED <<cache, handled, alive>>
         \/ \E c \in Clients : Handles(server, c)
  BY <1>1, TickFacts DEF clientVars
<1>3. server.queue \in [Clients -> Seq(Packet)]
  <2>1. server \in Server
    BY <1>1, ReceivedType
  <2> QED
    BY <2>1 DEF Server
<1> HIDE DEF server
<1>4. CASE rcv_queue' = server.queue /\ UNCHANGED <<cache, handled, alive>>
  <2>1. ASSUME NEW c \in Clients
        PROVE  Flow(c)' /\ CacheOf(c)' /\ HandledPieces(c)'
    <3>1. cache' = cache /\ handled'[c] = handled[c]
      BY <1>4
    <3>2. CacheOf(c)' /\ HandledPieces(c)' /\ Position(c)' = Position(c)
      BY <1>1, <3>1, NothingHandled, Zenon
    <3>3. \A q : Chain(c, typed[c], HandleReceiveMsg.queue[c], Position(c), q)
                   => Chain(c, typed[c], rcv_queue'[c], Position(c)', q)
      BY <1>4, <3>2, Zenon DEF server
    <3>4. Flow(c)'
      BY <1>2, <3>3, TickFlows, Zenon
    <3> QED
      BY <3>2, <3>4
  <2> QED
    BY <1>1, <1>4, <2>1, Zenon
<1>5. ASSUME NEW c \in Clients, Handles(server, c)
      PROVE  /\ (\A d \in Clients : ~Chunker(d)) => cache' = <<>>
             /\ \A d \in Clients : Flow(d)' /\ CacheOf(d)' /\ HandledPieces(d)'
  <2> DEFINE s == server.queue[c]
             a == Position(c)
             t == typed[c]
  <2>1. s # <<>> /\ rcv_queue' = [server.queue EXCEPT ![c] = Tail(s)] /\ OnPckBytes(c, Head(s))
    BY <1>5, Zenon DEF Handles
  <2>2. s \in Seq(Packet)
    BY <1>3
  <2>3. PICK q : Chain(c, t, s, a, q)
    BY TickQueue, Zenon DEF server
  <2>4. a \in Cursors(c, t) /\ a.input <= t /\ Head(s) = PckAt(c, a)
    BY <2>1, <2>2, <2>3, ChainHead, Zenon
  <2>5. OnPckBytes(c, PckAt(c, a))
    BY <2>1, <2>4, Zenon
  <2>6. /\ Position(c)' = After(c, a) /\ CacheOf(c)' /\ HandledPieces(c)'
        /\ \A d \in Clients \ {c} : handled'[d] = handled[d]
        /\ cache' = cache \/ Chunker(c)
    BY <2>4, <2>5, HandlerStep, Zenon
  <2>7. rcv_queue'[c] = Tail(s) /\ \A d \in Clients \ {c} : rcv_queue'[d] = server.queue[d]
    BY <1>3, <2>1
  <2>8. Flow(c)'
    <3>1. ASSUME NEW e, Chain(c, t, s, a, e)
          PROVE  Chain(c, t, rcv_queue'[c], Position(c)', e)
      <4>1. Chain(c, t, Tail(s), After(c, a), e)
        BY <2>1, <2>2, <3>1, ChainHead, Zenon
      <4> QED
        BY <2>6, <2>7, <4>1, Zenon
    <3>2. \A e : Chain(c, typed[c], HandleReceiveMsg.queue[c], Position(c), e)
                   => Chain(c, typed[c], rcv_queue'[c], Position(c)', e)
      BY <3>1, Zenon DEF server
    <3> QED
      BY <1>2, <3>2, TickFlows, Zenon
  <2>9. ASSUME NEW d \in Clients \ {c}
        PROVE  Flow(d)' /\ CacheOf(d)' /\ HandledPieces(d)'
    <3>1. handled'[d] = handled[d] /\ rcv_queue'[d] = server.queue[d]
      BY <2>6, <2>7, Zenon
    <3>2. HandledPieces(d)'
      <4>1. HandledPieces(d)
        BY <1>1, Zenon
      <4> QED
        BY <3>1, <4>1, Zenon DEF HandledPieces, InputPieces, Piece
    <3>3. CacheOf(d)' /\ Position(d)' = Position(d)
      <4>1. CASE cache' = cache
        <5>1. CacheOf(d) /\ HandledPieces(d)
          BY <1>1, Zenon
        <5> QED
          BY <3>1, <4>1, <5>1, NothingHandled, Zenon
      <4>2. CASE Chunker(c)
        <5>1. ~Chunker(d)
          BY <4>2, Zenon DEF OneChunker
        <5>2. CacheOf(d)'
          BY <5>1, Zenon DEF CacheOf, Chunker
        <5>3. Position(d)' = Position(d)
          BY <3>1, <5>1, Zenon DEF Position, Chunker
        <5> QED
          BY <5>2, <5>3
      <4> QED
        BY <2>6, <4>1, <4>2
    <3>4. \A e : Chain(d, typed[d], HandleReceiveMsg.queue[d], Position(d), e)
                   => Chain(d, typed[d], rcv_queue'[d], Position(d)', e)
      BY <3>1, <3>3, Zenon DEF server
    <3>5. Flow(d)'
      BY <1>2, <3>4, TickFlows, Zenon
    <3> QED
      BY <3>2, <3>3, <3>5
  <2>10. ASSUME \A d \in Clients : ~Chunker(d) PROVE cache' = <<>>
    BY <1>1, <2>6, <2>10, Zenon
  <2> HIDE DEF s, a, t
  <2>11. \A d \in Clients : d = c \/ d \in Clients \ {c}
    BY Zenon
  <2> QED
    BY <2>6, <2>8, <2>9, <2>10, <2>11, Zenon
<1> QED
  BY <1>2, <1>4, <1>5, Zenon

LEMMA InvariantStep ==
  ASSUME OneChunker, IInv, [Next]_vars
  PROVE  IInv'
<1>1. /\ TypeOK /\ ((\A c \in Clients : ~Chunker(c)) => cache = <<>>)
      /\ \A c \in Clients : Flow(c) /\ CacheOf(c) /\ HandledPieces(c)
  BY DEF IInv
<1>2. TypeOK'
  BY <1>1, TypeStep
<1> DEFINE Cached == (\A c \in Clients : ~Chunker(c)) => cache' = <<>>
           Kept(c) == Flow(c)' /\ CacheOf(c)' /\ HandledPieces(c)'
<1>3. ASSUME NEW c \in Clients, Type(c) PROVE Cached /\ \A d \in Clients : Kept(d)
  <2>1. /\ channel' = channel /\ datagrams' = datagrams /\ rcv_queue' = rcv_queue
        /\ cache' = cache /\ handled' = handled
    BY <1>3 DEF Type, serverVars
  <2>2. \A d \in Clients \ {c} : typed'[d] = typed[d] /\ pcksToSend'[d] = pcksToSend[d]
    BY <1>1, <1>3 DEF Type, TypeOK
  <2>3. Kept(c)
    BY <1>1, <1>3, <2>1, TypeFlows, NothingHandled, Zenon
  <2>4. \A d \in Clients \ {c} : Kept(d)
    BY <1>1, <2>1, <2>2, Untouched, Zenon
  <2> HIDE DEF Kept
  <2> QED
    BY <1>1, <2>1, <2>3, <2>4, Zenon
<1>4. ASSUME NEW c \in Clients, ClientTick(c) PROVE Cached /\ \A d \in Clients : Kept(d)
  <2>1. /\ typed' = typed /\ datagrams' = datagrams /\ rcv_queue' = rcv_queue
        /\ cache' = cache /\ handled' = handled
    BY <1>4 DEF ClientTick, serverVars
  <2>2. \A d \in Clients \ {c} : channel'[d] = channel[d] /\ pcksToSend'[d] = pcksToSend[d]
    BY <1>1, <1>4 DEF ClientTick, TypeOK
  <2>3. Kept(c)
    BY <1>1, <1>4, <2>1, ClientTickFlows, NothingHandled, Zenon
  <2>4. \A d \in Clients \ {c} : Kept(d)
    BY <1>1, <2>1, <2>2, Untouched, Zenon
  <2> HIDE DEF Kept
  <2> QED
    BY <1>1, <2>1, <2>3, <2>4, Zenon
<1>5. ASSUME NEW c \in Clients, Receive(c) PROVE Cached /\ \A d \in Clients : Kept(d)
  <2>1. cache' = cache /\ handled' = handled
    BY <1>5 DEF Receive, serverVars
  <2>2. ASSUME NEW d \in Clients PROVE Kept(d)
    BY <1>1, <1>5, <2>1, ReceiveFlows, NothingHandled, Zenon
  <2> HIDE DEF Kept
  <2> QED
    BY <1>1, <2>1, <2>2, Zenon
<1>6. ASSUME ServerTick PROVE Cached /\ \A d \in Clients : Kept(d)
  BY <1>6, TickStep, Zenon
<1>7. ASSUME UNCHANGED <<clientVars, channel, datagrams, serverVars>>
      PROVE  Cached /\ \A d \in Clients : Kept(d)
  <2>1. /\ typed' = typed /\ pcksToSend' = pcksToSend /\ channel' = channel
        /\ datagrams' = datagrams /\ rcv_queue' = rcv_queue /\ cache' = cache
        /\ handled' = handled
    BY <1>7 DEF clientVars, serverVars
  <2>2. \A d \in Clients : Kept(d)
    BY <1>1, <2>1, Untouched, Zenon
  <2> HIDE DEF Kept
  <2> QED
    BY <1>1, <2>1, <2>2, Zenon
<1>8. ASSUME NEW e \in {"receive", "service"}, ThreadEnds(e)
      PROVE  UNCHANGED <<clientVars, channel, datagrams, serverVars>>
  BY <1>8, Zenon DEF ThreadEnds
<1>9. ASSUME NEW c \in Clients, Again(c) PROVE Cached /\ \A d \in Clients : Kept(d)
  <2>1. /\ pcksToSend' = pcksToSend /\ channel' = channel /\ datagrams' = datagrams
        /\ rcv_queue' = rcv_queue /\ cache' = cache
    BY <1>9 DEF Again
  <2>2. \A d \in Clients \ {c} : typed'[d] = typed[d] /\ handled'[d] = handled[d]
    BY <1>1, <1>9 DEF Again, TypeOK
  <2>3. Kept(c)
    BY <1>9, AgainFlows, Zenon
  <2>4. \A d \in Clients \ {c} : Kept(d)
    BY <1>1, <2>1, <2>2, Untouched, Zenon
  <2> HIDE DEF Kept
  <2> QED
    BY <1>1, <2>1, <2>3, <2>4, Zenon
<1>10. UNCHANGED vars => UNCHANGED <<clientVars, channel, datagrams, serverVars>>
  BY DEF vars
<1>11. Cached /\ \A d \in Clients : Kept(d)
  <2> HIDE DEF Cached, Kept
  <2> QED
    BY <1>3, <1>4, <1>5, <1>6, <1>7, <1>8, <1>10, <1>9, Zenon DEF Next, Cached, Kept
<1>12. (\A c \in Clients : ~Chunker(c))' <=> \A c \in Clients : ~Chunker(c)
  BY Zenon DEF Chunker
<1> QED
  BY <1>2, <1>11, <1>12, Zenon DEF IInv

\* The inductive invariant: the packets of each client follow one another from
\* the one to be handled next to the last that was typed.
THEOREM Invariant ==
  ASSUME OneChunker
  PROVE  Spec => []IInv
<1>1. IInv /\ [Next]_vars => IInv'
  BY InvariantStep
<1> QED
  BY <1>1, InvariantInit, PTL DEF Spec

\* What is typed at each client is handled in order, each input once, whole and
\* under the key of that client, as long as at most one client sends something
\* long enough to be cut by NetUtil._sendBytes.
THEOREM HandledWhole ==
  ASSUME OneChunker
  PROVE  Spec => []HandledAsTyped
<1>1. ASSUME IInv PROVE HandledAsTyped
  <2>1. ASSUME NEW c \in Clients
        PROVE  /\ Len(handled[c]) <= typed[c]
               /\ \A m \in DOMAIN handled[c] : handled[c][m] = InputPieces(c, m)
    <3>1. TypeOK /\ Flow(c) /\ HandledPieces(c)
      BY <1>1 DEF IInv
    <3>2. typed[c] \in Nat /\ Len(rcv_queue[c]) \in Nat
      BY <3>1, QueueTypes
    <3>3. PICK p : Chain(c, typed[c], rcv_queue[c], Position(c), p)
      BY <3>1, Zenon DEF Flow
    <3>4. Position(c) \in Cursors(c, typed[c])
      BY <3>2, <3>3, ChainStart, Zenon
    <3>5. handled[c] \in Seq(Seq(Pieces))
      BY <3>1 DEF TypeOK
    <3>6. Len(handled[c]) \in Nat /\ DOMAIN handled[c] = 1..Len(handled[c])
      BY <3>5, LenProperties
    <3>7. Position(c).input = Len(handled[c]) + 1
      BY DEF Position
    <3>8. Position(c).input <= typed[c] + 1
      <4>1. CASE Position(c).input <= typed[c]
        BY <3>2, <3>6, <3>7, <4>1
      <4>2. CASE Position(c) = End(typed[c])
        BY <3>2, <4>2 DEF End
      <4> QED
        BY <3>4, <4>1, <4>2, Zenon DEF Cursors
    <3> QED
      BY <3>1, <3>2, <3>6, <3>7, <3>8 DEF HandledPieces
  <2> QED
    BY <2>1, Zenon DEF HandledAsTyped
<1> QED
  BY <1>1, Invariant, PTL
=============================================================================
