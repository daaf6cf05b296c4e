--------------------------- MODULE KcpPackProofs ----------------------------
(***************************************************************************)
(* Proofs about KcpPack for every value of its constants: bytes and        *)
(* messages come out as they went in, and datagrams are full and fit.      *)
(***************************************************************************)
EXTENDS KcpPack, SequenceTheorems, WellFoundedInduction, TLAPS

-----------------------------------------------------------------------------
(* Folds: FoldLeft runs through the values of a chain *)

\* A set of natural numbers has a least element.
LEMMA Least ==
  ASSUME NEW T \in SUBSET Nat, T # {}
  PROVE  \E m \in T : \A x \in T : m <= x
<1>1. PICK m \in T : \A x \in T : <<x, m>> \notin OpToRel(<, Nat)
  BY NatLessThanWellFounded, WFMin, Zenon
<1>2. \A x \in T : ~(x < m)
  BY <1>1, Zenon DEF OpToRel
<1>3. \A x \in T : m <= x
  BY <1>2
<1> QED
  BY <1>3

\* Induction over the numbers up to n, for those of a set.
LEMMA UpTo ==
  ASSUME NEW n \in Nat, NEW S, 0 \in S, \A k \in 1..n : k - 1 \in S => k \in S
  PROVE  \A k \in 0..n : k \in S
<1> DEFINE Bad == {k \in 0..n : k \notin S}
<1>1. ASSUME Bad # {} PROVE FALSE
  <2>1. Bad \in SUBSET Nat
    OBVIOUS
  <2>2. PICK m \in Bad : \A x \in Bad : m <= x
    BY <1>1, <2>1, Least, Zenon
  <2>3. m \in 1..n
    OBVIOUS
  <2>4. m - 1 \in 0..n /\ ~(m <= m - 1)
    BY <2>3
  <2>5. m - 1 \in S
    BY <2>2, <2>4
  <2> QED
    BY <2>3, <2>5
<1> QED
  BY <1>1

\* A set of positive numbers up to n has a greatest element, Max's value.
LEMMA GreatestOf ==
  ASSUME NEW n \in Nat, NEW T \in SUBSET (1..n), T # {}
  PROVE  Max(T) \in T /\ \A x \in T : x <= Max(T)
<1> DEFINE U == {n - x : x \in T}
<1>1. U \in SUBSET Nat /\ U # {}
  <2>1. \A x \in T : n - x \in Nat
    OBVIOUS
  <2>2. PICK x : x \in T
    BY Zenon
  <2>3. n - x \in U
    BY <2>2, Zenon
  <2> QED
    BY <2>1, <2>3, Zenon
<1>2. PICK m \in U : \A u \in U : m <= u
  BY <1>1, Least, Zenon
<1>3. PICK t \in T : m = n - t
  BY <1>2
<1>4. ASSUME NEW x \in T PROVE t >= x
  <2>1. n - x \in U
    OBVIOUS
  <2>2. n - t <= n - x
    BY <1>2, <1>3, <2>1
  <2> QED
    BY <2>2
<1> HIDE DEF U
<1>5. Max(T) \in T /\ \A x \in T : Max(T) >= x
  BY <1>4, Zenon DEF Max
<1>6. \A x \in T : x \in Int
  OBVIOUS
<1>7. PICK top \in Int : top = Max(T)
  BY <1>5, <1>6, Zenon
<1>8. \A x \in T : x <= top
  BY <1>5, <1>6, <1>7
<1> QED
  BY <1>5, <1>7, <1>8, Zenon

\* The function behind a fold over 1..n: it takes the greatest element off a set
\* and applies its step to the rest.
FoldsUp(g, n, A, base, step) ==
  /\ g \in [SUBSET (1..n) -> A]
  /\ \A T \in SUBSET (1..n) :
       g[T] = IF T = {} THEN base ELSE step[Max(T)][g[T \ {Max(T)}]]

LEMMA FoldExists ==
  ASSUME NEW A, NEW base \in A, NEW n \in Nat, NEW step \in [1..n -> [A -> A]]
  PROVE  \E g : FoldsUp(g, n, A, base, step)
<1> DEFINE Has(m) == \E g : FoldsUp(g, m, A, base, step)
<1>1. Has(0)
  <2>1. FoldsUp([T \in SUBSET (1..0) |-> base], 0, A, base, step)
    <3>1. SUBSET (1..0) = {{}}
      OBVIOUS
    <3> QED
      BY <3>1, Zenon DEF FoldsUp
  <2> QED
    BY <2>1
<1>2. ASSUME NEW m \in Nat, m + 1 <= n, Has(m)
      PROVE  Has(m + 1)
  <2>1. PICK g : FoldsUp(g, m, A, base, step)
    BY <1>2
  <2> DEFINE top == m + 1
             h == [T \in SUBSET (1..top) |->
                     IF top \in T THEN step[top][g[T \ {top}]] ELSE g[T]]
  <2>2. top \in 1..n /\ top \in Nat /\ \A T \in SUBSET (1..top) : T \ {top} \in SUBSET (1..m)
    <3>1. ASSUME NEW x, x \in 1..top, x # top PROVE x \in 1..m
      BY <1>2, <3>1
    <3> QED
      BY <1>2, <3>1
  <2>3. g \in [SUBSET (1..m) -> A]
    BY <2>1 DEF FoldsUp
  <2>4. step[top] \in [A -> A]
    BY <2>2
  <2> HIDE DEF top
  <2>5. ASSUME NEW T \in SUBSET (1..top)
        PROVE  /\ h[T] \in A
               /\ h[T] = IF T = {} THEN base ELSE step[Max(T)][h[T \ {Max(T)}]]
    <3>1. CASE top \in T
      <4>1. Max(T) = top
        <5>1. Max(T) \in T /\ \A x \in T : x <= Max(T)
          BY <2>2, <3>1, GreatestOf
        <5>2. top <= Max(T) /\ Max(T) \in 1..top
          BY <3>1, <5>1
        <5> QED
          BY <2>2, <5>2
      <4>2. T \ {top} \in SUBSET (1..m) /\ T \ {top} \in SUBSET (1..top) /\ top \notin T \ {top}
        BY <2>2
      <4>3. h[T] = step[top][g[T \ {top}]] /\ h[T \ {top}] = g[T \ {top}]
        BY <3>1, <4>2, Zenon
      <4>4. g[T \ {top}] \in A
        BY <2>3, <4>2
      <4> QED
        BY <2>4, <3>1, <4>1, <4>3, <4>4, Zenon
    <3>2. CASE top \notin T
      <4>1. T \in SUBSET (1..m)
        BY <2>2, <3>2
      <4>2. T \ {Max(T)} \in SUBSET (1..top) /\ top \notin T \ {Max(T)}
        BY <3>2
      <4>3. h[T] = g[T] /\ h[T \ {Max(T)}] = g[T \ {Max(T)}]
        BY <3>2, <4>2, Zenon
      <4>4. g[T] = IF T = {} THEN base ELSE step[Max(T)][g[T \ {Max(T)}]]
        BY <2>1, <4>1, Zenon DEF FoldsUp
      <4>5. g[T] \in A
        BY <2>3, <4>1
      <4> QED
        BY <4>3, <4>4, <4>5, Zenon
    <3> QED
      BY <3>1, <3>2
  <2>6. h \in [SUBSET (1..top) -> A]
    BY <2>5, Zenon
  <2>7. FoldsUp(h, top, A, base, step)
    BY <2>5, <2>6, Zenon DEF FoldsUp
  <2> QED
    BY <2>7 DEF top
<1> HIDE DEF Has
<1> DEFINE S == {m \in 0..n : Has(m)}
<1>3. 0 \in S
  BY <1>1
<1>4. ASSUME NEW m \in 1..n, m - 1 \in S PROVE m \in S
  <2>1. m - 1 \in Nat /\ (m - 1) + 1 <= n /\ (m - 1) + 1 = m
    OBVIOUS
  <2>2. Has((m - 1) + 1)
    BY <1>2, <1>4, <2>1
  <2> QED
    BY <2>1, <2>2
<1>5. n \in S
  <2> HIDE DEF S
  <2>1. \A k \in 0..n : k \in S
    BY <1>3, <1>4, UpTo
  <2> QED
    BY <2>1
<1> QED
  BY <1>5 DEF Has

LEMMA MaxOfInterval ==
  ASSUME NEW k \in Nat \ {0}
  PROVE  Max(1..k) = k
<1>1. Max(1..k) \in 1..k /\ \A x \in 1..k : x <= Max(1..k)
  <2>1. 1..k \in SUBSET (1..k) /\ 1..k # {} /\ k \in Nat
    OBVIOUS
  <2> QED
    BY <2>1, GreatestOf, Zenon
<1>2. k \in 1..k
  OBVIOUS
<1> QED
  BY <1>1, <1>2

\* The same of a function of which less is known.
Folds(h, n, A, base, step) ==
  /\ h[{}] = base
  /\ \A T \in SUBSET (1..n) : T # {} /\ h[T \ {Max(T)}] \in A =>
       h[T] = step[Max(T)][h[T \ {Max(T)}]]

\* It goes through a chain of values.
Chained(h, n, A, base, step) ==
  \E v \in [0..n -> A] :
    /\ v[0] = base
    /\ \A k \in 1..n : v[k] = step[k][v[k - 1]]
    /\ h[1..n] = v[n]

LEMMA FoldChain ==
  ASSUME NEW A, NEW base \in A, NEW n \in Nat, NEW step \in [1..n -> [A -> A]],
         NEW h, Folds(h, n, A, base, step)
  PROVE  Chained(h, n, A, base, step)
<1>1. h[1..0] = base
  <2>1. 1..0 = {}
    OBVIOUS
  <2> QED
    BY <2>1, Zenon DEF Folds
<1>2. ASSUME NEW k \in 1..n, h[1 .. k - 1] \in A
      PROVE  h[1..k] = step[k][h[1 .. k - 1]] /\ h[1..k] \in A
  <2>1. 1..k \in SUBSET (1..n) /\ 1..k # {}
    <3>1. (\A x \in 1..k : x \in 1..n) /\ k \in 1..k
      OBVIOUS
    <3> QED
      BY <3>1, Zenon
  <2>2. (1..k) \ {k} = 1 .. k - 1
    OBVIOUS
  <2>3. Max(1..k) = k
    BY MaxOfInterval
  <2>4. h[1..k] = step[k][h[1 .. k - 1]]
    BY <1>2, <2>1, <2>2, <2>3, Zenon DEF Folds
  <2>5. step[k] \in [A -> A]
    OBVIOUS
  <2> QED
    BY <1>2, <2>4, <2>5, Zenon
<1> DEFINE S == {k \in 0..n : h[1..k] \in A}
<1>3. \A k \in 0..n : k \in S
  <2>1. 0 \in S
    BY <1>1
  <2>2. ASSUME NEW k \in 1..n, k - 1 \in S PROVE k \in S
    BY <1>2, <2>2
  <2> HIDE DEF S
  <2> QED
    BY <2>1, <2>2, UpTo
<1> DEFINE v == [k \in 0..n |-> h[1..k]]
<1>4. v \in [0..n -> A] /\ v[0] = base /\ h[1..n] = v[n]
  BY <1>1, <1>3
<1>5. ASSUME NEW k \in 1..n PROVE v[k] = step[k][v[k - 1]]
  <2>1. k \in 0..n /\ k - 1 \in 0..n
    OBVIOUS
  <2>2. h[1 .. k - 1] \in A
    BY <1>3, <2>1
  <2> QED
    BY <1>2, <2>1, <2>2
<1> QED
  BY <1>4, <1>5, Zenon DEF Chained

\* Total adds the numbers up one by one.
LEMMA TotalChain ==
  ASSUME NEW s \in Seq(Nat), NEW n \in Nat, n = Len(s)
  PROVE  \E v \in [0..n -> Nat] :
           /\ v[0] = 0
           /\ \A k \in 1..n : v[k] = v[k - 1] + s[k]
           /\ Total(s) = v[n]
<1>2. DOMAIN s = 1..n /\ \A i \in 1..n : s[i] \in Nat
  BY LenProperties, ElementOfSeq
<1> DEFINE step == [i \in 1..n |-> [a \in Nat |-> a + s[i]]]
           Adds(g) == g = [T \in SUBSET (DOMAIN s) |->
                             IF T = {} THEN 0 ELSE g[T \ {Max(T)}] + s[Max(T)]]
<1>3. step \in [1..n -> [Nat -> Nat]]
  BY <1>2
<1>4. \A i \in 1..n, a \in Nat : step[i][a] = a + s[i]
  OBVIOUS
<1> HIDE DEF step
<1>5. PICK g : FoldsUp(g, n, Nat, 0, step)
  BY <1>3, FoldExists
<1>6. Adds(g)
  <2>1. ASSUME NEW T \in SUBSET (1..n)
        PROVE  g[T] = IF T = {} THEN 0 ELSE g[T \ {Max(T)}] + s[Max(T)]
    <3>1. CASE T = {}
      BY <1>5, <3>1 DEF FoldsUp
    <3>2. CASE T # {}
      <4>1. Max(T) \in 1..n /\ T \ {Max(T)} \in SUBSET (1..n)
        BY <3>2, GreatestOf
      <4>2. g[T \ {Max(T)}] \in Nat
        BY <1>5, <4>1, Zenon DEF FoldsUp
      <4> QED
        BY <1>4, <1>5, <3>2, <4>1, <4>2, Zenon DEF FoldsUp
    <3> QED
      BY <3>1, <3>2
  <2>2. g \in [SUBSET (1..n) -> Nat]
    BY <1>5 DEF FoldsUp
  <2> QED
    BY <1>2, <2>1, <2>2, Zenon
<1>7. PICK h : Adds(h) /\ Total(s) = h[1..n]
  <2>1. Adds(CHOOSE h : Adds(h))
    BY <1>6, Zenon
  <2>2. Total(s) = (CHOOSE h : Adds(h))[DOMAIN s]
    BY Zenon DEF Total, FoldLeft, MapThenFoldSet
  <2> QED
    BY <1>2, <2>1, <2>2, Zenon
<1>8. h[{}] = 0
  <2>1. {} \in SUBSET (1..n)
    OBVIOUS
  <2> QED
    BY <1>2, <1>7, <2>1, Zenon
<1>9. ASSUME NEW T \in SUBSET (1..n), T # {}, h[T \ {Max(T)}] \in Nat
      PROVE  h[T] = step[Max(T)][h[T \ {Max(T)}]]
  <2>1. h[T] = h[T \ {Max(T)}] + s[Max(T)]
    BY <1>2, <1>7, <1>9, Zenon
  <2>2. Max(T) \in 1..n
    BY <1>9, GreatestOf
  <2> QED
    BY <1>4, <1>9, <2>1, <2>2, Zenon
<1> HIDE DEF Adds
<1>10. PICK v \in [0..n -> Nat] :
         /\ v[0] = 0
         /\ \A k \in 1..n : v[k] = step[k][v[k - 1]]
         /\ h[1..n] = v[n]
  <2>1. 0 \in Nat
    OBVIOUS
  <2>2. Folds(h, n, Nat, 0, step)
    BY <1>8, <1>9, Zenon DEF Folds
  <2>3. Chained(h, n, Nat, 0, step)
    BY <1>3, <2>1, <2>2, FoldChain, Zenon
  <2> QED
    BY <2>3, Zenon DEF Chained
<1>11. ASSUME NEW k \in 1..n PROVE v[k] = v[k - 1] + s[k]
  <2>1. k - 1 \in 0..n
    OBVIOUS
  <2> QED
    BY <1>4, <1>10, <2>1
<1> QED
  BY <1>7, <1>10, <1>11, Zenon

LEMMA TotalType ==
  ASSUME NEW s \in Seq(Nat)
  PROVE  Total(s) \in Nat
<1>1. PICK n \in Nat : n = Len(s)
  BY LenProperties
<1>2. PICK v \in [0..n -> Nat] : Total(s) = v[n]
  BY <1>1, TotalChain
<1> QED
  BY <1>2

LEMMA TotalEmpty == Total(<<>>) = 0
<1>1. PICK s \in Seq(Nat), n \in Nat : s = <<>> /\ n = 0 /\ n = Len(s)
  BY EmptySeq
<1>2. n = Len(s)
  BY <1>1
<1>3. \E v \in [0..n -> Nat] :
        /\ v[0] = 0
        /\ \A k \in 1..n : v[k] = v[k - 1] + s[k]
        /\ Total(s) = v[n]
  BY <1>2, TotalChain, Zenon
<1>4. PICK v \in [0..n -> Nat] : v[0] = 0 /\ Total(s) = v[n]
  BY ONLY <1>3
<1> QED
  BY ONLY <1>1, <1>4

\* One number more.
LEMMA TotalAppend ==
  ASSUME NEW s \in Seq(Nat), NEW x \in Nat
  PROVE  Total(Append(s, x)) = Total(s) + x
<1>1. PICK n \in Nat : n = Len(s)
  BY LenProperties
<1>2. PICK t \in Seq(Nat) : t = Append(s, x)
  BY AppendProperties
<1>3. n + 1 = Len(t) /\ n + 1 \in Nat /\ t[n + 1] = x /\ \A i \in 1..n : t[i] = s[i]
  <2>1. /\ Len(t) = Len(s) + 1 /\ t[Len(s) + 1] = x
        /\ \A i \in 1..Len(s) : t[i] = s[i]
    BY <1>2, AppendProperties
  <2> QED
    BY ONLY <1>1, <2>1
<1>4. PICK v \in [0..n -> Nat] :
        /\ v[0] = 0
        /\ \A k \in 1..n : v[k] = v[k - 1] + s[k]
        /\ Total(s) = v[n]
  BY <1>1, TotalChain
<1>5. PICK w \in [0 .. n + 1 -> Nat] :
        /\ w[0] = 0
        /\ \A k \in 1 .. n + 1 : w[k] = w[k - 1] + t[k]
        /\ Total(t) = w[n + 1]
  BY <1>3, TotalChain
<1> DEFINE S == {k \in 0..n : w[k] = v[k]}
<1>6. \A k \in 0..n : k \in S
  <2>1. 0 \in S
    BY <1>4, <1>5
  <2>2. ASSUME NEW k \in 1..n, k - 1 \in S PROVE k \in S
    <3>1. k \in 0..n /\ k \in 1 .. n + 1 /\ w[k - 1] = v[k - 1]
      BY <2>2
    <3>2. w[k] = w[k - 1] + t[k] /\ v[k] = v[k - 1] + s[k] /\ t[k] = s[k]
      BY <1>3, <1>4, <1>5, <3>1
    <3> QED
      BY <3>1, <3>2
  <2> HIDE DEF S
  <2> QED
    BY <2>1, <2>2, UpTo
<1>7. w[n] = v[n] /\ w[n + 1] = w[n] + t[n + 1]
  <2>1. n \in 0..n /\ n + 1 \in 1 .. n + 1 /\ (n + 1) - 1 = n
    OBVIOUS
  <2> QED
    BY <1>5, <1>6, <2>1
<1> QED
  BY <1>2, <1>3, <1>4, <1>5, <1>7

LEMMA TotalSingle ==
  ASSUME NEW x \in Nat
  PROVE  Total(<<x>>) = x
<1>1. <<>> \in Seq(Nat) /\ Append(<<>>, x) = <<x>>
  OBVIOUS
<1>2. Total(Append(<<>>, x)) = Total(<<>>) + x
  BY <1>1, TotalAppend
<1> QED
  BY <1>1, <1>2, TotalEmpty

-----------------------------------------------------------------------------
(* Datagrams *)

\* Put either leaves the datagrams, lengthens the last one or begins one.
LEMMA PutType ==
  ASSUME NEW packed \in Seq(Seq(Nat)), NEW need \in Nat
  PROVE  /\ Put(packed, need) \in Seq(Seq(Nat))
         /\ \/ Put(packed, need) = packed
            \/ /\ packed # <<>> /\ Total(Last(packed)) + need <= mtu
               /\ Put(packed, need) =
                    [packed EXCEPT ![Len(packed)] = Append(packed[Len(packed)], need)]
            \/ /\ packed = <<>> \/ ~(Total(Last(packed)) + need <= mtu)
               /\ Put(packed, need) = Append(packed, <<need>>)
<1>1. Append(packed, <<need>>) \in Seq(Seq(Nat))
  OBVIOUS
<1>2. ASSUME packed # <<>>
      PROVE  [packed EXCEPT ![Len(packed)] = Append(packed[Len(packed)], need)]
               \in Seq(Seq(Nat))
  <2>1. Len(packed) \in 1..Len(packed) /\ packed[Len(packed)] \in Seq(Nat)
    BY <1>2, EmptySeq, LenProperties, ElementOfSeq
  <2>2. Append(packed[Len(packed)], need) \in Seq(Nat)
    BY <2>1, AppendProperties
  <2> QED
    BY <2>1, <2>2, ExceptSeq
<1>3. CASE need = 0
  BY <1>3 DEF Put
<1>4. CASE need > 0 /\ packed # <<>> /\ Total(Last(packed)) + need <= mtu
  BY <1>2, <1>4 DEF Put
<1>5. CASE need > 0 /\ ~(packed # <<>> /\ Total(Last(packed)) + need <= mtu)
  <2>1. Put(packed, need) = Append(packed, <<need>>)
    BY <1>5 DEF Put
  <2> QED
    BY <1>1, <1>5, <2>1
<1>6. need = 0 \/ need > 0
  OBVIOUS
<1> QED
  BY <1>3, <1>4, <1>5, <1>6, Zenon


\* Packed puts one item after the other.
LEMMA PackedChain ==
  ASSUME NEW s \in Seq(Nat), NEW n \in Nat, n = Len(s)
  PROVE  \E v \in [0..n -> Seq(Seq(Nat))] :
           /\ v[0] = <<>>
           /\ \A k \in 1..n : v[k] = Put(v[k - 1], s[k])
           /\ Packed(s) = v[n]
<1> DEFINE A == Seq(Seq(Nat))
<1>2. DOMAIN s = 1..n /\ \A i \in 1..n : s[i] \in Nat
  BY LenProperties, ElementOfSeq
<1> DEFINE step == [i \in 1..n |-> [a \in A |-> Put(a, s[i])]]
           Puts(g) == g = [T \in SUBSET (DOMAIN s) |->
                             IF T = {} THEN <<>> ELSE Put(g[T \ {Max(T)}], s[Max(T)])]
<1>3. step \in [1..n -> [A -> A]]
  <2>1. ASSUME NEW i \in 1..n, NEW a \in A PROVE Put(a, s[i]) \in A
    BY <1>2, PutType
  <2> HIDE DEF A
  <2> QED
    BY <2>1
<1>4. \A i \in 1..n, a \in A : step[i][a] = Put(a, s[i])
  BY Zenon
<1>5. <<>> \in A
  BY EmptySeq
<1> HIDE DEF step, A
<1>6. PICK g : FoldsUp(g, n, A, <<>>, step)
  BY <1>3, <1>5, FoldExists
<1>7. Puts(g)
  <2>1. ASSUME NEW T \in SUBSET (1..n)
        PROVE  g[T] = IF T = {} THEN <<>> ELSE Put(g[T \ {Max(T)}], s[Max(T)])
    <3>1. CASE T = {}
      BY <1>6, <3>1, Zenon DEF FoldsUp
    <3>2. CASE T # {}
      <4>1. Max(T) \in 1..n /\ T \ {Max(T)} \in SUBSET (1..n)
        BY <3>2, GreatestOf
      <4>2. g[T \ {Max(T)}] \in A
        BY <1>6, <4>1, Zenon DEF FoldsUp
      <4> QED
        BY <1>4, <1>6, <3>2, <4>1, <4>2, Zenon DEF FoldsUp
    <3> QED
      BY <3>1, <3>2
  <2>2. g \in [SUBSET (1..n) -> A]
    BY <1>6, Zenon DEF FoldsUp
  <2> QED
    BY <1>2, <2>1, <2>2, Zenon
<1>8. PICK h : Puts(h) /\ Packed(s) = h[1..n]
  <2>1. Puts(CHOOSE h : Puts(h))
    BY <1>7, Zenon
  <2>2. Packed(s) = (CHOOSE h : Puts(h))[DOMAIN s]
    BY Zenon DEF Packed, FoldLeft, MapThenFoldSet
  <2> QED
    BY <1>2, <2>1, <2>2, Zenon
<1>9. h[{}] = <<>>
  <2>1. {} \in SUBSET (1..n)
    OBVIOUS
  <2> QED
    BY <1>2, <1>8, <2>1, Zenon
<1>10. ASSUME NEW T \in SUBSET (1..n), T # {}, h[T \ {Max(T)}] \in A
       PROVE  h[T] = step[Max(T)][h[T \ {Max(T)}]]
  <2>1. h[T] = Put(h[T \ {Max(T)}], s[Max(T)])
    BY <1>2, <1>8, <1>10, Zenon
  <2>2. Max(T) \in 1..n
    BY <1>10, GreatestOf
  <2> QED
    BY <1>4, <1>10, <2>1, <2>2, Zenon
<1> HIDE DEF Puts
<1>11. Chained(h, n, A, <<>>, step)
  <2>1. Folds(h, n, A, <<>>, step)
    BY <1>9, <1>10, Zenon DEF Folds
  <2> QED
    BY <1>3, <1>5, <2>1, FoldChain, Zenon
<1>12. PICK v \in [0..n -> A] :
         /\ v[0] = <<>>
         /\ \A k \in 1..n : v[k] = step[k][v[k - 1]]
         /\ h[1..n] = v[n]
  BY <1>11, Zenon DEF Chained
<1>13. ASSUME NEW k \in 1..n PROVE v[k] = Put(v[k - 1], s[k])
  <2>1. k - 1 \in 0..n
    OBVIOUS
  <2> QED
    BY <1>4, <1>12, <2>1, Zenon
<1> QED
  BY <1>8, <1>12, <1>13, Zenon DEF A

\* What ikcp_output has been given so far: no datagram is empty or longer than
\* the MTU, but for one of a single item, and none could have taken the next item.
PackedWell(p, longest) ==
  /\ \A i \in 1..Len(p) :
       /\ p[i] # <<>>
       /\ Total(p[i]) <= mtu \/ (Len(p[i]) = 1 /\ Total(p[i]) <= longest)
  /\ \A i \in 1 .. Len(p) - 1 : Total(p[i]) + Head(p[i + 1]) > mtu

LEMMA PutKeeps ==
  ASSUME mtu \in Nat, NEW longest \in Nat, NEW p \in Seq(Seq(Nat)), NEW need \in 0..longest,
         PackedWell(p, longest)
  PROVE  PackedWell(Put(p, need), longest)
<1>1. need \in Nat
  OBVIOUS
<1>2. CASE Put(p, need) = p
  BY <1>2
<1>3. CASE /\ p # <<>> /\ Total(Last(p)) + need <= mtu
           /\ Put(p, need) = [p EXCEPT ![Len(p)] = Append(p[Len(p)], need)]
  <2>1. PICK n \in Nat \ {0} : n = Len(p)
    BY <1>3, EmptySeq, LenProperties
  <2>2. PICK last \in Seq(Nat) : last = p[n] /\ last # <<>>
    <3>1. n \in 1..Len(p)
      BY <2>1
    <3> QED
      BY <2>1, <3>1, ElementOfSeq DEF PackedWell
  <2>3. PICK longer \in Seq(Nat) : longer = Append(last, need)
    BY <1>1, AppendProperties
  <2>4. longer # <<>> /\ Head(longer) = Head(last) /\ Total(longer) = Total(last) + need
    <3>1. longer # <<>>
      BY ONLY <1>1, <2>3, last \in Seq(Nat), AppendProperties
    <3>2. Head(longer) = Head(last)
      <4>1. Head(Append(last, need)) = IF last = <<>> THEN need ELSE Head(last)
        BY HeadTailAppend
      <4> QED
        BY <2>2, <2>3, <4>1
    <3>3. Total(longer) = Total(last) + need
      BY <1>1, <2>3, TotalAppend
    <3> QED
      BY <3>1, <3>2, <3>3
  <2>5. PICK q \in Seq(Seq(Nat)) : q = Put(p, need)
    BY <1>1, PutType
  <2>6. Len(q) = n /\ q[n] = longer /\ \A i \in 1 .. n - 1 : q[i] = p[i]
    <3>1. q = [p EXCEPT ![n] = longer] /\ n \in 1..Len(p)
      BY <1>3, <2>1, <2>2, <2>3, <2>5
    <3> QED
      BY <2>1, <3>1, ExceptSeq
  <2>7. Total(longer) <= mtu
    BY <1>3, <2>1, <2>2, <2>4 DEF Last
  <2>8. ASSUME NEW i \in 1..n
        PROVE  /\ q[i] # <<>>
               /\ Total(q[i]) <= mtu \/ (Len(q[i]) = 1 /\ Total(q[i]) <= longest)
    <3>1. CASE i = n
      BY <2>4, <2>6, <2>7, <3>1
    <3>2. CASE i # n
      <4>1. i \in 1 .. n - 1 /\ i \in 1..Len(p)
        BY <2>1, <3>2
      <4> QED
        BY <2>6, <4>1 DEF PackedWell
    <3> QED
      BY <3>1, <3>2
  <2>9. ASSUME NEW i \in 1 .. n - 1
        PROVE  Total(q[i]) + Head(q[i + 1]) > mtu
    <3>1. Total(p[i]) + Head(p[i + 1]) > mtu
      BY <2>1 DEF PackedWell
    <3>2. q[i] = p[i] /\ Head(q[i + 1]) = Head(p[i + 1])
      <4>1. CASE i + 1 = n
        BY <2>2, <2>4, <2>6, <4>1
      <4>2. CASE i + 1 # n
        <5>1. i + 1 \in 1 .. n - 1
          BY <4>2
        <5> QED
          BY <2>6, <5>1
      <4> QED
        BY <4>1, <4>2
    <3> QED
      BY <3>1, <3>2
  <2> QED
    BY <2>5, <2>6, <2>8, <2>9 DEF PackedWell
<1>4. CASE /\ p = <<>> \/ ~(Total(Last(p)) + need <= mtu)
           /\ Put(p, need) = Append(p, <<need>>)
  <2>1. PICK n \in Nat : n = Len(p)
    BY LenProperties
  <2>2. <<need>> \in Seq(Nat) /\ <<need>> # <<>> /\ Len(<<need>>) = 1
        /\ Head(<<need>>) = need /\ Total(<<need>>) = need
    BY <1>1, TotalSingle
  <2>3. PICK new \in Seq(Nat) : new = <<need>>
    BY <2>2
  <2>4. PICK q \in Seq(Seq(Nat)) : q = Put(p, need)
    BY <1>1, PutType
  <2>5. Len(q) = n + 1 /\ q[n + 1] = new /\ \A i \in 1..n : q[i] = p[i]
    BY <1>4, <2>1, <2>3, <2>4, AppendProperties
  <2>6. ASSUME NEW i \in 1 .. n + 1
        PROVE  /\ q[i] # <<>>
               /\ Total(q[i]) <= mtu \/ (Len(q[i]) = 1 /\ Total(q[i]) <= longest)
    <3>1. CASE i = n + 1
      <4>1. q[i] = new /\ new # <<>> /\ Len(new) = 1 /\ Total(new) = need /\ need <= longest
        BY ONLY <2>2, <2>3, <2>5, <3>1, need \in 0..longest, longest \in Nat
      <4> QED
        BY ONLY <4>1
    <3>2. CASE i # n + 1
      <4>1. i \in 1..n /\ i \in 1..Len(p)
        BY <2>1, <3>2
      <4> QED
        BY <2>5, <4>1 DEF PackedWell
    <3> QED
      BY <3>1, <3>2
  <2>7. ASSUME NEW i \in 1..n
        PROVE  Total(q[i]) + Head(q[i + 1]) > mtu
    <3>1. CASE i = n
      <4>1. p # <<>> /\ Last(p) = p[n]
        BY <2>1, <3>1, EmptySeq DEF Last
      <4>2. p[n] \in Seq(Nat)
        BY <2>1, <3>1, ElementOfSeq
      <4>3. PICK t \in Nat : t = Total(p[n])
        BY <4>2, TotalType
      <4>4. ~(t + need <= mtu)
        BY <1>4, <4>1, <4>3
      <4> QED
        BY <1>1, <2>2, <2>3, <2>5, <3>1, <4>3, <4>4
    <3>2. CASE i # n
      <4>1. i \in 1 .. n - 1 /\ i + 1 \in 1..n
        BY <3>2
      <4> QED
        BY <2>1, <2>5, <4>1 DEF PackedWell
    <3> QED
      BY <3>1, <3>2
  <2> QED
    BY <2>4, <2>5, <2>6, <2>7 DEF PackedWell
<1> QED
  BY <1>1, <1>2, <1>3, <1>4, PutType


\* So is everything that a flush hands to ikcp_output.
LEMMA PackedIsWell ==
  ASSUME mtu \in Nat, NEW longest \in Nat, NEW s \in Seq(0..longest)
  PROVE  Packed(s) \in Seq(Seq(Nat)) /\ PackedWell(Packed(s), longest)
<1>1. PICK n \in Nat : n = Len(s)
  BY LenProperties
<1>2. s \in Seq(Nat) /\ \A k \in 1..n : s[k] \in 0..longest
  <2>1. 0..longest \subseteq Nat
    OBVIOUS
  <2>2. s \in Seq(Nat)
    BY <2>1, SeqMonotonic
  <2> QED
    BY <1>1, <2>2, ElementOfSeq
<1>3. PICK v \in [0..n -> Seq(Seq(Nat))] :
        /\ v[0] = <<>>
        /\ \A k \in 1..n : v[k] = Put(v[k - 1], s[k])
        /\ Packed(s) = v[n]
  BY <1>1, <1>2, PackedChain
<1> DEFINE S == {k \in 0..n : PackedWell(v[k], longest)}
<1>4. \A k \in 0..n : k \in S
  <2>1. 0 \in S
    <3>1. Len(<<>>) = 0 /\ 0 \in 0..n
      BY EmptySeq
    <3>2. PackedWell(<<>>, longest)
      BY <3>1 DEF PackedWell
    <3> QED
      BY <1>3, <3>1, <3>2
  <2>2. ASSUME NEW k \in 1..n, k - 1 \in S PROVE k \in S
    <3>1. k \in 0..n /\ k - 1 \in 0..n /\ PackedWell(v[k - 1], longest)
      BY <2>2
    <3>2. v[k - 1] \in Seq(Seq(Nat)) /\ s[k] \in 0..longest
      BY <1>2, <1>3, <3>1
    <3>3. PackedWell(Put(v[k - 1], s[k]), longest)
      BY <3>1, <3>2, PutKeeps
    <3> QED
      BY <1>3, <3>1, <3>3
  <2> HIDE DEF S
  <2> QED
    BY <2>1, <2>2, UpTo
<1> QED
  BY <1>3, <1>4

-----------------------------------------------------------------------------
(* Bytes *)

\* What has a length.
Lengthy == [from : Nat, len : Nat]

\* Bytes adds the lengths up.
LEMMA BytesChain ==
  ASSUME NEW S, \A x \in S : x.len \in Nat, NEW s \in Seq(S), NEW n \in Nat, n = Len(s)
  PROVE  /\ [i \in DOMAIN s |-> s[i].len] \in Seq(Nat)
         /\ Len([i \in DOMAIN s |-> s[i].len]) = n
         /\ \E v \in [0..n -> Nat] :
              /\ v[0] = 0
              /\ \A k \in 1..n : v[k] = v[k - 1] + s[k].len
              /\ Bytes(s) = v[n]
<1>1. PICK f : f = [i \in DOMAIN s |-> s[i].len]
  OBVIOUS
<1>2. DOMAIN s = 1..n /\ \A i \in 1..n : s[i] \in S
  BY LenProperties, ElementOfSeq
<1>3. f \in [1..n -> Nat] /\ \A i \in 1..n : f[i] = s[i].len
  BY <1>1, <1>2
<1>4. f \in Seq(Nat) /\ Len(f) = n
  BY <1>3, IsASeq
<1>5. PICK v \in [0..n -> Nat] :
        /\ v[0] = 0
        /\ \A k \in 1..n : v[k] = v[k - 1] + f[k]
        /\ Total(f) = v[n]
  BY <1>4, TotalChain
<1>6. \A k \in 1..n : v[k] = v[k - 1] + s[k].len
  BY <1>3, <1>5
<1> QED
  BY <1>1, <1>4, <1>5, <1>6, Zenon DEF Bytes

LEMMA BytesType ==
  ASSUME NEW S, \A x \in S : x.len \in Nat, NEW s \in Seq(S)
  PROVE  Bytes(s) \in Nat
<1>1. PICK n \in Nat : n = Len(s)
  BY LenProperties
<1>2. PICK v \in [0..n -> Nat] : Bytes(s) = v[n]
  BY <1>1, BytesChain
<1> QED
  BY <1>2

LEMMA BytesEmpty == Bytes(<<>>) = 0
<1>1. <<>> \in Seq(Lengthy) /\ Len(<<>>) = 0 /\ 0 \in Nat
  BY EmptySeq
<1>2. \A x \in Lengthy : x.len \in Nat
  BY DEF Lengthy
<1>3. PICK v \in [0..0 -> Nat] : v[0] = 0 /\ Bytes(<<>>) = v[0]
  BY <1>1, <1>2, BytesChain
<1> QED
  BY <1>3

LEMMA BytesAppend ==
  ASSUME NEW S, \A x \in S : x.len \in Nat, NEW s \in Seq(S), NEW e \in S
  PROVE  Bytes(Append(s, e)) = Bytes(s) + e.len
<1>1. PICK n \in Nat : n = Len(s)
  BY LenProperties
<1>2. PICK t \in Seq(S) : t = Append(s, e)
  BY AppendProperties
<1>3. n + 1 = Len(t) /\ t[n + 1] = e /\ \A i \in 1..n : t[i] = s[i]
  <2>1. /\ Len(t) = Len(s) + 1 /\ t[Len(s) + 1] = e
        /\ \A i \in 1..Len(s) : t[i] = s[i]
    BY <1>2, AppendProperties
  <2> QED
    BY ONLY <1>1, <2>1
<1>4. PICK f \in Seq(Nat) : f = [i \in DOMAIN s |-> s[i].len] /\ Len(f) = n
  BY <1>1, BytesChain
<1>5. PICK g \in Seq(Nat) : g = [i \in DOMAIN t |-> t[i].len] /\ Len(g) = n + 1
  <2>1. n + 1 \in Nat
    OBVIOUS
  <2> QED
    BY <1>3, <2>1, BytesChain
<1>6. PICK h \in Seq(Nat) : h = Append(f, e.len) /\ Len(h) = n + 1
                            /\ h[n + 1] = e.len /\ \A i \in 1..n : h[i] = f[i]
  <2>1. PICK l \in Nat : l = e.len
    OBVIOUS
  <2>2. PICK h \in Seq(Nat) : h = Append(f, l)
    BY AppendProperties
  <2>3. Len(h) = Len(f) + 1 /\ h[Len(f) + 1] = l /\ \A i \in 1..Len(f) : h[i] = f[i]
    BY <2>2, AppendProperties
  <2> QED
    BY ONLY <1>4, <2>1, <2>2, <2>3
<1>7. g = h
  <2>1. DOMAIN s = 1..n /\ DOMAIN t = 1 .. n + 1
    BY <1>1, <1>3, LenProperties
  <2>2. ASSUME NEW i \in 1 .. n + 1 PROVE g[i] = h[i]
    <3>1. CASE i = n + 1
      BY <1>3, <1>5, <1>6, <2>1, <3>1
    <3>2. CASE i # n + 1
      <4>1. i \in 1..n
        BY <3>2
      <4> QED
        BY <1>3, <1>4, <1>5, <1>6, <2>1, <4>1
    <3> QED
      BY <3>1, <3>2
  <2> QED
    BY <1>5, <1>6, <2>2, SeqEqual
<1>8. Total(h) = Total(f) + e.len
  BY <1>6, TotalAppend
<1> QED
  BY <1>2, <1>4, <1>5, <1>7, <1>8 DEF Bytes

\* Segments without a gap have as many bytes as they cover.
LEMMA CoversBytes ==
  ASSUME NEW S, \A x \in S : x.len \in Nat /\ x.from \in Nat, NEW s \in Seq(S),
         NEW n \in Nat, n = Len(s), NEW a \in Nat, NEW b, Covers(s, n, a, b)
  PROVE  a + Bytes(s) = b
<1>1. PICK v \in [0..n -> Nat] :
        /\ v[0] = 0
        /\ \A k \in 1..n : v[k] = v[k - 1] + s[k].len
        /\ Bytes(s) = v[n]
  BY BytesChain
<1>2. \A k \in 1..n : s[k].from \in Nat /\ s[k].len \in Nat
  <2>1. \A k \in 1..n : s[k] \in S
    BY ElementOfSeq
  <2> QED
    BY <2>1
<1> DEFINE T == {k \in 0..n : k = 0 \/ s[k].from + s[k].len = a + v[k]}
<1>3. \A k \in 0..n : k \in T
  <2>1. 0 \in T
    OBVIOUS
  <2>2. ASSUME NEW k \in 1..n, k - 1 \in T PROVE k \in T
    <3>1. k \in 0..n /\ k - 1 \in 0..n /\ v[k] = v[k - 1] + s[k].len
      BY <1>1
    <3>2. s[k].from = a + v[k - 1]
      <4>1. CASE k = 1
        BY <1>1, <4>1 DEF Covers
      <4>2. CASE k # 1
        <5>1. k - 1 \in 1 .. n - 1 /\ (k - 1) + 1 = k
          BY <4>2
        <5>2. s[k].from = s[k - 1].from + s[k - 1].len
          BY <5>1 DEF Covers
        <5> QED
          BY <2>2, <5>1, <5>2
      <4> QED
        BY <4>1, <4>2
    <3>3. PICK x \in Nat, y \in Nat : x = v[k - 1] /\ y = s[k].len
      BY <1>1, <1>2, <3>1
    <3> QED
      BY <3>1, <3>2, <3>3
  <2> HIDE DEF T
  <2> QED
    BY <2>1, <2>2, UpTo
<1> QED
  BY <1>1, <1>3 DEF Covers


-----------------------------------------------------------------------------
(* Stretches of bytes *)

\* A stretch may get longer at its end.
LEMMA CoversLonger ==
  ASSUME NEW s, NEW t, NEW n \in Nat, n > 0, NEW a, NEW b \in Nat, NEW e \in Nat,
         s[n].from \in Nat, s[n].len \in Nat, Covers(s, n, a, b),
         \A i \in 1 .. n - 1 : t[i] = s[i],
         t[n].from = s[n].from, t[n].len = s[n].len + e
  PROVE  Covers(t, n, a, b + e)
<1>1. t[1].from = a
  BY DEF Covers
<1>2. t[n].from + t[n].len = b + e
  BY DEF Covers
<1>3. ASSUME NEW i \in 1 .. n - 1
      PROVE  t[i + 1].from = t[i].from + t[i].len
  <2>1. t[i + 1].from = s[i + 1].from
    <3>1. CASE i + 1 = n
      BY <3>1
    <3>2. CASE i + 1 # n
      <4>1. i + 1 \in 1 .. n - 1
        BY <3>2
      <4> QED
        BY <4>1
    <3> QED
      BY <3>1, <3>2
  <2> QED
    BY <2>1 DEF Covers
<1> QED
  BY <1>1, <1>2, <1>3 DEF Covers

\* Two stretches, one behind the other.
LEMMA CoversConcat ==
  ASSUME NEW s, NEW t, NEW u, NEW n \in Nat, NEW m \in Nat, NEW a, NEW b, NEW c,
         Covers(s, n, a, b), Covers(t, m, b, c),
         \A i \in 1..n : u[i] = s[i], \A i \in 1..m : u[n + i] = t[i]
  PROVE  Covers(u, n + m, a, c)
<1>1. CASE m = 0
  <2>1. b = c /\ n + m = n
    BY <1>1 DEF Covers
  <2>2. n > 0 => u[1] = s[1] /\ u[n] = s[n]
    OBVIOUS
  <2>3. \A i \in 1 .. n - 1 : u[i] = s[i] /\ u[i + 1] = s[i + 1]
    OBVIOUS
  <2> QED
    BY <2>1, <2>2, <2>3 DEF Covers
<1>2. CASE m > 0
  <2>1. u[n + 1] = t[1] /\ u[n + m] = t[m]
    BY <1>2
  <2>2. u[1].from = a
    <3>1. CASE n = 0
      <4>1. a = b /\ n + 1 = 1
        BY <3>1 DEF Covers
      <4> QED
        BY <1>2, <2>1, <4>1 DEF Covers
    <3>2. CASE n > 0
      BY <3>2 DEF Covers
    <3> QED
      BY <3>1, <3>2
  <2>3. u[n + m].from + u[n + m].len = c
    BY <1>2, <2>1 DEF Covers
  <2>4. ASSUME NEW i \in 1 .. (n + m) - 1
        PROVE  u[i + 1].from = u[i].from + u[i].len
    <3>1. CASE i < n
      <4>1. i \in 1 .. n - 1 /\ i \in 1..n /\ i + 1 \in 1..n
        BY <3>1
      <4> QED
        BY <4>1 DEF Covers
    <3>2. CASE i = n
      <4>1. n \in 1..n /\ u[n] = s[n] /\ n > 0
        BY <3>2
      <4> QED
        BY <1>2, <2>1, <3>2, <4>1 DEF Covers
    <3>3. CASE i > n
      <4>1. PICK j \in 1 .. m - 1 : i = n + j
        <5>1. i - n \in 1 .. m - 1 /\ i = n + (i - n)
          BY <3>3
        <5> QED
          BY <5>1
      <4>2. u[n + j] = t[j] /\ u[n + (j + 1)] = t[j + 1] /\ i + 1 = n + (j + 1)
        BY <4>1
      <4> QED
        BY <4>1, <4>2 DEF Covers
    <3> QED
      BY <3>1, <3>2, <3>3
  <2> QED
    BY <1>2, <2>2, <2>3, <2>4 DEF Covers
<1> QED
  BY <1>1, <1>2

\* A stretch falls into two at each of its segments, here behind the first k.
Between(s, t, u, n, k, a, b, c) ==
  /\ Covers(t, k, a, c) /\ Covers(u, n - k, c, b)
  /\ k = 0 => c = a
  /\ k > 0 => c = s[k].from + s[k].len

LEMMA CoversSplit ==
  ASSUME NEW s, NEW n \in Nat, NEW k \in 0..n, NEW a, NEW b, Covers(s, n, a, b),
         NEW t, \A i \in 1..k : t[i] = s[i],
         NEW u, \A i \in 1 .. n - k : u[i] = s[k + i]
  PROVE  \E c : Between(s, t, u, n, k, a, b, c)
<1> DEFINE c == IF k = 0 THEN a ELSE s[k].from + s[k].len
<1>1. Covers(t, k, a, c)
  <2>1. k > 0 => t[1] = s[1] /\ t[k] = s[k] /\ s[1].from = a
    BY DEF Covers
  <2>2. \A i \in 1 .. k - 1 : t[i] = s[i] /\ t[i + 1] = s[i + 1]
                              /\ s[i + 1].from = s[i].from + s[i].len
    BY DEF Covers
  <2> QED
    BY <2>1, <2>2 DEF Covers
<1>2. Covers(u, n - k, c, b)
  <2>1. n - k = 0 => c = b
    <3>1. CASE k = 0
      BY <3>1 DEF Covers
    <3>2. CASE k > 0
      <4>1. n - k = 0 => n = k /\ n > 0
        BY <3>2
      <4> QED
        BY <3>2, <4>1 DEF Covers
    <3> QED
      BY <3>1, <3>2
  <2>2. n - k > 0 => u[1].from = c /\ u[n - k].from + u[n - k].len = b
    <3>1. SUFFICES ASSUME n - k > 0
                   PROVE  u[1].from = c /\ u[n - k].from + u[n - k].len = b
      OBVIOUS
    <3>2. u[1] = s[k + 1] /\ u[n - k] = s[n]
      <4>1. 1 \in 1 .. n - k /\ n - k \in 1 .. n - k /\ k + (n - k) = n
        BY <3>1
      <4> QED
        BY <4>1
    <3>3. s[k + 1].from = c
      <4>1. CASE k = 0
        BY <3>1, <4>1 DEF Covers
      <4>2. CASE k > 0
        <5>1. k \in 1 .. n - 1
          BY <3>1, <4>2
        <5> QED
          BY <4>2, <5>1 DEF Covers
      <4> QED
        BY <4>1, <4>2
    <3>4. s[n].from + s[n].len = b
      BY <3>1 DEF Covers
    <3> QED
      BY <3>2, <3>3, <3>4
  <2>3. ASSUME NEW i \in 1 .. (n - k) - 1
        PROVE  u[i + 1].from = u[i].from + u[i].len
    <3>1. u[i] = s[k + i] /\ u[i + 1] = s[k + (i + 1)] /\ k + (i + 1) = (k + i) + 1
      OBVIOUS
    <3>2. k + i \in 1 .. n - 1
      OBVIOUS
    <3> QED
      BY <3>1, <3>2 DEF Covers
  <2> HIDE DEF c
  <2> QED
    BY <2>1, <2>2, <2>3 DEF Covers
<1> QED
  BY <1>1, <1>2 DEF Between


-----------------------------------------------------------------------------
(* Cut: the fragments of a message *)

LEMMA Times ==
  ASSUME NEW m \in Nat, NEW i \in Int, NEW k \in Int, i <= k
  PROVE  i * m <= k * m
<1>1. PICK d \in Nat : k = i + d
  <2>1. k - i \in Nat /\ k = i + (k - i)
    OBVIOUS
  <2> QED
    BY <2>1
<1>2. k * m = i * m + d * m /\ d * m >= 0 /\ i * m \in Int /\ d * m \in Int
  BY <1>1
<1> QED
  BY <1>2

\* So many fragments hold len bytes, and one less does not hold more.
LEMMA CountHolds ==
  ASSUME NEW m \in Nat \ {0}, mss = m, NEW len \in Nat
  PROVE  /\ Count(len) \in Nat \ {0}
         /\ (Count(len) - 1) * m <= len /\ len <= Count(len) * m
<1>1. CASE len <= m
  <2>1. Count(len) = 1
    BY <1>1 DEF Count
  <2> QED
    BY <1>1, <2>1
<1>2. CASE ~(len <= m)
  <2>1. PICK x \in Nat : x = len + m - 1
    BY <1>2
  <2>2. PICK q \in Int : q = x \div m
    OBVIOUS
  <2>3. PICK r \in 0 .. m - 1 : x = m * q + r
    <3>1. x = m * (x \div m) + (x % m) /\ x % m \in 0 .. m - 1
      OBVIOUS
    <3> QED
      BY <2>2, <3>1
  <2>4. Count(len) = q
    BY <1>2, <2>1, <2>2 DEF Count
  <2>5. q * m = m * q /\ (q - 1) * m = m * q - m /\ m * q \in Int
    OBVIOUS
  <2>6. q >= 1
    <3>1. SUFFICES ASSUME q <= 0 PROVE FALSE
      OBVIOUS
    <3>2. q * m <= 0 * m /\ 0 * m = 0
      BY <3>1, Times
    <3> QED
      BY <1>2, <2>1, <2>3, <2>5, <3>2
  <2> QED
    BY <2>1, <2>3, <2>4, <2>5, <2>6
<1> QED
  BY <1>1, <1>2

\* What each of the q fragments of len bytes is: full, but for the last.
Fragments(c, q, m, from, len) ==
  /\ \A i \in 1..q : /\ c[i].from = from + (i - 1) * m
                     /\ c[i].frg = (IF stream THEN 0 ELSE q - i)
  /\ \A i \in 1 .. q - 1 : c[i].len = m
  /\ c[q].len = len - (q - 1) * m

\* ikcp_send makes them, none longer than an mss, and so few that a window holds
\* them.
LEMMA CutFragments ==
  ASSUME PackAssumption, NEW m \in Nat \ {0}, mss = m,
         NEW from \in Nat, NEW len \in Nat, NEW q, q = Count(len), q < WND_RCV
  PROVE  /\ q \in Nat \ {0}
         /\ Cut(from, len) \in Seq(Segment) /\ Len(Cut(from, len)) = q
         /\ Fragments(Cut(from, len), q, m, from, len)
         /\ len - (q - 1) * m \in 0..m
<1>1. q \in Nat \ {0} /\ (q - 1) * m <= len /\ len <= q * m
  BY CountHolds
<1>2. PICK b \in Nat : b = (q - 1) * m
  <2>1. 0 * m <= (q - 1) * m /\ (q - 1) * m \in Int /\ 0 * m = 0
    BY <1>1, Times
  <2> QED
    BY <2>1
<1>3. q * m = b + m
  <2>1. q * m = (q - 1) * m + m
    BY <1>1
  <2> QED
    BY <1>2, <2>1
<1>4. len - b \in 0..m
  BY <1>1, <1>2, <1>3
<1>5. ASSUME NEW i \in 1..q
      PROVE  /\ (i - 1) * m \in Nat
             /\ i < q => imin(m, len - (i - 1) * m) = m
             /\ i = q => imin(m, len - (i - 1) * m) = len - b
  <2>1. PICK a \in Nat : a = (i - 1) * m
    <3>1. 0 * m <= (i - 1) * m /\ (i - 1) * m \in Int /\ 0 * m = 0
      BY <1>1, Times
    <3> QED
      BY <3>1
  <2>2. i < q => a + m <= b
    <3>1. SUFFICES ASSUME i < q PROVE a + m <= b
      OBVIOUS
    <3>2. i * m <= (q - 1) * m
      BY <1>1, <3>1, Times
    <3>3. i * m = (i - 1) * m + m
      BY <1>1
    <3> QED
      BY <1>2, <2>1, <3>2, <3>3
  <2>3. i = q => a = b
    BY <1>2, <2>1
  <2> QED
    BY <1>2, <1>4, <2>1, <2>2, <2>3 DEF imin
<1>6. PICK c : c = Cut(from, len)
  OBVIOUS
<1>7. /\ c = [i \in 1..q |-> c[i]]
      /\ \A i \in 1..q :
           c[i] = [from |-> from + (i - 1) * m, len |-> imin(m, len - (i - 1) * m),
                   frg |-> IF stream THEN 0 ELSE q - i]
  BY <1>6 DEF Cut
<1>8. ASSUME NEW i \in 1..q PROVE c[i] \in Segment
  <2>1. PICK a \in Nat, l \in Nat : a = (i - 1) * m /\ l = imin(m, len - (i - 1) * m)
    <3>1. imin(m, len - (i - 1) * m) \in Nat
      <4>1. CASE i < q
        BY <1>5, <4>1
      <4>2. CASE i = q
        BY <1>4, <1>5, <4>2
      <4> QED
        BY <1>1, <4>1, <4>2
    <3> QED
      BY <1>5, <3>1
  <2>2. (IF stream THEN 0 ELSE q - i) \in 0 .. WND_RCV - 2
    BY <1>1 DEF PackAssumption
  <2>3. PICK x \in Nat, f \in 0 .. WND_RCV - 2 :
          x = from + (i - 1) * m /\ f = (IF stream THEN 0 ELSE q - i)
    BY <2>1, <2>2
  <2>4. c[i] = [from |-> x, len |-> l, frg |-> f]
    BY <1>7, <2>1, <2>3
  <2> QED
    BY ONLY <2>1, <2>3, <2>4 DEF Segment
<1>9. c \in Seq(Segment) /\ Len(c) = q
  <2>1. c \in [1..q -> Segment]
    BY <1>7, <1>8, Zenon
  <2> QED
    BY ONLY <1>1, <2>1, q \in Nat
<1>10. Fragments(c, q, m, from, len)
  <2>1. \A i \in 1..q : c[i].from = from + (i - 1) * m
                        /\ c[i].frg = (IF stream THEN 0 ELSE q - i)
    BY ONLY <1>7
  <2>2. ASSUME NEW i \in 1 .. q - 1 PROVE c[i].len = m
    <3>1. i \in 1..q /\ i < q
      BY <1>1
    <3>2. imin(m, len - (i - 1) * m) = m
      BY <1>5, <3>1
    <3> QED
      BY <1>7, <3>1, <3>2
  <2>3. c[q].len = len - (q - 1) * m
    <3>1. q \in 1..q
      BY <1>1
    <3> QED
      BY <1>2, <1>5, <1>7, <3>1
  <2> QED
    BY <2>1, <2>2, <2>3 DEF Fragments
<1> QED
  BY <1>1, <1>2, <1>4, <1>6, <1>9, <1>10

\* The fragments cover the message, and the first k of them its first k mss.
LEMMA FragmentsCover ==
  ASSUME NEW m \in Nat \ {0}, NEW from \in Nat, NEW len \in Nat, NEW q \in Nat \ {0},
         NEW c, Fragments(c, q, m, from, len)
  PROVE  /\ Covers(c, q, from, from + len)
         /\ \A k \in 0 .. q - 1 : Covers(c, k, from, from + k * m)
<1>1. ASSUME NEW i \in 1 .. q - 1
      PROVE  c[i + 1].from = c[i].from + c[i].len /\ c[i].from + c[i].len = from + i * m
  <2>1. c[i + 1].from = from + ((i + 1) - 1) * m /\ c[i].from = from + (i - 1) * m
        /\ c[i].len = m
    BY DEF Fragments
  <2>2. ((i + 1) - 1) * m = (i - 1) * m + m /\ i * m = (i - 1) * m + m /\ (i - 1) * m \in Int
    OBVIOUS
  <2> QED
    BY <2>1, <2>2
<1>2. c[1].from = from
  <2>1. c[1].from = from + (1 - 1) * m /\ (1 - 1) * m = 0
    BY DEF Fragments
  <2> QED
    BY <2>1
<1>3. c[q].from + c[q].len = from + len
  <2>1. c[q].from = from + (q - 1) * m /\ c[q].len = len - (q - 1) * m /\ (q - 1) * m \in Int
    BY DEF Fragments
  <2> QED
    BY <2>1
<1>4. Covers(c, q, from, from + len)
  BY <1>1, <1>2, <1>3 DEF Covers
<1>5. ASSUME NEW k \in 0 .. q - 1 PROVE Covers(c, k, from, from + k * m)
  <2>1. CASE k = 0
    <3>1. from = from + k * m
      BY <2>1
    <3> QED
      BY <2>1, <3>1 DEF Covers
  <2>2. CASE k > 0
    BY <1>1, <1>2, <2>2 DEF Covers
  <2> QED
    BY <2>1, <2>2
<1> QED
  BY <1>4, <1>5


-----------------------------------------------------------------------------
(* Units *)

\* The units a state satisfying the invariant has.
Units ==
  /\ mtu \in Nat /\ mss \in Nat \ {0} /\ mtu = OVERHEAD + mss
  /\ Max(mtus) \in Nat /\ mtu <= Max(mtus) /\ OVERHEAD <= Max(mtus)
  /\ Min(mtus) \in Nat /\ Min(mtus) <= mtu

\* The greatest and the least number of a set are what they should be.
LEMMA MaxMinIs ==
  ASSUME NEW T \in SUBSET Nat, NEW low \in T, NEW high \in T,
         \A x \in T : low <= x /\ x <= high
  PROVE  Max(T) = high /\ Min(T) = low
<1>1. Max(T) = high
  <2>1. \A y \in T : (\A x \in T : y >= x) => y = high
    OBVIOUS
  <2>2. \A x \in T : high >= x
    OBVIOUS
  <2> QED
    BY <2>1, <2>2, Zenon DEF Max
<1>2. Min(T) = low
  <2>1. \A y \in T : (\A x \in T : y <= x) => y = low
    OBVIOUS
  <2>2. \A x \in T : low <= x
    OBVIOUS
  <2> QED
    BY <2>1, <2>2, Zenon DEF Min
<1> QED
  BY <1>1, <1>2

LEMMA UnitsThere ==
  ASSUME PackAssumption, TypeOK, UnitsKept
  PROVE  Units
<1>1. mtus \in SUBSET Nat /\ mtu \in mtus /\ mtu \in Nat /\ MTU_MIN <= mtu
  BY DEF TypeOK, UnitsKept
<1>2. PICK low \in mtus, high \in mtus : \A m \in mtus : low <= m /\ m <= high
  BY DEF UnitsKept
<1>3. Max(mtus) = high /\ Min(mtus) = low
  BY <1>1, <1>2, MaxMinIs
<1>4. OVERHEAD \in Nat \ {0} /\ MTU_MIN \in Nat /\ OVERHEAD < MTU_MIN
  BY DEF PackAssumption
<1> QED
  BY <1>1, <1>2, <1>3, <1>4 DEF Units, mss

-----------------------------------------------------------------------------
(* Extended: the last segment filled up *)

\* t is s with e bytes more in the last segment, if there is one.
Longer(t, s, n, e) ==
  /\ Len(t) = n
  /\ \A i \in 1 .. n - 1 : t[i] = s[i]
  /\ n > 0 => t[n].from = s[n].from /\ t[n].frg = s[n].frg /\ t[n].len = s[n].len + e
  /\ n = 0 => e = 0

LEMMA ExtendedIs ==
  ASSUME TypeOK, Units, NEW len \in Nat, NEW n \in Nat, n = Len(snd_queue),
         NEW e, e = Extend(len)
  PROVE  /\ e \in 0..len
         /\ Extended(e) \in Seq(Segment)
         /\ Longer(Extended(e), snd_queue, n, e)
         /\ e > 0 => OVERHEAD + Extended(e)[n].len <= mtu
         /\ stream /\ n > 0 /\ e < len => mtu <= OVERHEAD + Extended(e)[n].len
         /\ ~stream => e = 0
<1>1. snd_queue \in Seq(Segment)
  BY DEF TypeOK
<1>2. PICK m \in Nat, M \in Nat : m = mss /\ M = OVERHEAD + m /\ M = mtu
  BY DEF Units
<1>3. CASE n = 0
  <2>1. snd_queue = <<>>
    BY <1>1, <1>3, EmptySeq
  <2>2. e = 0 /\ Extended(e) = snd_queue
    BY <2>1 DEF Extend, Extended
  <2>3. Longer(snd_queue, snd_queue, n, e)
    BY <1>3, <2>2 DEF Longer
  <2>4. e \in 0..len /\ ~(e > 0) /\ ~(n > 0)
    BY <1>3, <2>2
  <2> QED
    BY <1>1, <2>2, <2>3, <2>4
<1>4. CASE n > 0
  <2>1. snd_queue # <<>> /\ Last(snd_queue) = snd_queue[n] /\ n \in 1..Len(snd_queue)
    BY <1>4, EmptySeq DEF Last
  <2>2. PICK seg \in Segment : seg = snd_queue[n]
    BY <1>1, <2>1, ElementOfSeq
  <2>3. PICK l \in Nat : l = seg.len
    BY DEF Segment
  <2>4. e \in 0..len /\ e = (IF stream /\ l < m THEN imin(len, m - l) ELSE 0)
    <3>1. e = (IF stream /\ l < m THEN imin(len, m - l) ELSE 0)
      BY <1>2, <2>1, <2>2, <2>3 DEF Extend
    <3>2. (IF stream /\ l < m THEN imin(len, m - l) ELSE 0) \in 0..len
      BY DEF imin
    <3> QED
      BY <3>1, <3>2
  <2>5. /\ e > 0 => l + e <= m
        /\ stream /\ e < len => m <= l + e
        /\ ~stream => e = 0
    BY <2>4 DEF imin
  <2>6. PICK t \in Seq(Segment) :
          t = Extended(e) /\ Longer(t, snd_queue, n, e) /\ t[n].len = l + e
    <3>1. CASE e = 0
      <4>1. Extended(e) = snd_queue
        BY <3>1 DEF Extended
      <4>2. Longer(snd_queue, snd_queue, n, e)
        BY <1>4, <2>2, <2>3, <3>1 DEF Longer
      <4>3. snd_queue[n].len = l + e
        BY <2>2, <2>3, <3>1
      <4> QED
        BY <1>1, <4>1, <4>2, <4>3
    <3>2. CASE e # 0
      <4>1. PICK new \in Segment : new = [seg EXCEPT !.len = l + e]
        <5>1. l + e \in Nat
          BY <2>4
        <5> QED
          BY <5>1 DEF Segment
      <4>2. Extended(e) = [snd_queue EXCEPT ![n] = new]
        BY <2>2, <2>3, <3>2, <4>1 DEF Extended
      <4>3. PICK t \in Seq(Segment) :
              t = Extended(e) /\ Len(t) = n
              /\ \A i \in 1..n : t[i] = (IF i = n THEN new ELSE snd_queue[i])
        BY <1>1, <2>1, <4>2, ExceptSeq
      <4>4. new.from = seg.from /\ new.frg = seg.frg /\ new.len = l + e
        BY <4>1 DEF Segment
      <4>5. t[n] = new
        BY <1>4, <4>3
      <4>6. Longer(t, snd_queue, n, e)
        BY <1>4, <2>2, <2>3, <4>3, <4>4, <4>5 DEF Longer
      <4> QED
        BY <4>3, <4>4, <4>5, <4>6
    <3> QED
      BY <3>1, <3>2
  <2>7. OVERHEAD + Extended(e)[n].len = OVERHEAD + (l + e)
    BY <2>6
  <2>8. PICK o \in Nat : o = OVERHEAD
    BY PackAssumption DEF PackAssumption
  <2>11. PICK z \in Nat : z = l + e
    BY <2>4
  <2>12. M = o + m
    BY <1>2, <2>8
  <2>13. (e > 0 => o + z <= M) /\ (stream /\ e < len => M <= o + z)
    BY ONLY <2>5, <2>11, <2>12, z \in Nat, o \in Nat, m \in Nat
  <2>9. e > 0 => OVERHEAD + Extended(e)[n].len <= mtu
    BY ONLY <1>2, <2>7, <2>8, <2>11, <2>13
  <2>10. stream /\ n > 0 /\ e < len => mtu <= OVERHEAD + Extended(e)[n].len
    BY ONLY <1>2, <2>7, <2>8, <2>11, <2>13
  <2> QED
    BY <2>4, <2>5, <2>6, <2>9, <2>10, Zenon
<1> QED
  BY <1>3, <1>4


-----------------------------------------------------------------------------
(* ikcp_send: the last segment gets e bytes more, then come k segments c of d bytes *)

Queues(e, c, n, k, d) ==
  /\ n = Len(snd_queue) /\ k = Len(c)
  /\ Extended(e) \in Seq(Segment) /\ Longer(Extended(e), snd_queue, n, e)
  /\ snd_queue' = Extended(e) \o c /\ accepted' = accepted + e + d
  /\ Covers(c, k, accepted + e, accepted + e + d)
  /\ \A i \in 1..k : OVERHEAD + c[i].len <= mtu
  /\ \A i \in 1 .. k - 1 : mtu <= OVERHEAD + c[i].len
  /\ e > 0 => OVERHEAD + Extended(e)[n].len <= mtu
  /\ stream /\ n > 0 /\ k > 0 => mtu <= OVERHEAD + Extended(e)[n].len
  /\ UNCHANGED <<stream, mtu, mtus, snd_buf, rcv_queue, reads>>

LEMMA SendQueues ==
  ASSUME PackAssumption, TypeOK, Units, NEW len \in Nat,
         \/ Send(len)
         \/ \E j \in 0 .. WND_RCV - 2 : SendFails(len, j)
  PROVE  \E e \in Nat, c \in Seq(Segment), n \in Nat, k \in Nat, d \in Nat :
           Queues(e, c, n, k, d)
<1>1. PICK n \in Nat, e \in Nat : n = Len(snd_queue) /\ e = Extend(len) /\ e <= len
  <2>1. snd_queue \in Seq(Segment)
    BY DEF TypeOK
  <2>2. PICK n \in Nat : n = Len(snd_queue)
    BY <2>1, LenProperties
  <2>3. Extend(len) \in 0..len
    BY <2>2, ExtendedIs
  <2> QED
    BY <2>2, <2>3
<1>2. /\ Extended(e) \in Seq(Segment)
      /\ Longer(Extended(e), snd_queue, n, e)
      /\ e > 0 => OVERHEAD + Extended(e)[n].len <= mtu
      /\ stream /\ n > 0 /\ e < len => mtu <= OVERHEAD + Extended(e)[n].len
  BY <1>1, ExtendedIs
<1>3. PICK m \in Nat \ {0}, a \in Nat, r \in Nat :
        /\ m = mss /\ mtu = OVERHEAD + m /\ a = accepted + e
        /\ r = len - e /\ r = Rest(len, e)
  <2>1. accepted + e \in Nat /\ len - e \in Nat
    <3>1. accepted \in Nat
      BY DEF TypeOK
    <3> QED
      BY ONLY <1>1, <3>1, len \in Nat
  <2> QED
    BY <1>1, <2>1 DEF Units, Rest
<1>4. PICK q : q = Count(r)
  OBVIOUS
<1>5. PICK o \in Nat : o = OVERHEAD
  BY DEF PackAssumption
<1>6. CASE q < WND_RCV /\ ~(stream /\ r = 0)
  <2>1. /\ q \in Nat \ {0}
        /\ Cut(a, r) \in Seq(Segment) /\ Len(Cut(a, r)) = q
        /\ Fragments(Cut(a, r), q, m, a, r)
        /\ r - (q - 1) * m \in 0..m
    <3>1. mss = m /\ q = Count(r) /\ q < WND_RCV
      BY ONLY <1>3, <1>4, <1>6
    <3>2. m \in Nat \ {0} /\ a \in Nat /\ r \in Nat
      OBVIOUS
    <3> QED
      BY <3>1, <3>2, CutFragments, Zenon
  <2>2. PICK c \in Seq(Segment) : c = Cut(a, r) /\ Len(c) = q
    BY <2>1
  <2>3. /\ Covers(c, q, a, a + r)
        /\ \A j \in 0 .. q - 1 : Covers(c, j, a, a + j * m)
    BY <2>1, <2>2, FragmentsCover
  <2>4. /\ \A i \in 1..q : OVERHEAD + c[i].len <= mtu
        /\ \A i \in 1 .. q - 1 : mtu <= OVERHEAD + c[i].len
    <3>1. \A i \in 1 .. q - 1 : c[i].len = m
      BY <2>1, <2>2 DEF Fragments
    <3>2. c[q].len \in 0..m
      BY <2>1, <2>2 DEF Fragments
    <3>3. q \in Nat /\ \A i \in 1..q : i \in 1 .. q - 1 \/ i = q
      <4>1. q \in Nat
        BY <2>1
      <4> QED
        BY ONLY <4>1
    <3>4. OVERHEAD + c[q].len <= mtu
      BY ONLY <1>3, <1>5, <3>2
    <3>5. \A i \in 1 .. q - 1 : OVERHEAD + c[i].len = mtu
      BY <1>3, <3>1
    <3>6. mtu <= mtu
      BY ONLY <1>3, <1>5
    <3> QED
      BY ONLY <3>3, <3>4, <3>5, <3>6
  <2>5. e < len \/ ~stream
    BY <1>1, <1>3, <1>6
  <2>6. CASE Send(len)
    <3>1. /\ snd_queue' = Extended(e) \o c /\ accepted' = accepted + len
          /\ UNCHANGED <<stream, mtu, mtus, snd_buf, rcv_queue, reads>>
      BY <1>1, <1>3, <1>4, <1>6, <2>2, <2>6, Zenon DEF Send, unitVars
    <3>2. accepted + len = accepted + e + r /\ a + r = accepted + e + r
      BY <1>1, <1>3 DEF TypeOK
    <3>3. Queues(e, c, n, q, r)
      BY <1>1, <1>2, <1>3, <2>2, <2>3, <2>4, <2>5, <3>1, <3>2 DEF Queues
    <3>4. q \in Nat
      BY <2>1
    <3> QED
      BY <1>1, <1>3, <2>2, <3>3, <3>4, Zenon
  <2>7. CASE \E j \in 0 .. WND_RCV - 2 : SendFails(len, j)
    <3>1. PICK j \in Nat :
            /\ j < q /\ snd_queue' = Extended(e) \o SubSeq(c, 1, j)
            /\ accepted' = accepted + e + j * m
            /\ UNCHANGED <<stream, mtu, mtus, snd_buf, rcv_queue, reads>>
      <4>1. PICK j \in 0 .. WND_RCV - 2 : SendFails(len, j)
        BY <2>7
      <4>2. /\ j < q /\ snd_queue' = Extended(e) \o SubSeq(c, 1, j)
            /\ accepted' = accepted + e + j * m
            /\ UNCHANGED <<stream, mtu, mtus, snd_buf, rcv_queue, reads>>
        BY <1>1, <1>3, <1>4, <2>2, <4>1, Zenon DEF SendFails, unitVars
      <4>3. j \in Nat
        BY <4>1
      <4> QED
        BY <4>2, <4>3, Zenon
    <3>2. PICK t \in Seq(Segment) :
            t = SubSeq(c, 1, j) /\ Len(t) = j /\ \A i \in 1..j : t[i] = c[i]
      <4>1. \A i \in 1..j : c[i] \in Segment
        <5>1. \A i \in 1..j : i \in 1..q
          BY ONLY <2>1, <3>1
        <5>2. \A i \in 1..j : i \in 1..Len(c)
          BY ONLY <2>2, <5>1
        <5> QED
          BY <5>2, ElementOfSeq
      <4>2. SubSeq(c, 1, j) \in Seq(Segment)
            /\ Len(SubSeq(c, 1, j)) = (IF 1 <= j THEN j - 1 + 1 ELSE 0)
            /\ \A i \in 1 .. j - 1 + 1 : SubSeq(c, 1, j)[i] = c[1 + i - 1]
        BY <4>1, SubSeqProperties
      <4>3. j - 1 + 1 = j /\ (IF 1 <= j THEN j - 1 + 1 ELSE 0) = j
            /\ \A i \in 1..j : 1 + i - 1 = i
        OBVIOUS
      <4> QED
        BY ONLY <4>2, <4>3
    <3>3. PICK d \in Nat : d = j * m
      <4>1. j * m \in Nat
        OBVIOUS
      <4> QED
        BY <4>1
    <3>4. j \in 0 .. q - 1 /\ Covers(t, j, a, a + d)
      <4>1. j \in 0 .. q - 1
        BY ONLY <2>1, <3>1
      <4>2. Covers(c, j, a, a + d)
        BY <2>3, <3>3, <4>1
      <4> QED
        BY <3>2, <4>1, <4>2 DEF Covers
    <3>5. /\ \A i \in 1..j : OVERHEAD + t[i].len <= mtu
          /\ \A i \in 1 .. j - 1 : mtu <= OVERHEAD + t[i].len
      <4>1. \A i \in 1..j : i \in 1..q /\ i \in 1 .. q - 1 /\ t[i] = c[i]
        BY ONLY <2>1, <3>2, <3>4
      <4>2. \A i \in 1 .. j - 1 : i \in 1..j
        OBVIOUS
      <4> QED
        BY ONLY <2>4, <4>1, <4>2
    <3>6. Queues(e, t, n, j, d)
      BY <1>1, <1>2, <1>3, <2>5, <3>1, <3>2, <3>3, <3>4, <3>5 DEF Queues
    <3> QED
      BY <1>1, <3>1, <3>2, <3>3, <3>6, Zenon
  <2> QED
    BY <2>6, <2>7
<1>7. CASE ~(q < WND_RCV /\ ~(stream /\ r = 0))
  <2>1. Send(len)
    BY <1>1, <1>3, <1>4, <1>7 DEF SendFails
  <2>2. /\ snd_queue' = Extended(e) \o <<>> /\ accepted' = accepted + e
        /\ UNCHANGED <<stream, mtu, mtus, snd_buf, rcv_queue, reads>>
    BY <1>1, <1>3, <1>4, <1>7, <2>1, Zenon DEF Send, unitVars
  <2>3. <<>> \in Seq(Segment) /\ Len(<<>>) = 0 /\ 0 \in Nat
    BY EmptySeq
  <2>4. accepted + e + 0 = accepted + e
    BY DEF TypeOK
  <2>5. Covers(<<>>, 0, accepted + e, accepted + e + 0)
    BY <2>4 DEF Covers
  <2>6. Queues(e, <<>>, n, 0, 0)
    BY <1>1, <1>2, <2>2, <2>3, <2>4, <2>5 DEF Queues
  <2> QED
    BY <1>1, <2>3, <2>6, Zenon
<1> QED
  BY <1>6, <1>7


\* u has n elements of s, then m of t.
IsConcat(u, s, t, n, m) ==
  /\ Len(u) = n + m
  /\ \A i \in 1..n : u[i] = s[i]
  /\ \A i \in 1..m : u[n + i] = t[i]

LEMMA ConcatIs ==
  ASSUME NEW S, NEW s \in Seq(S), NEW t \in Seq(S),
         NEW n \in Nat, n = Len(s), NEW m \in Nat, m = Len(t)
  PROVE  s \o t \in Seq(S) /\ IsConcat(s \o t, s, t, n, m)
<1>1. /\ s \o t \in Seq(S) /\ Len(s \o t) = n + m
      /\ \A i \in 1 .. n + m : (s \o t)[i] = IF i <= n THEN s[i] ELSE t[i - n]
  BY ConcatProperties
<1>2. ASSUME NEW i \in 1..n PROVE (s \o t)[i] = s[i]
  <2>1. i \in 1 .. n + m /\ i <= n
    OBVIOUS
  <2> QED
    BY <1>1, <2>1
<1>3. ASSUME NEW i \in 1..m PROVE (s \o t)[n + i] = t[i]
  <2>1. n + i \in 1 .. n + m /\ ~(n + i <= n) /\ (n + i) - n = i
    OBVIOUS
  <2> QED
    BY ONLY <1>1, <2>1
<1> QED
  BY <1>1, <1>2, <1>3 DEF IsConcat

\* Where the brackets are does not matter.
Regroups(x, y, z) == (x \o y) \o z = x \o (y \o z)

LEMMA Regroup ==
  ASSUME NEW S, NEW x \in Seq(S), NEW y \in Seq(S), NEW z \in Seq(S)
  PROVE  Regroups(x, y, z)
BY ConcatAssociative DEF Regroups

LEMMA SegmentsTyped ==
  ASSUME NEW s \in Seq(Segment), NEW n \in Nat, n = Len(s), NEW i \in 1..n
  PROVE  s[i] \in Segment /\ s[i].from \in Nat /\ s[i].len \in Nat
<1>1. s[i] \in Segment
  BY ElementOfSeq
<1> QED
  BY <1>1 DEF Segment

LEMMA QueuesCovers ==
  ASSUME TypeOK, Covers(Pipeline, Len(Pipeline), Bytes(reads), accepted),
         NEW e \in Nat, NEW c \in Seq(Segment), NEW n \in Nat, NEW k \in Nat, NEW d \in Nat,
         Queues(e, c, n, k, d)
  PROVE  Covers(Pipeline', Len(Pipeline'), Bytes(reads'), accepted')
<1>1. snd_queue \in Seq(Segment) /\ snd_buf \in Seq(Segment) /\ rcv_queue \in Seq(Segment)
      /\ accepted \in Nat
  BY DEF TypeOK
<1>2. PICK q \in Seq(Segment) : q = Extended(e) /\ Longer(q, snd_queue, n, e)
  BY DEF Queues
<1>3. n = Len(snd_queue) /\ n = Len(q) /\ k = Len(c)
  BY <1>2 DEF Longer, Queues
<1>4. PICK a \in Nat : a = Bytes(reads)
  <2>1. \A x \in [from : Nat, len : Nat, into : Nat] : x.len \in Nat
    OBVIOUS
  <2>2. reads \in Seq([from : Nat, len : Nat, into : Nat])
    BY DEF TypeOK
  <2> QED
    BY <2>1, <2>2, BytesType
<1>5. PICK D \in Seq(Segment), p \in Nat : D = rcv_queue \o snd_buf /\ p = Len(D)
  <2>1. rcv_queue \o snd_buf \in Seq(Segment)
    BY <1>1, ConcatProperties
  <2> QED
    BY <2>1, LenProperties
<1>6. PICK P : P = Pipeline /\ IsConcat(P, D, snd_queue, p, n)
  <2>1. Pipeline = D \o snd_queue
    BY <1>5 DEF Pipeline
  <2> QED
    BY <1>1, <1>3, <1>5, <2>1, ConcatIs, Zenon
<1>7. PICK L \in Seq(Segment) : L = D \o q /\ IsConcat(L, D, q, p, n)
  BY <1>2, <1>3, <1>5, ConcatIs, Zenon
<1>8. Covers(P, p + n, a, accepted)
  BY <1>4, <1>6 DEF IsConcat
<1>9. Covers(L, p + n, a, accepted + e)
  <2>1. \A i \in 1 .. (p + n) - 1 : i \in 1..p \/ \E j \in 1 .. n - 1 : i = p + j
    <3>1. ASSUME NEW i \in 1 .. (p + n) - 1, ~(i \in 1..p) PROVE i - p \in 1 .. n - 1 /\ i = p + (i - p)
      BY <3>1
    <3> QED
      BY <3>1
  <2>2. \A i \in 1 .. n - 1 : q[i] = snd_queue[i] /\ i \in 1..n
    BY <1>2 DEF Longer
  <2>3. ASSUME NEW i \in 1 .. (p + n) - 1 PROVE L[i] = P[i]
    <3>1. CASE i \in 1..p
      BY <1>6, <1>7, <3>1 DEF IsConcat
    <3>2. CASE \E j \in 1 .. n - 1 : i = p + j
      <4>1. PICK j \in 1 .. n - 1 : i = p + j
        BY <3>2
      <4>2. L[p + j] = q[j] /\ P[p + j] = snd_queue[j]
        BY <1>6, <1>7, <2>2 DEF IsConcat
      <4> QED
        BY <2>2, <4>1, <4>2
    <3> QED
      BY <2>1, <3>1, <3>2
  <2>4. CASE n > 0
    <3>1. n \in 1..n
      BY <2>4
    <3>2. L[p + n] = q[n] /\ P[p + n] = snd_queue[n]
      BY <1>6, <1>7, <3>1 DEF IsConcat
    <3>3. q[n].from = snd_queue[n].from /\ q[n].len = snd_queue[n].len + e
      BY <1>2, <2>4 DEF Longer
    <3>4. snd_queue[n].from \in Nat /\ snd_queue[n].len \in Nat
      BY <1>1, <1>3, <3>1, SegmentsTyped
    <3>5. p + n \in Nat /\ p + n > 0
      BY <2>4
    <3> QED
      BY <1>1, <1>8, <2>3, <3>2, <3>3, <3>4, <3>5, CoversLonger
  <2>5. CASE n = 0
    <3>1. e = 0 /\ accepted + e = accepted /\ p + n = p
      BY <1>1, <1>2, <2>5 DEF Longer
    <3>2. \A i \in 1..p : L[i] = P[i]
      BY <1>6, <1>7 DEF IsConcat
    <3>3. p > 0 => L[1] = P[1] /\ L[p] = P[p]
      BY <3>2
    <3>4. \A i \in 1 .. p - 1 : L[i] = P[i] /\ L[i + 1] = P[i + 1]
      BY <3>2
    <3>5. /\ p = 0 => a = accepted
          /\ p > 0 => P[1].from = a /\ P[p].from + P[p].len = accepted
          /\ \A i \in 1 .. p - 1 : P[i + 1].from = P[i].from + P[i].len
      BY <1>8, <3>1 DEF Covers
    <3> QED
      BY ONLY <3>1, <3>3, <3>4, <3>5 DEF Covers
  <2> QED
    BY <2>4, <2>5
<1>10. PICK R : /\ R = Pipeline' /\ R = L \o c
  <2>1. snd_queue' = q \o c /\ snd_buf' = snd_buf /\ rcv_queue' = rcv_queue
    BY <1>2 DEF Queues
  <2>2. Pipeline' = D \o (q \o c)
    BY <1>5, <2>1 DEF Pipeline
  <2>3. (D \o q) \o c = D \o (q \o c)
    <3>1. Regroups(D, q, c)
      BY <1>2, <1>5, Regroup, Zenon
    <3> QED
      BY ONLY <3>1 DEF Regroups
  <2> QED
    BY <1>7, <2>2, <2>3
<1>11. p + n \in Nat /\ IsConcat(R, L, c, p + n, k)
  <2>1. p + n \in Nat
    OBVIOUS
  <2>2. p + n = Len(L)
    BY <1>7 DEF IsConcat
  <2> QED
    BY <1>3, <1>7, <1>10, <2>1, <2>2, ConcatIs, Zenon
<1>12. Covers(R, (p + n) + k, a, accepted + e + d)
  <2>1. Covers(c, k, accepted + e, accepted + e + d)
    BY DEF Queues
  <2>2. /\ \A i \in 1 .. p + n : R[i] = L[i]
        /\ \A i \in 1..k : R[(p + n) + i] = c[i]
    BY <1>11 DEF IsConcat
  <2>3. PICK w \in Nat : w = p + n
    BY <1>11
  <2>4. PICK b, z : b = accepted + e /\ z = accepted + e + d
    OBVIOUS
  <2>5. Covers(L, w, a, b) /\ Covers(c, k, b, z)
    BY <1>9, <2>1, <2>3, <2>4
  <2>6. (\A i \in 1..w : R[i] = L[i]) /\ (\A i \in 1..k : R[w + i] = c[i])
    BY <2>2, <2>3
  <2>7. Covers(R, w + k, a, z)
    BY ONLY <2>3, <2>5, <2>6, k \in Nat, CoversConcat
  <2> QED
    BY <2>3, <2>4, <2>7
<1>13. Len(R) = (p + n) + k
  BY <1>11 DEF IsConcat
<1> QED
  BY <1>4, <1>10, <1>12, <1>13 DEF Queues


LEMMA QueuesUnits ==
  ASSUME PackAssumption, TypeOK, Units, UnitsKept, StreamFillsSegments,
         NEW e \in Nat, NEW c \in Seq(Segment), NEW n \in Nat, NEW k \in Nat, NEW d \in Nat,
         Queues(e, c, n, k, d)
  PROVE  /\ snd_queue' \in Seq(Segment) /\ accepted' \in Nat
         /\ UnitsKept' /\ StreamFillsSegments'
<1>1. snd_queue \in Seq(Segment) /\ accepted \in Nat
  BY DEF TypeOK
<1>2. PICK q \in Seq(Segment) : q = Extended(e) /\ Longer(q, snd_queue, n, e)
  BY DEF Queues
<1>3. n = Len(snd_queue) /\ n = Len(q) /\ k = Len(c)
  BY <1>2 DEF Longer, Queues
<1>4. PICK s \in Seq(Segment) : s = snd_queue' /\ IsConcat(s, q, c, n, k)
  <2>1. snd_queue' = q \o c
    BY <1>2 DEF Queues
  <2> QED
    BY <1>2, <1>3, <2>1, ConcatIs, Zenon
<1>5. DOMAIN s = 1 .. n + k /\ DOMAIN snd_queue = 1..n
  <2>1. DOMAIN s = 1..Len(s) /\ DOMAIN snd_queue = 1..Len(snd_queue)
    BY <1>1, LenProperties
  <2> QED
    BY <1>3, <1>4, <2>1 DEF IsConcat
<1>6. PICK o \in Nat, M \in Nat, w \in Nat, u \in Nat :
        o = OVERHEAD /\ M = Max(mtus) /\ w = mtu /\ u = Min(mtus) /\ w <= M /\ u <= w
  <2>1. OVERHEAD \in Nat
    BY DEF PackAssumption
  <2> QED
    BY <2>1 DEF Units
<1>13. /\ o \in Nat /\ M \in Nat /\ w \in Nat /\ u \in Nat /\ w <= M /\ u <= w
  BY <1>6
<1>7. ASSUME NEW i \in 1 .. n + k
      PROVE  \/ i \in 1 .. n - 1 /\ s[i] = snd_queue[i]
             \/ i = n /\ n \in 1..n /\ s[n] = q[n]
             \/ \E j \in 1..k : i = n + j /\ s[i] = c[j]
  <2>1. CASE i \in 1 .. n - 1
    <3>1. i \in 1..n
      BY ONLY <2>1, n \in Nat
    <3> QED
      BY <1>2, <1>4, <2>1, <3>1 DEF IsConcat, Longer
  <2>2. CASE i = n
    <3>1. n \in 1..n
      BY <2>2
    <3> QED
      BY <1>4, <2>2, <3>1 DEF IsConcat
  <2>3. CASE i > n
    <3>1. i - n \in 1..k /\ i = n + (i - n)
      BY <2>3
    <3>2. PICK j \in 1..k : i = n + j
      BY <3>1
    <3> QED
      BY <1>4, <3>2 DEF IsConcat
  <2> QED
    BY <2>1, <2>2, <2>3
<1>8. ASSUME n \in 1..n PROVE o + q[n].len <= M
  <2>1. q[n].len = snd_queue[n].len + e
    BY <1>2, <1>8 DEF Longer
  <2>2. snd_queue[n].len \in Nat
    BY <1>1, <1>3, <1>8, SegmentsTyped
  <2>3. e > 0 => o + q[n].len <= w
    BY <1>2, <1>6 DEF Queues
  <2>4. o + snd_queue[n].len <= M
    BY <1>5, <1>6, <1>8 DEF UnitsKept
  <2>5. PICK l \in Nat : l = snd_queue[n].len
    BY <2>2
  <2>6. q[n].len = l + e /\ (e > 0 => o + (l + e) <= w) /\ o + l <= M
    BY ONLY <2>1, <2>3, <2>4, <2>5
  <2>7. o + (l + e) <= M
    BY ONLY <1>13, <2>6, e \in Nat, l \in Nat
  <2> QED
    BY ONLY <2>6, <2>7
<1>9. \A i \in DOMAIN snd_queue' : OVERHEAD + snd_queue'[i].len <= Max(mtus)
  <2>1. ASSUME NEW i \in 1 .. n + k PROVE o + s[i].len <= M
    <3>1. CASE i \in 1 .. n - 1 /\ s[i] = snd_queue[i]
      <4>1. i \in DOMAIN snd_queue
        BY <1>5, <3>1
      <4> QED
        BY <1>6, <3>1, <4>1 DEF UnitsKept
    <3>2. CASE i = n /\ n \in 1..n /\ s[n] = q[n]
      BY <1>8, <3>2
    <3>3. CASE \E j \in 1..k : i = n + j /\ s[i] = c[j]
      <4>1. PICK j \in 1..k : s[i] = c[j]
        BY <3>3
      <4>2. c[j].len \in Nat
        BY <1>3, SegmentsTyped
      <4>3. o + c[j].len <= w
        BY <1>6 DEF Queues
      <4> QED
        BY ONLY <1>13, <4>1, <4>2, <4>3
    <3> QED
      BY <1>7, <3>1, <3>2, <3>3
  <2> QED
    BY <1>4, <1>5, <1>6, <2>1
<1>10. UnitsKept'
  <2>1. mtus' = mtus /\ snd_buf' = snd_buf
    BY DEF Queues
  <2> QED
    BY <1>9, <2>1, Zenon DEF UnitsKept
<1>11. StreamFillsSegments'
  <2>1. stream' = stream /\ mtus' = mtus
    BY DEF Queues
  <2>2. ASSUME stream, NEW i \in 1 .. (n + k) - 1 PROVE s[i].len >= u - o
    <3>1. i \in 1 .. n + k
      OBVIOUS
    <3>2. CASE i \in 1 .. n - 1 /\ s[i] = snd_queue[i]
      BY <1>3, <1>6, <2>2, <3>2 DEF StreamFillsSegments
    <3>3. CASE i = n /\ n \in 1..n /\ s[n] = q[n]
      <4>1. k > 0 /\ n > 0
        BY ONLY <3>3, n \in Nat, k \in Nat, i \in 1 .. (n + k) - 1
      <4>2. w <= o + q[n].len
        BY <1>2, <1>6, <2>2, <4>1 DEF Queues
      <4>3. PICK l \in Nat : l = q[n].len
        BY <1>3, <3>3, SegmentsTyped
      <4>4. l >= u - o
        BY ONLY <1>13, <4>2, <4>3, l \in Nat
      <4> QED
        BY <3>3, <4>3, <4>4
    <3>4. CASE \E j \in 1..k : i = n + j /\ s[i] = c[j]
      <4>1. PICK j \in 1..k : i = n + j /\ s[i] = c[j]
        BY <3>4
      <4>2. j \in 1 .. k - 1
        BY ONLY <4>1, n \in Nat, k \in Nat, i \in 1 .. (n + k) - 1
      <4>3. PICK l \in Nat : l = c[j].len
        BY <1>3, SegmentsTyped
      <4>4. w <= o + l
        BY <1>6, <4>2, <4>3 DEF Queues
      <4>5. l >= u - o
        BY ONLY <1>13, <4>4, l \in Nat
      <4> QED
        BY <4>1, <4>3, <4>5
    <3> QED
      BY <1>7, <3>1, <3>2, <3>3, <3>4
  <2>3. Len(snd_queue') = n + k
    BY <1>4 DEF IsConcat
  <2> QED
    BY <1>4, <1>6, <2>1, <2>2, <2>3 DEF StreamFillsSegments
<1>12. accepted' \in Nat
  <2>1. accepted' = accepted + e + d
    BY DEF Queues
  <2> QED
    BY ONLY <1>1, <2>1, e \in Nat, d \in Nat
<1> QED
  BY <1>4, <1>10, <1>11, <1>12


-----------------------------------------------------------------------------
(* Messages *)

\* The fragments of one more message behind them.
LEMMA MessagesMore ==
  ASSUME NEW n \in Nat, NEW q \in Nat \ {0}, NEW p, NEW c, NEW r, IsConcat(r, p, c, n, q),
         NEW l \in Nat, NEW f, NEW s, NEW t, \A i \in 1..l : t[i] = s[i],
         NEW m \in Nat, NEW a \in Nat, NEW len \in Nat,
         t[l + 1].from = a, t[l + 1].len = len,
         ~stream, Fragments(c, q, m, a, len), WholeMessages(p, n, s, f, l)
  PROVE  WholeMessages(r, n + q, t, f, l + 1)
<1>1. PICK msg : /\ n > 0 => msg \in [1..n -> 1..l] /\ Messages(p, n, msg, s, f, l)
                 /\ n = 0 => f = l + 1
  BY DEF WholeMessages
<1>2. PICK new : new = [i \in 1 .. n + q |-> IF i <= n THEN msg[i] ELSE l + 1]
  OBVIOUS
<1>3. ASSUME NEW i \in 1..n
      PROVE  new[i] = msg[i] /\ msg[i] \in 1..l /\ r[i] = p[i] /\ t[msg[i]] = s[msg[i]]
  <2>1. i \in 1 .. n + q /\ i <= n /\ n > 0
    OBVIOUS
  <2>2. msg[i] \in 1..l
    BY <1>1, <2>1
  <2> QED
    BY <1>2, <2>1, <2>2 DEF IsConcat
<1>4. ASSUME NEW j \in 1..q
      PROVE  /\ new[n + j] = l + 1 /\ r[n + j] = c[j]
             /\ c[j].from = a + (j - 1) * m /\ c[j].frg = q - j
  <2>1. n + j \in 1 .. n + q /\ ~(n + j <= n)
    OBVIOUS
  <2> QED
    BY <1>2, <2>1 DEF IsConcat, Fragments
<1>5. \A i \in 1 .. n + q : i \in 1..n \/ \E j \in 1..q : i = n + j
  <2>1. ASSUME NEW i \in 1 .. n + q, ~(i \in 1..n) PROVE i - n \in 1..q /\ i = n + (i - n)
    BY <2>1
  <2> QED
    BY <2>1
<1>6. new \in [1 .. n + q -> 1 .. l + 1]
  <2>1. ASSUME NEW i \in 1 .. n + q PROVE new[i] \in 1 .. l + 1
    <3>1. CASE i \in 1..n
      <4>1. new[i] = msg[i] /\ msg[i] \in 1..l
        BY <1>3, <3>1
      <4> QED
        BY ONLY <4>1, l \in Nat
    <3>2. CASE \E j \in 1..q : i = n + j
      <4>1. new[i] = l + 1
        BY <1>4, <3>2
      <4> QED
        BY ONLY <4>1, l \in Nat
    <3> QED
      BY <1>5, <3>1, <3>2
  <2> QED
    BY <1>2, <2>1
<1>7. 1 \in 1..q /\ q \in 1..q
  OBVIOUS
<1>8. c[1].from = a /\ c[q].frg = 0 /\ c[q].from + c[q].len = a + len
  <2>1. c[1].from = a + (1 - 1) * m /\ (1 - 1) * m = 0
    BY <1>4, <1>7
  <2>2. c[q].frg = q - q
    BY <1>4, <1>7
  <2>3. c[q].from = a + (q - 1) * m /\ c[q].len = len - (q - 1) * m /\ (q - 1) * m \in Int
    BY <1>4, <1>7 DEF Fragments
  <2> QED
    BY <2>1, <2>2, <2>3
<1>9. new[1] = f /\ r[1].from = t[f].from
  <2>1. CASE n = 0
    <3>1. new[1] = l + 1 /\ r[1] = c[1]
      BY <1>4, <1>7, <2>1
    <3> QED
      BY <1>1, <1>8, <2>1, <3>1
  <2>2. CASE n > 0
    <3>1. 1 \in 1..n
      BY <2>2
    <3>2. msg[1] = f /\ p[1].from = s[f].from
      BY <1>1, <2>2 DEF Messages
    <3> QED
      BY <1>3, <3>1, <3>2
  <2> QED
    BY <2>1, <2>2
<1>10. new[n + q] = l + 1 /\ r[n + q].frg = 0
  BY <1>4, <1>7, <1>8
<1>11. ASSUME NEW i \in 1 .. n + q, r[i].frg = 0
       PROVE  r[i].from + r[i].len = t[new[i]].from + t[new[i]].len
  <2>1. CASE i \in 1..n
    <3>1. new[i] = msg[i] /\ r[i] = p[i] /\ t[msg[i]] = s[msg[i]] /\ n > 0
      BY <1>3, <2>1
    <3>2. p[i].from + p[i].len = s[msg[i]].from + s[msg[i]].len
      BY <1>1, <1>11, <2>1, <3>1 DEF Messages
    <3> QED
      BY <3>1, <3>2
  <2>2. CASE \E j \in 1..q : i = n + j
    <3>1. PICK j \in 1..q : i = n + j
      BY <2>2
    <3>2. j = q
      BY <1>4, <1>11, <3>1
    <3> QED
      BY <1>4, <1>8, <3>1, <3>2
  <2> QED
    BY <1>5, <2>1, <2>2
<1>12. ASSUME NEW i \in 1 .. (n + q) - 1
       PROVE  IF r[i].frg = 0
              THEN new[i + 1] = new[i] + 1 /\ r[i + 1].from = t[new[i + 1]].from
              ELSE new[i + 1] = new[i] /\ r[i + 1].frg = r[i].frg - 1
  <2>1. CASE i \in 1 .. n - 1
    <3>1. i \in 1..n /\ i + 1 \in 1..n /\ n > 0
      BY <2>1
    <3>2. IF p[i].frg = 0
          THEN msg[i + 1] = msg[i] + 1 /\ p[i + 1].from = s[msg[i + 1]].from
          ELSE msg[i + 1] = msg[i] /\ p[i + 1].frg = p[i].frg - 1
      BY <1>1, <2>1, <3>1 DEF Messages
    <3> QED
      BY <1>3, <3>1, <3>2
  <2>2. CASE i = n
    <3>1. n \in 1..n /\ n > 0
      BY <2>2
    <3>2. msg[n] = l /\ p[n].frg = 0
      BY <1>1, <3>1 DEF Messages
    <3>3. new[n + 1] = l + 1 /\ r[n + 1] = c[1]
      BY <1>4, <1>7
    <3> QED
      BY <1>3, <1>8, <2>2, <3>1, <3>2, <3>3
  <2>3. CASE i > n
    <3>1. PICK j \in 1 .. q - 1 : i = n + j
      <4>1. i - n \in 1 .. q - 1 /\ i = n + (i - n)
        BY <2>3
      <4> QED
        BY <4>1
    <3>2. j \in 1..q /\ j + 1 \in 1..q /\ n + (j + 1) = i + 1
      BY <3>1
    <3>3. r[i] = c[j] /\ r[i + 1] = c[j + 1] /\ new[i] = l + 1 /\ new[i + 1] = l + 1
      BY <1>4, <3>1, <3>2
    <3>4. c[j].frg = q - j /\ c[j + 1].frg = q - (j + 1)
      BY <1>4, <3>2
    <3> QED
      BY <3>1, <3>3, <3>4
  <2> QED
    BY <2>1, <2>2, <2>3
<1>13. Messages(r, n + q, new, t, f, l + 1)
  BY <1>9, <1>10, <1>11, <1>12, Zenon DEF Messages
<1> QED
  BY <1>6, <1>13 DEF WholeMessages

\* Some segment of the first message ends it, if there are frg + 1.
LEMMA MessageEnds ==
  ASSUME NEW n \in Nat, NEW p \in Seq(Segment), n = Len(p), NEW k \in 1..n, p[1].frg + 1 <= k,
         NEW msg, NEW s, NEW f, NEW l, Messages(p, n, msg, s, f, l)
  PROVE  \E i \in 1..k : p[i].frg = 0
<1>1. SUFFICES ASSUME \A i \in 1..k : p[i].frg # 0 PROVE FALSE
  OBVIOUS
<1>2. PICK g \in Nat : g = p[1].frg
  <2>1. p[1] \in Segment
    <3>1. 1 \in 1..Len(p)
      OBVIOUS
    <3> QED
      BY <3>1, ElementOfSeq
  <2> QED
    BY <2>1 DEF Segment
<1> DEFINE T == {j \in 0..g : p[1 + j].frg = g - j}
<1>3. \A j \in 0..g : j \in T
  <2>1. 0 \in T
    BY <1>2
  <2>2. ASSUME NEW j \in 1..g, j - 1 \in T PROVE j \in T
    <3>1. j \in 1 .. n - 1 /\ j \in 1..k /\ 1 + (j - 1) = j
      BY <1>2
    <3>2. p[j].frg = g - (j - 1)
      BY <2>2, <3>1
    <3>3. p[j + 1].frg = p[j].frg - 1
      BY <1>1, <3>1 DEF Messages
    <3>4. p[1 + j].frg = g - j
      BY <3>1, <3>2, <3>3
    <3> QED
      BY <3>4
  <2> HIDE DEF T
  <2> QED
    BY <2>1, <2>2, UpTo
<1>4. p[1 + g].frg = 0 /\ 1 + g \in 1..k
  <2>1. g \in T /\ 1 + g \in 1..k
    BY <1>2, <1>3
  <2> QED
    BY <2>1
<1> QED
  BY <1>1, <1>4

\* The first segment with frg 0 is g.
EndsAt(p, g) == p[g].frg = 0 /\ \A i \in 1 .. g - 1 : p[i].frg # 0

\* The first g segments are message f.
AreMessage(p, g, s, f, l) ==
  /\ f \in 1..l
  /\ p[1].from = s[f].from /\ p[g].from + p[g].len = s[f].from + s[f].len

\* Behind the first message, of g segments, are the others.
LEMMA MessagesLess ==
  ASSUME NEW n \in Nat, NEW g \in 1..n, NEW p, NEW s, NEW f \in Nat, NEW l \in Nat,
         WholeMessages(p, n, s, f, l),
         EndsAt(p, g), NEW r, \A i \in 1 .. n - g : r[i] = p[g + i]
  PROVE  AreMessage(p, g, s, f, l) /\ WholeMessages(r, n - g, s, f + 1, l)
<1>1. PICK msg \in [1..n -> 1..l] : Messages(p, n, msg, s, f, l)
  <2>1. n # 0
    OBVIOUS
  <2> QED
    BY <2>1, Zenon DEF WholeMessages
<1> p[g].frg = 0 /\ \A i \in 1 .. g - 1 : p[i].frg # 0
  BY DEF EndsAt
<1> DEFINE T == {j \in 0 .. g - 1 : msg[j + 1] = f}
<1>2. \A j \in 0 .. g - 1 : j \in T
  <2>1. 0 \in T
    BY <1>1 DEF Messages
  <2>2. ASSUME NEW j \in 1 .. g - 1, j - 1 \in T PROVE j \in T
    <3>1. j \in 1 .. n - 1 /\ (j - 1) + 1 = j
      OBVIOUS
    <3>2. msg[j + 1] = msg[j]
      BY <1>1, <3>1 DEF Messages
    <3>3. msg[j + 1] = f
      BY <2>2, <3>1, <3>2
    <3> QED
      BY <3>3
  <2>3. g - 1 \in Nat
    OBVIOUS
  <2> HIDE DEF T
  <2> QED
    BY <2>1, <2>2, <2>3, UpTo
<1>3. msg[g] = f /\ f \in 1..l /\ p[1].from = s[f].from
      /\ p[g].from + p[g].len = s[f].from + s[f].len
  <2>1. g - 1 \in 0 .. g - 1 /\ (g - 1) + 1 = g
    OBVIOUS
  <2>2. msg[g] = f
    <3>1. g - 1 \in T
      BY <1>2, <2>1
    <3> QED
      BY <2>1, <3>1
  <2> QED
    BY <1>1, <2>2 DEF Messages
<1> AreMessage(p, g, s, f, l)
  BY <1>3 DEF AreMessage
<1>4. CASE n - g = 0
  <2>1. f = l
    BY <1>1, <1>3, <1>4 DEF Messages
  <2> QED
    BY <1>3, <1>4, <2>1 DEF WholeMessages
<1>5. CASE n - g > 0
  <2>1. PICK new : new = [i \in 1 .. n - g |-> msg[g + i]]
    OBVIOUS
  <2>2. ASSUME NEW i \in 1 .. n - g
        PROVE  new[i] = msg[g + i] /\ r[i] = p[g + i] /\ g + i \in 1..n /\ msg[g + i] \in 1..l
    BY <2>1, <1>1
  <2>3. new \in [1 .. n - g -> 1..l]
    BY <2>1, <2>2
  <2>4. new[1] = f + 1 /\ r[1].from = s[f + 1].from
    <3>1. g \in 1 .. n - 1 /\ 1 \in 1 .. n - g
      BY <1>5
    <3>2. msg[g + 1] = msg[g] + 1 /\ p[g + 1].from = s[msg[g + 1]].from
      BY <1>1, <3>1 DEF Messages
    <3> QED
      BY <1>3, <2>2, <3>1, <3>2
  <2>5. new[n - g] = l /\ r[n - g].frg = 0
    <3>1. n - g \in 1 .. n - g /\ g + (n - g) = n
      BY <1>5
    <3> QED
      BY <1>1, <2>2, <3>1 DEF Messages
  <2>6. ASSUME NEW i \in 1 .. n - g, r[i].frg = 0
        PROVE  r[i].from + r[i].len = s[new[i]].from + s[new[i]].len
    <3>1. g + i \in 1..n /\ r[i] = p[g + i] /\ new[i] = msg[g + i]
      BY <2>2
    <3>2. p[g + i].from + p[g + i].len = s[msg[g + i]].from + s[msg[g + i]].len
      BY <1>1, <2>6, <3>1 DEF Messages
    <3> QED
      BY <3>1, <3>2
  <2>7. ASSUME NEW i \in 1 .. (n - g) - 1
        PROVE  IF r[i].frg = 0
               THEN new[i + 1] = new[i] + 1 /\ r[i + 1].from = s[new[i + 1]].from
               ELSE new[i + 1] = new[i] /\ r[i + 1].frg = r[i].frg - 1
    <3>1. i \in 1 .. n - g /\ i + 1 \in 1 .. n - g /\ g + i \in 1 .. n - 1
          /\ g + (i + 1) = (g + i) + 1
      OBVIOUS
    <3>2. new[i] = msg[g + i] /\ new[i + 1] = msg[(g + i) + 1]
          /\ r[i] = p[g + i] /\ r[i + 1] = p[(g + i) + 1]
      BY <2>2, <3>1
    <3>3. IF p[g + i].frg = 0
          THEN msg[(g + i) + 1] = msg[g + i] + 1
               /\ p[(g + i) + 1].from = s[msg[(g + i) + 1]].from
          ELSE msg[(g + i) + 1] = msg[g + i] /\ p[(g + i) + 1].frg = p[g + i].frg - 1
      BY <1>1, <3>1, Zenon DEF Messages
    <3> QED
      BY ONLY <3>2, <3>3
  <2>8. Messages(r, n - g, new, s, f + 1, l)
    BY <2>4, <2>5, <2>6, <2>7, Zenon DEF Messages
  <2>9. n - g # 0
    BY <1>5
  <2>10. WholeMessages(r, n - g, s, f + 1, l)
    BY <2>3, <2>8, <2>9, Zenon DEF WholeMessages
  <2> QED
    BY <1>3, <2>10
<1> QED
  BY <1>4, <1>5


LEMMA SendMessages ==
  ASSUME PackAssumption, TypeOK, Units, ~stream, MessagesQueued,
         NEW len \in Nat, Send(len)
  PROVE  MessagesQueued'
<1>1. snd_queue \in Seq(Segment) /\ accepted \in Nat
      /\ sends \in Seq([from : Nat, len : Nat])
      /\ rcv_queue \in Seq(Segment) /\ snd_buf \in Seq(Segment)
  BY DEF TypeOK
<1>2. Extend(len) = 0
  <2>1. PICK n \in Nat : n = Len(snd_queue)
    BY <1>1, LenProperties
  <2> QED
    BY <2>1, ExtendedIs
<1>3. PICK m \in Nat \ {0}, q \in Nat : m = mss /\ q = Count(len)
  <2>1. PICK m \in Nat \ {0} : m = mss
    BY DEF Units
  <2>2. Count(len) \in Nat
    BY <2>1, CountHolds
  <2> QED
    BY <2>1, <2>2
<1>4. /\ q < WND_RCV /\ snd_queue' = snd_queue \o Cut(accepted, len)
      /\ sends' = Append(sends, [from |-> accepted, len |-> len])
      /\ UNCHANGED <<stream, snd_buf, rcv_queue, reads>>
  <2>1. Rest(len, 0) = len /\ accepted + 0 = accepted /\ Extended(0) = snd_queue
        /\ ~(0 > 0)
    <3>1. Rest(len, 0) = len
      BY DEF Rest
    <3>2. Extended(0) = snd_queue
      BY DEF Extended
    <3> QED
      BY ONLY <1>1, <3>1, <3>2
  <2> QED
    BY <1>2, <1>3, <2>1, Zenon DEF Send, unitVars
<1>5. PICK c \in Seq(Segment) :
        /\ c = Cut(accepted, len) /\ Len(c) = q /\ q \in Nat \ {0}
        /\ Fragments(c, q, m, accepted, len)
  <2>1. /\ q \in Nat \ {0}
        /\ Cut(accepted, len) \in Seq(Segment) /\ Len(Cut(accepted, len)) = q
        /\ Fragments(Cut(accepted, len), q, m, accepted, len)
    BY <1>1, <1>3, <1>4, CutFragments, Zenon
  <2> QED
    BY <2>1, Zenon
<1> PICK new : new = [from |-> accepted, len |-> len]
  OBVIOUS
<1> PICK t : t = sends'
  OBVIOUS
<1> PICK l \in Nat : l = Len(sends)
  BY <1>1, LenProperties
<1>6. /\ l \in Nat /\ l = Len(sends) /\ new = [from |-> accepted, len |-> len]
      /\ t = sends' /\ Len(t) = l + 1 /\ t[l + 1] = new
      /\ \A i \in 1..l : t[i] = sends[i]
  <2>1. new \in [from : Nat, len : Nat]
    BY <1>1
  <2>2. Len(Append(sends, new)) = l + 1 /\ Append(sends, new)[l + 1] = new
        /\ \A i \in 1..l : Append(sends, new)[i] = sends[i]
    BY <1>1, <2>1, AppendProperties
  <2>3. t = Append(sends, new)
    BY <1>4
  <2> QED
    BY <2>2, <2>3, Zenon
<1>7. PICK P \in Seq(Segment), n \in Nat : P = Pipeline /\ n = Len(P)
  <2>1. Pipeline \in Seq(Segment)
    BY <1>1, ConcatProperties DEF Pipeline
  <2> QED
    BY <2>1, LenProperties
<1>8. Pipeline' = P \o c
  <2>1. PICK D \in Seq(Segment) : D = rcv_queue \o snd_buf
    BY <1>1, ConcatProperties
  <2>2. Pipeline' = D \o (snd_queue \o c)
    BY <1>4, <1>5, <2>1 DEF Pipeline
  <2>3. PICK s \in Seq(Segment) : s = snd_queue
    BY <1>1
  <2>4. (D \o s) \o c = D \o (s \o c)
    BY ONLY s \in Seq(Segment), D \in Seq(Segment), c \in Seq(Segment), ConcatAssociative
  <2> QED
    BY <1>7, <2>1, <2>2, <2>3, <2>4 DEF Pipeline
<1>9. PICK R : R = Pipeline' /\ IsConcat(R, P, c, n, q) /\ Len(R) = n + q
  <2>1. q \in Nat /\ q = Len(c)
    BY <1>5
  <2>2. IsConcat(P \o c, P, c, n, q)
    BY <1>7, <2>1, ConcatIs, Zenon
  <2> QED
    BY <1>8, <2>2 DEF IsConcat
<1>10. PICK f : f = Len(reads) + 1 /\ WholeMessages(P, n, sends, f, l)
  BY <1>6, <1>7 DEF MessagesQueued
<1>11. t[l + 1].from = accepted /\ t[l + 1].len = len
  BY <1>6
<1>12. WholeMessages(R, n + q, t, f, l + 1)
  <2>1. q \in Nat \ {0} /\ m \in Nat
    BY <1>5
  <2>2. PICK a \in Nat, s \in Seq([from : Nat, len : Nat]) : a = accepted /\ s = sends
    BY <1>1
  <2>3. /\ IsConcat(R, P, c, n, q) /\ Fragments(c, q, m, a, len)
        /\ WholeMessages(P, n, s, f, l) /\ t[l + 1].from = a /\ t[l + 1].len = len
        /\ \A i \in 1..l : t[i] = s[i]
    BY <1>5, <1>6, <1>9, <1>10, <1>11, <2>2
  <2> QED
    BY ONLY <2>1, <2>3, ~stream, len \in Nat, n \in Nat, l \in Nat, a \in Nat, MessagesMore
<1> QED
  BY <1>4, <1>6, <1>9, <1>10, <1>12 DEF MessagesQueued

-----------------------------------------------------------------------------
(* What leaves a queue at its head joins the queue before it at its end *)

\* The first n elements of s, and those behind them.
Parts(S, s, l, n) ==
  /\ SubSeq(s, 1, n) \in Seq(S) /\ Len(SubSeq(s, 1, n)) = n
  /\ \A i \in 1..n : SubSeq(s, 1, n)[i] = s[i]
  /\ SubSeq(s, n + 1, l) \in Seq(S) /\ Len(SubSeq(s, n + 1, l)) = l - n
  /\ \A i \in 1 .. l - n : SubSeq(s, n + 1, l)[i] = s[n + i]
  /\ SubSeq(s, 1, n) \o SubSeq(s, n + 1, l) = s

LEMMA SplitAt ==
  ASSUME NEW S, NEW s \in Seq(S), NEW l \in Nat, l = Len(s), NEW n \in 0..l
  PROVE  Parts(S, s, l, n)
<1>1. \A i \in 1..l : s[i] \in S
  BY ElementOfSeq
<1>2. SubSeq(s, 1, n) \in Seq(S) /\ Len(SubSeq(s, 1, n)) = n
      /\ \A i \in 1..n : SubSeq(s, 1, n)[i] = s[i]
  <2>1. \A i \in 1..n : s[i] \in S
    BY <1>1
  <2>2. SubSeq(s, 1, n) \in Seq(S)
        /\ Len(SubSeq(s, 1, n)) = (IF 1 <= n THEN n - 1 + 1 ELSE 0)
        /\ \A i \in 1 .. n - 1 + 1 : SubSeq(s, 1, n)[i] = s[1 + i - 1]
    BY <2>1, SubSeqProperties
  <2>3. n - 1 + 1 = n /\ (IF 1 <= n THEN n - 1 + 1 ELSE 0) = n
        /\ \A i \in 1..n : 1 + i - 1 = i
    OBVIOUS
  <2> QED
    BY ONLY <2>2, <2>3
<1>3. SubSeq(s, n + 1, l) \in Seq(S) /\ Len(SubSeq(s, n + 1, l)) = l - n
      /\ \A i \in 1 .. l - n : SubSeq(s, n + 1, l)[i] = s[n + i]
  <2>1. \A i \in n + 1 .. l : s[i] \in S
    BY <1>1
  <2>2. SubSeq(s, n + 1, l) \in Seq(S)
        /\ Len(SubSeq(s, n + 1, l)) = (IF n + 1 <= l THEN l - (n + 1) + 1 ELSE 0)
        /\ \A i \in 1 .. l - (n + 1) + 1 : SubSeq(s, n + 1, l)[i] = s[(n + 1) + i - 1]
    BY <2>1, SubSeqProperties
  <2>3. l - (n + 1) + 1 = l - n /\ (IF n + 1 <= l THEN l - (n + 1) + 1 ELSE 0) = l - n
        /\ \A i \in 1 .. l - n : (n + 1) + i - 1 = n + i
    OBVIOUS
  <2> QED
    BY ONLY <2>2, <2>3
<1>4. SubSeq(s, 1, n) \o SubSeq(s, n + 1, l) = s
  <2>1. /\ 1 \in 1 .. Len(s) + 1 /\ n \in 1 - 1 .. Len(s) /\ Len(s) \in n .. Len(s)
    OBVIOUS
  <2>2. SubSeq(s, 1, n) \o SubSeq(s, n + 1, Len(s)) = SubSeq(s, 1, Len(s))
    BY <2>1, ConcatAdjacentSubSeq
  <2>3. SubSeq(s, 1, Len(s)) = s
    BY SubSeqFull
  <2> QED
    BY <2>2, <2>3
<1> QED
  BY <1>2, <1>3, <1>4 DEF Parts

LEMMA Passes ==
  ASSUME NEW S, NEW s \in Seq(S), NEW t \in Seq(S), NEW l \in Nat, l = Len(t), NEW n \in 0..l
  PROVE  (s \o SubSeq(t, 1, n)) \o SubSeq(t, n + 1, l) = s \o t
<1>1. PICK x \in Seq(S), y \in Seq(S) :
        x = SubSeq(t, 1, n) /\ y = SubSeq(t, n + 1, l) /\ x \o y = t
  <2>1. SubSeq(t, 1, n) \in Seq(S) /\ SubSeq(t, n + 1, l) \in Seq(S)
        /\ SubSeq(t, 1, n) \o SubSeq(t, n + 1, l) = t
    BY SplitAt, Zenon DEF Parts
  <2> QED
    BY <2>1, Zenon
<1>2. (s \o x) \o y = s \o (x \o y)
  <2>1. Regroups(s, x, y)
    BY Regroup, Zenon
  <2> QED
    BY ONLY <2>1 DEF Regroups
<1> QED
  BY <1>1, <1>2


-----------------------------------------------------------------------------
(* ikcp_recv *)

LEMMA FirstIs ==
  ASSUME NEW n \in Nat \ {0}, n = Len(rcv_queue)
  PROVE  /\ First \in 1..n
         /\ \A i \in 1 .. First - 1 : rcv_queue[i].frg # 0
         /\ (\E i \in 1..n : rcv_queue[i].frg = 0) => rcv_queue[First].frg = 0
<1> DEFINE Ends == {i \in 1..n : rcv_queue[i].frg = 0}
<1>1. SelectInSeq(rcv_queue, LAMBDA seg : seg.frg = 0) = (IF Ends # {} THEN Min(Ends) ELSE 0)
  BY DEF SelectInSeq
<1>2. CASE Ends = {}
  <2>1. First = n
    BY <1>1, <1>2 DEF First
  <2> QED
    BY <1>2, <2>1
<1>3. CASE Ends # {}
  <2>1. Ends \in SUBSET Nat
    OBVIOUS
  <2>2. PICK g \in Ends : \A i \in Ends : g <= i
    BY <1>3, <2>1, Least, Zenon
  <2>3. Min(Ends) = g
    <3>1. \A y \in Ends : (\A x \in Ends : y <= x) => y = g
      BY <2>1, <2>2
    <3> QED
      BY <2>2, <3>1, Zenon DEF Min
  <2>4. First = g
    BY <1>1, <1>3, <2>2, <2>3 DEF First
  <2>5. ASSUME NEW i \in 1 .. g - 1, rcv_queue[i].frg = 0 PROVE FALSE
    <3>1. i \in Ends
      BY <2>2, <2>5
    <3> QED
      BY <2>2, <3>1
  <2> QED
    BY <2>2, <2>4, <2>5
<1> QED
  BY <1>2, <1>3

\* What a call of ikcp_recv takes: the first g segments, as one read.
Takes(size, g, n, m) ==
  /\ n = Len(rcv_queue) /\ g = First /\ \A i \in 1 .. g - 1 : rcv_queue[i].frg # 0
  /\ (\E i \in 1..n : rcv_queue[i].frg = 0) => rcv_queue[g].frg = 0
  /\ rcv_queue[1].frg + 1 <= n
  /\ m = Bytes(SubSeq(rcv_queue, 1, g)) /\ m <= size
  /\ reads' = Append(reads, [from |-> rcv_queue[1].from, len |-> m, into |-> size])
  /\ rcv_queue' = SubSeq(rcv_queue, g + 1, n)
  /\ UNCHANGED <<unitVars, sndVars, snd_buf>>

LEMMA RecvTakes ==
  ASSUME TypeOK, NEW size \in Nat, Recv(size)
  PROVE  \E n \in Nat \ {0} : \E g \in 1..n, m \in Nat : Takes(size, g, n, m)
<1>1. rcv_queue \in Seq(Segment)
  BY DEF TypeOK
<1>2. PeekSize >= 0 /\ PeekSize <= size
  BY DEF Recv
<1>3. rcv_queue # <<>> /\ ~(Len(rcv_queue) < Head(rcv_queue).frg + 1)
      /\ PeekSize = Bytes(SubSeq(rcv_queue, 1, First))
  <2>1. ~(-1 >= 0)
    OBVIOUS
  <2>2. PeekSize # -1
    BY <1>2, <2>1
  <2> QED
    BY <2>2 DEF PeekSize
<1>4. PICK n \in Nat \ {0} : n = Len(rcv_queue)
  BY <1>1, <1>3, EmptySeq
<1>5. PICK g \in 1..n : /\ g = First /\ \A i \in 1 .. g - 1 : rcv_queue[i].frg # 0
                        /\ (\E i \in 1..n : rcv_queue[i].frg = 0) => rcv_queue[g].frg = 0
  BY <1>4, FirstIs
<1>6. PICK m \in Nat : m = Bytes(SubSeq(rcv_queue, 1, g))
  <2>1. SubSeq(rcv_queue, 1, g) \in Seq(Segment)
    <3>1. n \in Nat /\ g \in 0..n
      OBVIOUS
    <3>2. Parts(Segment, rcv_queue, n, g)
      BY <1>1, <1>4, <3>1, SplitAt, Zenon
    <3> QED
      BY <3>2 DEF Parts
  <2>2. \A x \in Segment : x.len \in Nat
    BY DEF Segment
  <2> QED
    BY <2>1, <2>2, BytesType
<1>7. Head(rcv_queue) = rcv_queue[1] /\ rcv_queue[1].frg + 1 <= n
  <2>1. Head(rcv_queue) = rcv_queue[1]
    BY <1>1, <1>3
  <2>2. rcv_queue[1].frg \in Nat
    <3>1. 1 \in 1..n
      OBVIOUS
    <3>2. rcv_queue[1] \in Segment
      BY <1>1, <1>4, <3>1, ElementOfSeq
    <3>3. PICK x \in Int : x = rcv_queue[1].frg /\ x >= 0
      BY <3>2 DEF Segment
    <3> QED
      BY <3>3
  <2> QED
    BY <1>3, <1>4, <2>1, <2>2
<1>8. Takes(size, g, n, m)
  <2>1. reads' = Append(reads, [from |-> rcv_queue[1].from, len |-> m, into |-> size])
    BY <1>5, <1>6, <1>7 DEF Recv
  <2>2. rcv_queue' = SubSeq(rcv_queue, g + 1, n) /\ UNCHANGED <<unitVars, sndVars, snd_buf>>
    BY <1>4, <1>5 DEF Recv
  <2>3. m <= size
    BY <1>2, <1>3, <1>5, <1>6
  <2> QED
    BY <1>4, <1>5, <1>6, <1>7, <2>1, <2>2, <2>3 DEF Takes
<1> QED
  BY <1>8, Zenon


Read == [from : Nat, len : Nat, into : Nat]

\* The segments on their way, p, are the g taken, x, and then the k left, r.
Split(x, p, r, k, g, n) ==
  /\ x = SubSeq(rcv_queue, 1, g) /\ Len(x) = g
  /\ p = Pipeline /\ r = Pipeline' /\ k = Len(r)
  /\ IsConcat(p, x, r, g, k)
  /\ n <= Len(p) /\ \A i \in 1..n : p[i] = rcv_queue[i]

LEMMA TakesSplit ==
  ASSUME TypeOK, NEW size \in Nat, NEW n \in Nat \ {0}, NEW g \in 1..n, NEW m \in Nat,
         Takes(size, g, n, m)
  PROVE  /\ rcv_queue' \in Seq(Segment)
         /\ \E x \in Seq(Segment), p \in Seq(Segment), r \in Seq(Segment), k \in Nat :
              Split(x, p, r, k, g, n)
<1>1. PICK a \in Seq(Segment), b \in Seq(Segment), c \in Seq(Segment) :
        a = rcv_queue /\ b = snd_buf /\ c = snd_queue
  BY DEF TypeOK
<1>2. n = Len(a) /\ rcv_queue' = SubSeq(a, g + 1, n) /\ snd_buf' = b /\ snd_queue' = c
  BY <1>1 DEF Takes, sndVars
<1>3. PICK x \in Seq(Segment), y \in Seq(Segment) :
        x = SubSeq(a, 1, g) /\ Len(x) = g /\ y = SubSeq(a, g + 1, n) /\ a = x \o y
  <2>1. a \in Seq(Segment) /\ n = Len(a) /\ n \in Nat /\ g \in 0..n
    BY <1>2
  <2>2. Parts(Segment, a, n, g)
    BY <2>1, SplitAt, Zenon
  <2> QED
    BY <2>2, Zenon DEF Parts
<1>4. PICK d \in Seq(Segment), r \in Seq(Segment) : d = y \o b /\ r = d \o c
  <2>1. y \o b \in Seq(Segment)
    BY ONLY y \in Seq(Segment), b \in Seq(Segment), ConcatProperties
  <2>2. (y \o b) \o c \in Seq(Segment)
    BY ONLY <2>1, c \in Seq(Segment), ConcatProperties
  <2> QED
    BY <2>1, <2>2
<1>5. PICK e \in Seq(Segment) : e = b \o c
  BY ONLY b \in Seq(Segment), c \in Seq(Segment), ConcatProperties
<1>6. PICK p \in Seq(Segment) : p = x \o r
  BY ONLY x \in Seq(Segment), r \in Seq(Segment), ConcatProperties
<1>7. p = Pipeline /\ p = a \o e
  <2>1. Regroups(x, y, b) /\ Regroups(x, d, c) /\ Regroups(a, b, c)
    BY <1>1, <1>3, <1>4, Regroup, Zenon
  <2>2. (x \o y) \o b = x \o d
    BY <1>4, <2>1, Zenon DEF Regroups
  <2>3. (x \o d) \o c = x \o r
    BY <1>4, <2>1, Zenon DEF Regroups
  <2>4. (a \o b) \o c = a \o e
    BY <1>5, <2>1, Zenon DEF Regroups
  <2>5. Pipeline = (a \o b) \o c
    BY <1>1 DEF Pipeline
  <2> QED
    BY <1>3, <1>6, <2>2, <2>3, <2>4, <2>5
<1>8. r = Pipeline'
  BY <1>2, <1>3, <1>4 DEF Pipeline
<1>9. PICK k \in Nat : k = Len(r)
  BY LenProperties
<1>10. g \in Nat /\ IsConcat(p, x, r, g, k)
  <2>1. g \in Nat
    OBVIOUS
  <2> QED
    BY <1>3, <1>4, <1>6, <1>9, <2>1, ConcatIs, Zenon
<1>11. n <= Len(p) /\ \A i \in 1..n : p[i] = a[i]
  <2>1. PICK l \in Nat : l = Len(e)
    BY LenProperties
  <2>2. IsConcat(p, a, e, n, l)
    <3>1. n \in Nat /\ n = Len(a) /\ a \in Seq(Segment) /\ e \in Seq(Segment)
          /\ l \in Nat /\ l = Len(e)
      BY <1>2, <2>1
    <3>2. IsConcat(a \o e, a, e, n, l)
      BY <3>1, ConcatIs, Zenon
    <3> QED
      BY <1>7, <3>2
  <2>3. Len(p) = n + l
    BY <2>2 DEF IsConcat
  <2> QED
    BY <2>2, <2>3 DEF IsConcat
<1>12. Split(x, p, r, k, g, n)
  BY <1>1, <1>3, <1>7, <1>8, <1>9, <1>10, <1>11, Zenon DEF Split
<1>13. rcv_queue' \in Seq(Segment)
  BY <1>2, <1>3
<1> QED
  BY <1>3, <1>4, <1>6, <1>9, <1>12, <1>13, Zenon

LEMMA BytesReads ==
  ASSUME reads \in Seq(Read)
  PROVE  /\ Bytes(reads) \in Nat
         /\ \A e \in Read : Bytes(Append(reads, e)) = Bytes(reads) + e.len
<1>1. \A x \in Read : x.len \in Nat
  BY DEF Read
<1> QED
  BY <1>1, BytesType, BytesAppend

\* The bytes are still one stretch, and the read is its head.
LEMMA TakesCovers ==
  ASSUME TypeOK, Covers(Pipeline, Len(Pipeline), Bytes(reads), accepted),
         NEW size \in Nat, NEW n \in Nat \ {0}, NEW g \in 1..n, NEW m \in Nat,
         Takes(size, g, n, m)
  PROVE  /\ reads' \in Seq(Read)
         /\ Covers(Pipeline', Len(Pipeline'), Bytes(reads'), accepted')
         /\ rcv_queue[1].from = Bytes(reads)
         /\ rcv_queue[g].from + rcv_queue[g].len = Bytes(reads) + m
<1> PICK x \in Seq(Segment), p \in Seq(Segment), r \in Seq(Segment), k \in Nat :
      Split(x, p, r, k, g, n)
  BY TakesSplit, Zenon
<1>1. /\ x = SubSeq(rcv_queue, 1, g) /\ Len(x) = g
      /\ p = Pipeline /\ r = Pipeline' /\ k = Len(r)
      /\ IsConcat(p, x, r, g, k)
      /\ n <= Len(p) /\ \A i \in 1..n : p[i] = rcv_queue[i]
  BY DEF Split
<1>2. reads \in Seq(Read)
  BY DEF TypeOK, Read
<1>3. PICK a \in Nat : a = Bytes(reads)
  BY <1>2, BytesReads
<1>4. PICK b : b = accepted /\ b = accepted'
  BY DEF Takes, sndVars
<1>5. PICK w \in Nat : w = Len(p) /\ w = g + k
  <2>1. Len(p) = g + k /\ g + k \in Nat
    BY <1>1 DEF IsConcat
  <2> QED
    BY <2>1
<1>6. Covers(p, w, a, b)
  BY <1>1, <1>3, <1>4, <1>5
<1>7. PICK c : Covers(x, g, a, c) /\ Covers(r, k, c, b) /\ c = p[g].from + p[g].len
  <2>1. (\A i \in 1..g : x[i] = p[i]) /\ (\A i \in 1..k : r[i] = p[g + i])
    BY <1>1 DEF IsConcat
  <2>2. w - g = k /\ g \in 0..w /\ g > 0
    BY <1>5
  <2>3. \A i \in 1 .. w - g : r[i] = p[g + i]
    BY <2>1, <2>2
  <2>4. \E c : Between(p, x, r, w, g, a, b, c)
    BY <1>5, <1>6, <2>1, <2>2, <2>3, CoversSplit, Zenon
  <2> QED
    BY <2>2, <2>4 DEF Between
<1>8. a + m = c
  <2>1. \A s \in Segment : s.len \in Nat /\ s.from \in Nat
    BY DEF Segment
  <2>2. g \in Nat /\ g = Len(x)
    BY <1>1
  <2>3. a + Bytes(x) = c
    BY ONLY <1>7, <2>1, <2>2, x \in Seq(Segment), a \in Nat, CoversBytes
  <2> QED
    BY <1>1, <2>3 DEF Takes
<1>9. /\ rcv_queue[1].from = a
      /\ rcv_queue[g].from + rcv_queue[g].len = a + m
  <2>1. 1 \in 1..n /\ w > 0
    BY <1>5
  <2>2. p[1].from = a
    BY <1>6, <2>1 DEF Covers
  <2> QED
    BY <1>1, <1>7, <1>8, <2>1, <2>2
<1>10. reads' \in Seq(Read) /\ Bytes(reads') = a + m
  <2>1. PICK e \in Read : e = [from |-> rcv_queue[1].from, len |-> m, into |-> size]
    BY <1>9 DEF Read
  <2>2. reads' = Append(reads, e) /\ e.len = m
    BY <2>1 DEF Takes
  <2>3. Append(reads, e) \in Seq(Read)
    BY <1>2, AppendProperties
  <2> QED
    BY <1>2, <1>3, <2>2, <2>3, BytesReads
<1> QED
  BY <1>1, <1>3, <1>4, <1>7, <1>8, <1>9, <1>10


\* The first read not made yet is the first message not read yet.
LEMMA TakesMessages ==
  ASSUME TypeOK, Covers(Pipeline, Len(Pipeline), Bytes(reads), accepted), MessagesQueued,
         NEW size \in Nat, NEW n \in Nat \ {0}, NEW g \in 1..n, NEW m \in Nat,
         Takes(size, g, n, m), NEW f \in Nat, f = Len(reads) + 1
  PROVE  /\ f \in 1..Len(sends)
         /\ sends[f].from = rcv_queue[1].from /\ sends[f].len = m
         /\ MessagesQueued'
<1> PICK x \in Seq(Segment), p \in Seq(Segment), r \in Seq(Segment), k \in Nat :
      Split(x, p, r, k, g, n)
  BY TakesSplit, Zenon
<1>1. /\ Len(x) = g /\ p = Pipeline /\ r = Pipeline' /\ k = Len(r)
      /\ IsConcat(p, x, r, g, k)
      /\ n <= Len(p) /\ \A i \in 1..n : p[i] = rcv_queue[i]
  BY DEF Split
<1>2. reads \in Seq(Read) /\ sends \in Seq([from : Nat, len : Nat])
  BY DEF TypeOK, Read
<1>3. PICK l \in Nat, s \in Seq([from : Nat, len : Nat]) : l = Len(sends) /\ s = sends
  BY <1>2, LenProperties
<1>4. PICK w \in Nat : w = Len(p) /\ w = g + k /\ n \in 1..w /\ g \in 1..w /\ w - g = k
  <2>1. Len(p) = g + k /\ g + k \in Nat
    BY <1>1 DEF IsConcat
  <2> QED
    BY <1>1, <2>1
<1>5. WholeMessages(p, w, s, f, l)
  BY <1>1, <1>3, <1>4 DEF MessagesQueued
<1>6. EndsAt(p, g)
  <2>1. p[1].frg + 1 <= n
    <3>1. 1 \in 1..n
      OBVIOUS
    <3> QED
      BY <1>1, <3>1 DEF Takes
  <2>2. PICK msg : Messages(p, w, msg, s, f, l)
    <3>1. w # 0
      BY <1>4
    <3> QED
      BY <1>5, <3>1 DEF WholeMessages
  <2>3. \E i \in 1..n : p[i].frg = 0
    BY <1>4, <2>1, <2>2, MessageEnds, Zenon
  <2>4. \A i \in 1 .. g - 1 : i \in 1..n
    OBVIOUS
  <2> QED
    BY <1>1, <2>3, <2>4 DEF Takes, EndsAt
<1>7. /\ f \in 1..l
      /\ p[1].from = s[f].from /\ p[g].from + p[g].len = s[f].from + s[f].len
      /\ WholeMessages(r, k, s, f + 1, l)
  <2>1. \A i \in 1 .. w - g : r[i] = p[g + i]
    BY <1>1, <1>4 DEF IsConcat
  <2>2. WholeMessages(r, w - g, s, f + 1, l) /\ AreMessage(p, g, s, f, l)
    BY <1>3, <1>4, <1>5, <1>6, <2>1, MessagesLess, Zenon
  <2> QED
    BY <1>4, <2>2 DEF AreMessage
<1>8. s[f].from = rcv_queue[1].from /\ s[f].len = m
  <2>1. s[f].from \in Nat /\ s[f].len \in Nat
    <3>1. s[f] \in [from : Nat, len : Nat]
      BY <1>2, <1>3, <1>7, ElementOfSeq
    <3> QED
      BY <3>1
  <2>2. p[1] = rcv_queue[1] /\ p[g] = rcv_queue[g]
    <3>1. 1 \in 1..n
      OBVIOUS
    <3> QED
      BY <1>1, <3>1
  <2>3. PICK a \in Nat : a = Bytes(reads)
    BY <1>2, BytesReads
  <2>4. rcv_queue[1].from = a /\ rcv_queue[g].from + rcv_queue[g].len = a + m
    <3>1. rcv_queue[1].from = Bytes(reads)
          /\ rcv_queue[g].from + rcv_queue[g].len = Bytes(reads) + m
      BY TakesCovers
    <3> QED
      BY <2>3, <3>1
  <2>5. s[f].from = a /\ s[f].from + s[f].len = a + m
    BY <1>7, <2>2, <2>4
  <2>6. s[f].len = m
    <3>1. PICK y \in Nat : y = s[f].len
      BY <2>1
    <3>2. a + y = a + m
      BY ONLY <2>5, <3>1
    <3>3. y = m
      BY ONLY <3>2, a \in Nat, y \in Nat, m \in Nat
    <3> QED
      BY ONLY <3>1, <3>3
  <2> QED
    BY <2>4, <2>5, <2>6
<1>9. Len(reads') = f /\ sends' = s
  <2>1. PICK e \in Read : e = [from |-> rcv_queue[1].from, len |-> m, into |-> size]
    <3>1. rcv_queue[1].from \in Nat
      BY <1>2, TakesCovers, BytesReads
    <3> QED
      BY <3>1 DEF Read
  <2>2. reads' = Append(reads, e) /\ sends' = s
    BY <1>3, <2>1 DEF Takes, sndVars
  <2>3. Len(Append(reads, e)) = Len(reads) + 1
    BY <1>2, AppendProperties
  <2> QED
    BY <2>2, <2>3
<1> QED
  BY <1>1, <1>3, <1>7, <1>8, <1>9 DEF MessagesQueued

\* No read is longer than its buffer, and each is the message sent.
LEMMA TakesReads ==
  ASSUME TypeOK, Covers(Pipeline, Len(Pipeline), Bytes(reads), accepted), ReadsAreSends,
         ~stream /\ failures = 0 => MessagesQueued,
         NEW size \in Nat, NEW n \in Nat \ {0}, NEW g \in 1..n, NEW m \in Nat,
         Takes(size, g, n, m)
  PROVE  ReadsAreSends' /\ (~stream' /\ failures' = 0 => MessagesQueued')
<1>1. PICK f \in Nat, l \in Nat : f = l + 1 /\ l = Len(reads) /\ reads \in Seq(Read)
  <2>1. reads \in Seq(Read)
    BY DEF TypeOK, Read
  <2>2. PICK l \in Nat : l = Len(reads)
    BY <2>1, LenProperties
  <2>3. l + 1 \in Nat
    OBVIOUS
  <2> QED
    BY <2>1, <2>2, <2>3
<1>2. stream' = stream /\ failures' = failures /\ sends' = sends
  BY DEF Takes, unitVars, sndVars
<1>3. PICK e \in Read : e = [from |-> rcv_queue[1].from, len |-> m, into |-> size]
  <2>1. rcv_queue[1].from \in Nat
    BY <1>1, TakesCovers, BytesReads
  <2> QED
    BY <2>1 DEF Read
<1>4. PICK t \in Seq(Read) : /\ t = reads' /\ Len(t) = l + 1 /\ t[l + 1] = e
                             /\ \A i \in 1..l : t[i] = reads[i]
  <2>1. Append(reads, e) \in Seq(Read) /\ Len(Append(reads, e)) = l + 1
        /\ Append(reads, e)[l + 1] = e /\ \A i \in 1..l : Append(reads, e)[i] = reads[i]
    BY <1>1, AppendProperties
  <2>2. reads' = Append(reads, e)
    BY <1>3 DEF Takes
  <2> QED
    BY <2>1, <2>2
<1>5. DOMAIN t = 1 .. l + 1 /\ DOMAIN reads = 1..l
  BY <1>1, <1>4, LenProperties
<1>6. ASSUME NEW i \in 1 .. l + 1
      PROVE  /\ t[i].len <= t[i].into
             /\ ~stream /\ failures = 0 =>
                  t[i].from = sends[i].from /\ t[i].len = sends[i].len
  <2>1. CASE i \in 1..l
    BY <1>4, <1>5, <2>1 DEF ReadsAreSends
  <2>2. CASE i = l + 1
    <3>1. t[i].len = m /\ t[i].into = size /\ t[i].from = rcv_queue[1].from
      BY <1>3, <1>4, <2>2
    <3>2. m <= size
      BY DEF Takes
    <3>3. ASSUME ~stream, failures = 0
          PROVE  sends[i].from = rcv_queue[1].from /\ sends[i].len = m
      BY <1>1, <2>2, <3>3, TakesMessages
    <3> QED
      BY <3>1, <3>2, <3>3
  <2> QED
    BY <1>1, <2>1, <2>2
<1>7. ReadsAreSends'
  BY <1>2, <1>4, <1>5, <1>6 DEF ReadsAreSends
<1>8. ASSUME ~stream', failures' = 0 PROVE MessagesQueued'
  <2>1. MessagesQueued
    BY <1>2, <1>8
  <2> QED
    BY <1>1, <2>1, TakesMessages
<1> QED
  BY <1>7, <1>8


-----------------------------------------------------------------------------
(* What a flush puts into datagrams *)

\* The segments sent with n more are segments, none longer than the greatest
\* MTU allows.
LEMMA BufWith ==
  ASSUME TypeOK, UnitsKept, NEW n \in Nat, n <= Len(snd_queue)
  PROVE  /\ SndBufWith(n) \in Seq(Segment)
         /\ \A i \in DOMAIN SndBufWith(n) : OVERHEAD + SndBufWith(n)[i].len <= Max(mtus)
<1>1. PICK b \in Seq(Segment), c \in Seq(Segment) : b = snd_buf /\ c = snd_queue
  BY DEF TypeOK
<1>2. PICK k \in Nat, l \in Nat : k = Len(b) /\ l = Len(c) /\ n \in 0..l
  <2>1. PICK k \in Nat, l \in Nat : k = Len(b) /\ l = Len(c)
    BY LenProperties
  <2>2. n \in 0..l
    BY <1>1, <2>1
  <2> QED
    BY ONLY <2>1, <2>2, k \in Nat, l \in Nat
<1>3. Parts(Segment, c, l, n)
  BY <1>2, SplitAt, Zenon
<1>4. PICK x \in Seq(Segment) : x = SubSeq(c, 1, n)
  BY <1>3, Zenon DEF Parts
<1>5. Len(x) = n /\ \A i \in 1..n : x[i] = c[i]
  BY <1>3, <1>4 DEF Parts
<1>6. PICK z \in Seq(Segment) : z = b \o x /\ IsConcat(z, b, x, k, n)
  BY <1>2, <1>4, <1>5, ConcatIs, Zenon
<1>7. DOMAIN b = 1..k /\ DOMAIN c = 1..l /\ DOMAIN z = 1 .. k + n
  <2>1. DOMAIN b = 1..Len(b) /\ DOMAIN c = 1..Len(c) /\ DOMAIN z = 1..Len(z)
    BY LenProperties
  <2> QED
    BY <1>2, <1>6, <2>1 DEF IsConcat
<1>8. PICK M : M = Max(mtus)
  OBVIOUS
<1>9. /\ \A i \in 1..l : OVERHEAD + c[i].len <= M
      /\ \A i \in 1..k : OVERHEAD + b[i].len <= M
  BY <1>1, <1>7, <1>8 DEF UnitsKept
<1>10. ASSUME NEW i \in 1 .. k + n PROVE OVERHEAD + z[i].len <= M
  <2>1. CASE i \in 1..k
    BY <1>6, <1>9, <2>1 DEF IsConcat
  <2>2. CASE i > k
    <3>1. i - k \in 1..n /\ i - k \in 1..l /\ i = k + (i - k)
      BY ONLY <1>2, <2>2, i \in 1 .. k + n, k \in Nat, l \in Nat, n \in Nat
    <3>2. PICK j \in 1..n : i = k + j /\ j \in 1..l
      BY ONLY <3>1
    <3>3. z[i] = c[j]
      BY <1>5, <1>6, <3>2 DEF IsConcat
    <3> QED
      BY <1>9, <3>2, <3>3
  <2>3. i \in 1..k \/ i > k
    OBVIOUS
  <2> QED
    BY <2>1, <2>2, <2>3, Zenon
<1>11. z = SndBufWith(n)
  BY <1>1, <1>4, <1>6 DEF SndBufWith
<1> QED
  BY <1>7, <1>8, <1>10, <1>11

\* What a flush needs is packed as it should be: for each item its length, none
\* longer than the greatest MTU allows.
LEMMA NeedsWell ==
  ASSUME PackAssumption, TypeOK, UnitsKept, NEW control \in Nat, NEW n \in Nat, NEW resend,
         n <= Len(snd_queue), NEW p, p = Packed(Needs(control, n, resend))
  PROVE  p \in Seq(Seq(Nat)) /\ PackedWell(p, Max(mtus))
<1>1. PICK o \in Nat, M \in Nat : o = OVERHEAD /\ M = Max(mtus) /\ o <= M /\ mtu \in Nat
  <2>1. Units /\ OVERHEAD \in Nat
    BY UnitsThere DEF PackAssumption
  <2> QED
    BY <2>1 DEF Units
<1>2. PICK buf \in Seq(Segment) : buf = SndBufWith(n)
  BY BufWith
<1>3. PICK l \in Nat : l = Len(buf) /\ DOMAIN buf = 1..l
  BY LenProperties
<1>4. PICK due \in [1..l -> BOOLEAN] :
        p = Packed([i \in 1..control |-> o] \o
                   [i \in 1..l |-> IF due[i] THEN o + buf[i].len ELSE 0])
  <2>1. PICK due : due = [i \in 1..l |-> i \in resend \/ i > Len(snd_buf)]
    OBVIOUS
  <2>2. due \in [1..l -> BOOLEAN] /\ \A i \in 1..l : due[i] <=> i \in resend \/ i > Len(snd_buf)
    BY <2>1
  <2>3. p = Packed([i \in 1..control |-> OVERHEAD] \o
                   [i \in DOMAIN buf |->
                      IF i \in resend \/ i > Len(snd_buf) THEN OVERHEAD + buf[i].len ELSE 0])
    BY <1>2 DEF Needs
  <2>4. [i \in DOMAIN buf |->
           IF i \in resend \/ i > Len(snd_buf) THEN OVERHEAD + buf[i].len ELSE 0]
        = [i \in 1..l |-> IF due[i] THEN o + buf[i].len ELSE 0]
    BY <1>1, <1>3, <2>2
  <2> QED
    BY <1>1, <2>2, <2>3, <2>4
<1>5. PICK f \in Seq(0..M) : f = [i \in 1..control |-> o]
  <2>1. PICK f \in [1..control -> 0..M] : f = [i \in 1..control |-> o]
    <3>1. [i \in 1..control |-> o] \in [1..control -> 0..M]
      BY <1>1
    <3> QED
      BY <3>1
  <2>2. f \in Seq(0..M)
    BY ONLY f \in [1..control -> 0..M], control \in Nat
  <2> QED
    BY <2>1, <2>2
<1>6. PICK g \in Seq(0..M) : g = [i \in 1..l |-> IF due[i] THEN o + buf[i].len ELSE 0]
  <2>1. ASSUME NEW i \in 1..l PROVE (IF due[i] THEN o + buf[i].len ELSE 0) \in 0..M
    <3>1. PICK x \in Nat : x = buf[i].len
      BY <1>3, SegmentsTyped
    <3>2. o + x <= M
      BY <1>1, <1>2, <1>3, <3>1, BufWith
    <3> QED
      BY ONLY <1>1, <3>1, <3>2
  <2>2. PICK g \in [1..l -> 0..M] :
          g = [i \in 1..l |-> IF due[i] THEN o + buf[i].len ELSE 0]
    <3>1. [i \in 1..l |-> IF due[i] THEN o + buf[i].len ELSE 0] \in [1..l -> 0..M]
      BY <2>1
    <3> QED
      BY <3>1
  <2>3. g \in Seq(0..M)
    BY ONLY g \in [1..l -> 0..M], l \in Nat
  <2> QED
    BY <2>2, <2>3
<1>7. PICK needs \in Seq(0..M) : needs = f \o g
  BY ONLY f \in Seq(0..M), g \in Seq(0..M), ConcatProperties
<1>8. p = Packed(needs)
  BY <1>4, <1>5, <1>6, <1>7
<1> QED
  BY <1>1, <1>7, <1>8, PackedIsWell

-----------------------------------------------------------------------------
(* Every step preserves the invariant *)

\* The buffer is right for the MTU, and has held what was written into it.
BufferRight == buffer = BufferFor(mtu) /\ BufferHolds

LEMMA BufferStays ==
  ASSUME PackInv, UNCHANGED unitVars
  PROVE  BufferRight'
BY DEF PackInv, unitVars, BufferRight, BufferHolds, BufferFor

\* What the steps that only move segments from one queue to the next leave alone.
Moved ==
  /\ UNCHANGED <<unitVars, accepted, sends, failures, reads>>
  /\ Pipeline' = Pipeline
  /\ snd_queue' \in Seq(Segment) /\ snd_buf' \in Seq(Segment) /\ rcv_queue' \in Seq(Segment)

LEMMA MovedKeeps ==
  ASSUME PackInv, Moved, UnitsKept', StreamFillsSegments'
  PROVE  PackInv'
<1>1. TypeOK'
  BY DEF PackInv, TypeOK, Moved, unitVars
<1>2. Covers(Pipeline, Len(Pipeline), Bytes(reads), accepted)'
  BY DEF PackInv, Moved
<1>3. (~stream /\ failures = 0 => MessagesQueued)'
  BY DEF PackInv, Moved, unitVars, MessagesQueued
<1>4. ReadsAreSends'
  BY DEF PackInv, Moved, unitVars, ReadsAreSends
<1>5. BufferRight'
  BY BufferStays DEF Moved
<1> QED
  BY <1>1, <1>2, <1>3, <1>4, <1>5 DEF PackInv, BufferRight

\* No message is read before it is sent.
LEMMA ReadsBehind ==
  ASSUME TypeOK, MessagesQueued
  PROVE  \A i \in DOMAIN reads : i \in 1..Len(sends)
<1>1. PICK l \in Nat, k \in Nat :
        l = Len(sends) /\ k = Len(reads) /\ DOMAIN reads = 1..k
  <2>1. sends \in Seq([from : Nat, len : Nat]) /\ reads \in Seq(Read)
    BY DEF TypeOK, Read
  <2> QED
    BY <2>1, LenProperties
<1>2. PICK n \in Nat : n = Len(Pipeline)
  <2>1. Pipeline \in Seq(Segment)
    BY ConcatProperties DEF TypeOK, Pipeline
  <2> QED
    BY <2>1, LenProperties
<1>3. WholeMessages(Pipeline, n, sends, k + 1, l)
  BY <1>1, <1>2 DEF MessagesQueued
<1>4. k + 1 <= l + 1
  <2>1. CASE n = 0
    BY <1>1, <1>3, <2>1 DEF WholeMessages
  <2>2. CASE n # 0
    <3>1. PICK msg \in [1..n -> 1..l] : Messages(Pipeline, n, msg, sends, k + 1, l)
      BY <1>3, <2>2, Zenon DEF WholeMessages
    <3>2. 1 \in 1..n /\ msg[1] = k + 1
      BY <2>2, <3>1 DEF Messages
    <3> QED
      BY <1>1, <3>1, <3>2
  <2> QED
    BY <2>1, <2>2
<1> QED
  BY <1>1, <1>4

LEMMA SendStep ==
  ASSUME PackAssumption, PackInv, NEW len \in Nat, Send(len) PROVE PackInv'
<1>1. /\ TypeOK /\ UnitsKept /\ StreamFillsSegments /\ ReadsAreSends
      /\ Covers(Pipeline, Len(Pipeline), Bytes(reads), accepted)
      /\ ~stream /\ failures = 0 => MessagesQueued
  BY DEF PackInv
<1>2. Units
  BY <1>1, UnitsThere
<1>3. PICK e \in Nat, c \in Seq(Segment), n \in Nat, k \in Nat, d \in Nat :
        Queues(e, c, n, k, d)
  BY <1>1, <1>2, SendQueues, Zenon
<1>4. /\ snd_queue' \in Seq(Segment) /\ accepted' \in Nat
      /\ UnitsKept' /\ StreamFillsSegments'
  BY <1>1, <1>2, <1>3, QueuesUnits, Zenon
<1>5. Covers(Pipeline', Len(Pipeline'), Bytes(reads'), accepted')
  BY <1>1, <1>3, QueuesCovers, Zenon
<1>6. /\ UNCHANGED <<stream, mtu, mtus, buffer, overrun, snd_buf, rcv_queue, reads, failures>>
      /\ \E m : sends' = Append(sends, [from |-> accepted, len |-> m])
                /\ (m = len \/ m = Extend(len))
  BY DEF Send, unitVars
<1>7. PICK m \in Nat : sends' = Append(sends, [from |-> accepted, len |-> m])
  <2>1. Extend(len) \in Nat
    <3>1. PICK l \in Nat : l = Len(snd_queue)
      <4>1. snd_queue \in Seq(Segment)
        BY <1>1 DEF TypeOK
      <4> QED
        BY <4>1, LenProperties
    <3>2. Extend(len) \in 0..len
      BY <1>1, <1>2, <3>1, ExtendedIs
    <3> QED
      BY <3>2
  <2> QED
    BY <1>6, <2>1
<1>8. TypeOK'
  <2>1. [from |-> accepted, len |-> m] \in [from : Nat, len : Nat]
    BY <1>1 DEF TypeOK
  <2>2. sends' \in Seq([from : Nat, len : Nat])
    BY <1>1, <1>7, <2>1, AppendProperties DEF TypeOK
  <2> QED
    BY <1>1, <1>4, <1>6, <2>2 DEF TypeOK
<1>9. ASSUME ~stream', failures' = 0 PROVE MessagesQueued'
  <2>1. ~stream /\ MessagesQueued
    BY <1>1, <1>6, <1>9
  <2> QED
    BY <1>1, <1>2, <2>1, SendMessages
<1>10. ReadsAreSends'
  <2>1. ASSUME NEW i \in DOMAIN reads, ~stream, failures = 0
        PROVE  sends'[i] = sends[i]
    <3>1. i \in 1..Len(sends)
      BY <1>1, <2>1, ReadsBehind
    <3> QED
      BY <1>1, <1>6, <3>1, AppendProperties DEF TypeOK
  <2> QED
    BY <1>1, <1>6, <2>1 DEF ReadsAreSends
<1>11. BufferRight'
  BY BufferStays DEF Send
<1> QED
  BY <1>1, <1>4, <1>5, <1>8, <1>9, <1>10, <1>11 DEF PackInv, BufferRight


LEMMA SendFailsStep ==
  ASSUME PackAssumption, PackInv, NEW len \in Nat, NEW j \in 0 .. WND_RCV - 2, SendFails(len, j)
  PROVE  PackInv'
<1>1. /\ TypeOK /\ UnitsKept /\ StreamFillsSegments /\ ReadsAreSends
      /\ Covers(Pipeline, Len(Pipeline), Bytes(reads), accepted)
  BY DEF PackInv
<1>2. Units
  BY <1>1, UnitsThere
<1>3. PICK e \in Nat, c \in Seq(Segment), n \in Nat, k \in Nat, d \in Nat :
        Queues(e, c, n, k, d)
  BY <1>1, <1>2, SendQueues, Zenon
<1>4. /\ snd_queue' \in Seq(Segment) /\ accepted' \in Nat
      /\ UnitsKept' /\ StreamFillsSegments'
  BY <1>1, <1>2, <1>3, QueuesUnits, Zenon
<1>5. Covers(Pipeline', Len(Pipeline'), Bytes(reads'), accepted')
  BY <1>1, <1>3, QueuesCovers, Zenon
<1>6. /\ UNCHANGED <<stream, mtu, mtus, buffer, overrun, snd_buf, rcv_queue, reads, sends>>
      /\ failures' = failures + 1
  BY DEF SendFails, unitVars
<1>7. failures' \in Nat /\ failures' # 0
  BY <1>1, <1>6 DEF TypeOK
<1>8. TypeOK'
  BY <1>1, <1>4, <1>6, <1>7 DEF TypeOK
<1>9. ReadsAreSends'
  BY <1>1, <1>6, <1>7 DEF ReadsAreSends
<1>10. BufferRight'
  BY BufferStays DEF SendFails
<1> QED
  BY <1>4, <1>5, <1>7, <1>8, <1>9, <1>10 DEF PackInv, BufferRight

LEMMA FlushStep ==
  ASSUME PackAssumption, PackInv, NEW control \in Nat, NEW n \in Nat, NEW resend,
         Flush(control, n, resend)
  PROVE  PackInv'
<1>1. /\ TypeOK /\ UnitsKept /\ StreamFillsSegments
  BY DEF PackInv
<1>2. PICK a \in Seq(Segment), b \in Seq(Segment), c \in Seq(Segment) :
        a = rcv_queue /\ b = snd_buf /\ c = snd_queue
  BY <1>1 DEF TypeOK
<1>3. PICK l \in Nat : l = Len(c) /\ n \in 0..l
  <2>1. PICK l \in Nat : l = Len(c)
    BY LenProperties
  <2>2. n <= l
    BY <1>2, <2>1 DEF Flush
  <2>3. n \in 0..l
    BY ONLY <2>2, n \in Nat, l \in Nat
  <2> QED
    BY ONLY <2>1, <2>3, l \in Nat
<1>4. Parts(Segment, c, l, n)
  BY <1>3, SplitAt, Zenon
<1>5. PICK x \in Seq(Segment), y \in Seq(Segment) :
        x = SubSeq(c, 1, n) /\ y = SubSeq(c, n + 1, l)
  BY <1>4, Zenon DEF Parts
<1>6. /\ x \o y = c /\ Len(x) = n /\ Len(y) = l - n
      /\ \A i \in 1..n : x[i] = c[i]
      /\ \A i \in 1 .. l - n : y[i] = c[n + i]
  BY <1>4, <1>5 DEF Parts
<1>7. /\ snd_buf' = b \o x /\ snd_queue' = y /\ rcv_queue' = a
      /\ UNCHANGED <<unitVars, accepted, sends, failures, reads>>
  BY <1>2, <1>3, <1>5 DEF Flush, SndBufWith
<1>8. PICK k \in Nat : k = Len(b)
  BY LenProperties
<1>9. PICK z \in Seq(Segment) : z = b \o x /\ IsConcat(z, b, x, k, n)
  BY <1>5, <1>6, <1>8, ConcatIs, Zenon
<1>10. Pipeline' = Pipeline
  <2>1. PICK d \in Seq(Segment) : d = a \o b
    BY ONLY a \in Seq(Segment), b \in Seq(Segment), ConcatProperties
  <2>2. Regroups(a, b, x) /\ Regroups(d, x, y)
    BY <1>2, <1>5, <2>1, Regroup, Zenon
  <2>3. a \o (b \o x) = d \o x /\ (d \o x) \o y = d \o c
    BY <1>6, <2>1, <2>2 DEF Regroups
  <2>4. Pipeline = d \o c /\ Pipeline' = (a \o (b \o x)) \o y
    BY <1>2, <1>7, <2>1 DEF Pipeline
  <2> QED
    BY <2>3, <2>4
<1>11. Moved
  BY <1>2, <1>5, <1>7, <1>9, <1>10, Zenon DEF Moved
<1>12. DOMAIN c = 1..l /\ DOMAIN b = 1..k /\ DOMAIN y = 1 .. l - n /\ DOMAIN z = 1 .. k + n
  <2>1. DOMAIN c = 1..Len(c) /\ DOMAIN b = 1..Len(b) /\ DOMAIN y = 1..Len(y)
        /\ DOMAIN z = 1..Len(z)
    BY LenProperties
  <2> QED
    BY <1>3, <1>6, <1>8, <1>9, <2>1 DEF IsConcat
<1>13. PICK M, u, s : M = Max(mtus) /\ u = Min(mtus) - OVERHEAD /\ s = mtus'
                      /\ s = mtus /\ stream' = stream
  BY <1>7 DEF unitVars
<1>14. /\ \A i \in 1..l : OVERHEAD + c[i].len <= M
       /\ \A i \in 1..k : OVERHEAD + b[i].len <= M
  BY <1>1, <1>2, <1>12, <1>13 DEF UnitsKept
<1>15. UnitsKept'
  <2>1. \A i \in 1 .. l - n : OVERHEAD + y[i].len <= M
    <3>1. \A i \in 1 .. l - n : n + i \in 1..l
      BY <1>3
    <3> QED
      BY <1>6, <1>14, <3>1
  <2>2. ASSUME NEW i \in 1 .. k + n PROVE OVERHEAD + z[i].len <= M
    <3>1. z = SndBufWith(n) /\ n <= Len(snd_queue)
      BY <1>2, <1>5, <1>9 DEF Flush, SndBufWith
    <3> QED
      BY <1>1, <1>12, <1>13, <3>1, BufWith
  <2>3. \A m \in s : MTU_MIN <= m
    BY <1>1, <1>13 DEF UnitsKept
  <2>4. \E low, high \in s : \A m \in s : low <= m /\ m <= high
    BY <1>1, <1>13, Zenon DEF UnitsKept
  <2> QED
    BY <1>7, <1>9, <1>12, <1>13, <2>1, <2>2, <2>3, <2>4, Zenon DEF UnitsKept
<1>16. StreamFillsSegments'
  <2>1. ASSUME stream, NEW i \in 1 .. (l - n) - 1 PROVE y[i].len >= u
    <3>1. n + i \in 1 .. l - 1 /\ i \in 1 .. l - n
      BY <1>3
    <3>2. c[n + i].len >= u
      BY <1>1, <1>2, <1>3, <1>13, <2>1, <3>1 DEF StreamFillsSegments
    <3> QED
      BY <1>6, <3>1, <3>2
  <2> QED
    BY <1>6, <1>7, <1>13, <2>1 DEF StreamFillsSegments
<1> QED
  BY <1>11, <1>15, <1>16, MovedKeeps

LEMMA ArriveStep ==
  ASSUME PackInv, NEW k, Arrive(k)
  PROVE  PackInv'
<1>1. /\ TypeOK /\ UnitsKept /\ StreamFillsSegments
  BY DEF PackInv
<1>2. PICK a \in Seq(Segment), b \in Seq(Segment), c \in Seq(Segment) :
        a = rcv_queue /\ b = snd_buf /\ c = snd_queue
  BY <1>1 DEF TypeOK
<1>3. PICK l \in Nat : l = Len(b) /\ k \in 0..l
  <2>1. PICK l \in Nat : l = Len(b)
    BY LenProperties
  <2>2. k \in 1..l
    BY <1>2, <2>1 DEF Arrive
  <2>3. k \in 0..l
    BY ONLY <2>2, l \in Nat
  <2> QED
    BY ONLY <2>1, <2>3, l \in Nat
<1>4. Parts(Segment, b, l, k)
  BY <1>3, SplitAt, Zenon
<1>5. PICK x \in Seq(Segment), y \in Seq(Segment) :
        x = SubSeq(b, 1, k) /\ y = SubSeq(b, k + 1, l)
  BY <1>4, Zenon DEF Parts
<1>6. /\ x \o y = b /\ Len(y) = l - k /\ \A i \in 1 .. l - k : y[i] = b[k + i]
  BY <1>4, <1>5 DEF Parts
<1>7. /\ rcv_queue' = a \o x /\ snd_buf' = y /\ snd_queue' = c
      /\ UNCHANGED <<unitVars, accepted, sends, failures, reads>>
  BY <1>2, <1>3, <1>5 DEF Arrive, sndVars
<1>8. a \o x \in Seq(Segment)
  BY ONLY a \in Seq(Segment), x \in Seq(Segment), ConcatProperties
<1>9. Pipeline' = Pipeline
  <2>1. Regroups(a, x, y)
    BY <1>2, <1>5, Regroup, Zenon
  <2>2. (a \o x) \o y = a \o b
    BY <1>6, <2>1 DEF Regroups
  <2> QED
    BY <1>2, <1>7, <2>2 DEF Pipeline
<1>10. Moved
  BY <1>2, <1>5, <1>7, <1>8, <1>9, Zenon DEF Moved
<1>11. DOMAIN b = 1..l /\ DOMAIN y = 1 .. l - k
  <2>1. DOMAIN b = 1..Len(b) /\ DOMAIN y = 1..Len(y)
    BY LenProperties
  <2> QED
    BY <1>3, <1>6, <2>1
<1>12. UnitsKept'
  <2>1. mtus' = mtus
    BY <1>7 DEF unitVars
  <2>2. ASSUME NEW i \in 1 .. l - k PROVE OVERHEAD + y[i].len <= Max(mtus)
    <3>1. k + i \in 1..l
      BY <1>3
    <3> QED
      BY <1>1, <1>2, <1>6, <1>11, <3>1 DEF UnitsKept
  <2> QED
    BY <1>1, <1>2, <1>7, <1>11, <2>1, <2>2, Zenon DEF UnitsKept
<1>13. StreamFillsSegments'
  BY <1>1, <1>2, <1>7 DEF StreamFillsSegments, unitVars
<1> QED
  BY <1>10, <1>12, <1>13, MovedKeeps


LEMMA RecvStep ==
  ASSUME PackInv, NEW size \in Nat, Recv(size)
  PROVE  PackInv'
<1>1. /\ TypeOK /\ UnitsKept /\ StreamFillsSegments /\ ReadsAreSends
      /\ Covers(Pipeline, Len(Pipeline), Bytes(reads), accepted)
      /\ ~stream /\ failures = 0 => MessagesQueued
  BY DEF PackInv
<1>2. PICK n \in Nat \ {0} : \E g \in 1..n, m \in Nat : Takes(size, g, n, m)
  BY <1>1, RecvTakes
<1>3. PICK g \in 1..n, m \in Nat : Takes(size, g, n, m)
  BY <1>2
<1>4. rcv_queue' \in Seq(Segment)
  BY <1>1, <1>3, TakesSplit
<1>5. reads' \in Seq(Read) /\ Covers(Pipeline', Len(Pipeline'), Bytes(reads'), accepted')
  BY <1>1, <1>3, TakesCovers
<1>6. ReadsAreSends' /\ (~stream' /\ failures' = 0 => MessagesQueued')
  BY <1>1, <1>3, TakesReads, Zenon
<1>7. UNCHANGED <<unitVars, stream, mtu, mtus, buffer, overrun, snd_queue, snd_buf, accepted,
                  sends, failures>>
  BY <1>3 DEF Takes, unitVars, sndVars
<1>8. TypeOK'
  BY <1>1, <1>4, <1>5, <1>7 DEF TypeOK, Read
<1>9. UnitsKept' /\ StreamFillsSegments'
  BY <1>1, <1>7 DEF UnitsKept, StreamFillsSegments
<1>10. BufferRight'
  BY <1>7, BufferStays
<1> QED
  BY <1>5, <1>6, <1>8, <1>9, <1>10 DEF PackInv, BufferRight

LEMMA SetMtuStep ==
  ASSUME PackAssumption, PackInv, NEW m \in Nat, SetMtu(m)
  PROVE  PackInv'
<1>1. /\ TypeOK /\ UnitsKept /\ StreamFillsSegments /\ ReadsAreSends
      /\ Covers(Pipeline, Len(Pipeline), Bytes(reads), accepted)
      /\ ~stream /\ failures = 0 => MessagesQueued
  BY DEF PackInv
<1>2. PICK o \in Nat, z \in Nat : o = OVERHEAD /\ z = MTU_MIN
  BY DEF PackAssumption
<1>3. /\ z <= m /\ mtu' = m /\ mtus' = mtus \cup {m}
      /\ buffer' = BufferFor(m) /\ ~overrun /\ overrun' = overrun
      /\ UNCHANGED <<stream, snd_queue, snd_buf, rcv_queue, accepted, sends, failures, reads>>
  BY <1>2 DEF SetMtu, sndVars
<1>4. PICK low \in mtus, high \in mtus : \A x \in mtus : low <= x /\ x <= high
  BY <1>1 DEF UnitsKept
<1>5. mtus \in SUBSET Nat /\ mtus' \in SUBSET Nat /\ low \in Nat /\ high \in Nat
  BY <1>1, <1>3, <1>4 DEF TypeOK
<1>6. PICK down \in mtus', up \in mtus' :
        /\ \A x \in mtus' : down <= x /\ x <= up
        /\ down <= low /\ high <= up
  <2>1. CASE m < low
    <3>1. m \in mtus' /\ high \in mtus' /\ \A x \in mtus' : m <= x /\ x <= high
      BY <1>3, <1>4, <1>5, <2>1
    <3> QED
      BY <1>5, <2>1, <3>1
  <2>2. CASE high < m
    <3>1. low \in mtus' /\ m \in mtus' /\ \A x \in mtus' : low <= x /\ x <= m
      BY <1>3, <1>4, <1>5, <2>2
    <3> QED
      BY <1>5, <2>2, <3>1
  <2>3. CASE low <= m /\ m <= high
    <3>1. low \in mtus' /\ high \in mtus' /\ \A x \in mtus' : low <= x /\ x <= high
      BY <1>3, <1>4, <1>5, <2>3
    <3> QED
      BY <1>5, <3>1
  <2> QED
    BY <1>5, <2>1, <2>2, <2>3
<1>7. Max(mtus) = high /\ Min(mtus) = low
  BY <1>4, <1>5, MaxMinIs
<1>8. Max(mtus') = up /\ Min(mtus') = down
  BY <1>5, <1>6, MaxMinIs
<1>9. up \in Nat /\ down \in Nat
  BY <1>5, <1>6
<1>10. TypeOK'
  <2>1. mtu' \in mtus' /\ mtus' \subseteq Nat
    BY <1>3, <1>5
  <2>2. (m + o) * 3 \in Nat
    OBVIOUS
  <2>3. buffer' \in Nat
    BY <1>2, <1>3, <2>2 DEF BufferFor
  <2> QED
    BY <1>1, <1>3, <2>1, <2>3 DEF TypeOK
<1>11. ASSUME NEW s \in Seq(Segment), NEW i \in DOMAIN s, OVERHEAD + s[i].len <= high
       PROVE  OVERHEAD + s[i].len <= up
  <2>1. PICK n \in Nat : n = Len(s) /\ i \in 1..n
    BY LenProperties
  <2>2. PICK l \in Nat : l = s[i].len
    BY <2>1, SegmentsTyped
  <2> QED
    BY ONLY <1>2, <1>5, <1>6, <1>9, <1>11, <2>2
<1>12. UnitsKept'
  <2>1. snd_queue \in Seq(Segment) /\ snd_buf \in Seq(Segment)
    BY <1>1 DEF TypeOK
  <2>2. /\ \A i \in DOMAIN snd_queue : OVERHEAD + snd_queue[i].len <= up
        /\ \A i \in DOMAIN snd_buf : OVERHEAD + snd_buf[i].len <= up
    BY <1>1, <1>7, <1>11, <2>1 DEF UnitsKept
  <2>3. \A x \in mtus' : MTU_MIN <= x
    BY <1>1, <1>2, <1>3 DEF UnitsKept
  <2>4. \E l, h \in mtus' : \A x \in mtus' : l <= x /\ x <= h
    BY <1>6
  <2> QED
    BY <1>3, <1>8, <2>2, <2>3, <2>4, Zenon DEF UnitsKept
<1>13. StreamFillsSegments'
  <2>1. ASSUME stream, NEW i \in 1 .. Len(snd_queue) - 1
        PROVE  snd_queue[i].len >= down - OVERHEAD
    <3>1. PICK n \in Nat : n = Len(snd_queue)
      BY <1>1, LenProperties DEF TypeOK
    <3>2. i \in 1..n /\ snd_queue \in Seq(Segment)
      BY <1>1, <3>1 DEF TypeOK
    <3>3. PICK l \in Nat : l = snd_queue[i].len
      BY <3>1, <3>2, SegmentsTyped
    <3>4. l >= low - o
      BY <1>1, <1>2, <1>7, <2>1, <3>3 DEF StreamFillsSegments
    <3>5. l >= down - o
      BY ONLY <1>2, <1>5, <1>6, <1>9, <3>3, <3>4
    <3> QED
      BY <1>2, <3>3, <3>5
  <2> QED
    BY <1>3, <1>8, <2>1 DEF StreamFillsSegments
<1>14. /\ Covers(Pipeline', Len(Pipeline'), Bytes(reads'), accepted')
       /\ ~stream' /\ failures' = 0 => MessagesQueued'
       /\ ReadsAreSends'
  <2>1. Pipeline' = Pipeline
    BY <1>3 DEF Pipeline
  <2> QED
    BY <1>1, <1>3, <2>1 DEF MessagesQueued, ReadsAreSends
<1>15. BufferRight'
  BY <1>3 DEF BufferRight, BufferHolds, BufferFor
<1> QED
  BY <1>10, <1>12, <1>13, <1>14, <1>15 DEF PackInv, BufferRight

\* Only a segment cut for a much greater MTU is longer than the buffer.
LEMMA FlushOverrunsStep ==
  ASSUME PackAssumption, PackInv, NEW control \in Nat, NEW n \in Nat, NEW resend,
         FlushOverruns(control, n, resend)
  PROVE  PackInv'
<1>1. /\ TypeOK /\ UnitsKept /\ StreamFillsSegments /\ ReadsAreSends
      /\ buffer = BufferFor(mtu)
      /\ Covers(Pipeline, Len(Pipeline), Bytes(reads), accepted)
      /\ ~stream /\ failures = 0 => MessagesQueued
  BY DEF PackInv
<1>2. /\ UNCHANGED <<stream, mtu, mtus, buffer, snd_queue, snd_buf, rcv_queue, accepted, sends,
                     failures, reads>>
      /\ overrun' = TRUE
  BY DEF FlushOverruns, sndVars
<1>3. Pipeline' = Pipeline
  BY <1>2 DEF Pipeline
<1>4. PICK o \in Nat, u \in Nat, M \in Nat :
        o = OVERHEAD /\ u = mtu /\ M = Max(mtus) /\ buffer = (u + o) * 3
  <2>1. Units /\ OVERHEAD \in Nat
    BY <1>1, UnitsThere DEF PackAssumption
  <2> QED
    BY <1>1, <2>1 DEF Units, BufferFor
<1>5. ~(M <= (u + o) * 3)
  <2>1. PICK p : p = Packed(Needs(control, n, resend)) /\ ~InBuffer(p) /\ n <= Len(snd_queue)
    BY DEF FlushOverruns
  <2>2. p \in Seq(Seq(Nat)) /\ PackedWell(p, M)
    BY <1>1, <1>4, <2>1, NeedsWell
  <2>3. PICK i \in DOMAIN p : ~(Total(p[i]) <= (u + o) * 3)
    BY <1>4, <2>1 DEF InBuffer
  <2>4. i \in 1..Len(p) /\ p[i] \in Seq(Nat)
    BY <2>2, LenProperties, ElementOfSeq
  <2>5. PICK t \in Nat : t = Total(p[i])
    BY <2>4, TotalType
  <2>6. t <= u \/ t <= M
    BY <1>4, <2>2, <2>4, <2>5 DEF PackedWell
  <2> QED
    BY <2>3, <2>5, <2>6
<1>6. BufferRight'
  BY <1>1, <1>2, <1>4, <1>5 DEF BufferRight, BufferHolds, BufferFor
<1>7. TypeOK' /\ UnitsKept' /\ StreamFillsSegments' /\ ReadsAreSends'
  BY <1>1, <1>2 DEF TypeOK, UnitsKept, StreamFillsSegments, ReadsAreSends
<1> QED
  BY <1>1, <1>2, <1>3, <1>6, <1>7 DEF PackInv, BufferRight, MessagesQueued


LEMMA InitKeeps ==
  ASSUME PackAssumption, Init
  PROVE  PackInv
<1>1. /\ stream \in Streams /\ mtu = MTU_DEF /\ mtus = {MTU_DEF}
      /\ buffer = BufferFor(MTU_DEF) /\ overrun = FALSE
      /\ snd_queue = <<>> /\ snd_buf = <<>> /\ rcv_queue = <<>>
      /\ accepted = 0 /\ sends = <<>> /\ failures = 0 /\ reads = <<>>
  BY DEF Init
<1>2. MTU_DEF \in Nat /\ MTU_MIN <= MTU_DEF
  BY DEF PackAssumption
<1>3. Len(<<>>) = 0 /\ DOMAIN <<>> = {} /\ \A S : <<>> \in Seq(S)
  BY EmptySeq
<1>4. Pipeline = <<>>
  BY <1>1, <1>3, ConcatEmptySeq DEF Pipeline
<1>5. TypeOK
  <2>1. PICK o \in Nat, u \in Nat : o = OVERHEAD /\ u = MTU_DEF
    BY DEF PackAssumption
  <2>2. (u + o) * 3 \in Nat
    OBVIOUS
  <2>3. buffer \in Nat
    BY <1>1, <2>1, <2>2 DEF BufferFor
  <2> QED
    BY <1>1, <1>2, <1>3, <2>3 DEF TypeOK
<1>6. UnitsKept
  <2>1. \A m \in mtus : MTU_MIN <= m
    BY <1>1, <1>2
  <2>2. \E low, high \in mtus : \A m \in mtus : low <= m /\ m <= high
    BY <1>1, <1>2
  <2> QED
    BY <1>1, <1>3, <2>1, <2>2, Zenon DEF UnitsKept
<1>7. Covers(Pipeline, Len(Pipeline), Bytes(reads), accepted)
  <2>1. Bytes(reads) = 0
    BY <1>1, BytesEmpty
  <2> QED
    BY <1>1, <1>3, <1>4, <2>1 DEF Covers
<1>8. MessagesQueued
  BY <1>1, <1>3, <1>4 DEF MessagesQueued, WholeMessages
<1>9. StreamFillsSegments /\ ReadsAreSends
  BY <1>1, <1>3 DEF StreamFillsSegments, ReadsAreSends
<1>10. BufferRight
  BY <1>1 DEF BufferRight, BufferHolds
<1> QED
  BY <1>5, <1>6, <1>7, <1>8, <1>9, <1>10 DEF PackInv, BufferRight

LEMMA NextKeeps ==
  ASSUME PackAssumption, PackInv, [Next]_vars
  PROVE  PackInv'
<1>1. ASSUME NEW len \in Lens, Send(len) PROVE PackInv'
  <2>1. len \in Nat
    BY DEF PackAssumption
  <2> QED
    BY <1>1, <2>1, SendStep
<1>2. ASSUME NEW len \in Lens, NEW k \in 0 .. WND_RCV - 2, SendFails(len, k) PROVE PackInv'
  <2>1. len \in Nat
    BY DEF PackAssumption
  <2> QED
    BY <1>2, <2>1, SendFailsStep
<1>3. ASSUME NEW control \in 0..MaxAcks, NEW n \in 0..Len(snd_queue),
             NEW resend \in SUBSET DOMAIN snd_buf, Flush(control, n, resend)
      PROVE  PackInv'
  <2>1. control \in Nat /\ n \in Nat
    OBVIOUS
  <2> QED
    BY <1>3, <2>1, FlushStep
<1>4. ASSUME NEW k \in 1..Len(snd_buf), Arrive(k) PROVE PackInv'
  BY <1>4, ArriveStep
<1>5. ASSUME NEW size \in Buffers, Recv(size) PROVE PackInv'
  <2>1. size \in Nat
    BY DEF PackAssumption
  <2> QED
    BY <1>5, <2>1, RecvStep
<1>6. ASSUME NEW m \in Mtus, SetMtu(m) PROVE PackInv'
  <2>1. m \in Nat
    BY DEF PackAssumption
  <2> QED
    BY <1>6, <2>1, SetMtuStep
<1>7. ASSUME NEW control \in 0..MaxAcks, NEW n \in 0..Len(snd_queue),
             NEW resend \in SUBSET DOMAIN snd_buf, FlushOverruns(control, n, resend)
      PROVE  PackInv'
  <2>1. control \in Nat /\ n \in Nat
    OBVIOUS
  <2> QED
    BY <1>7, <2>1, FlushOverrunsStep
<1>8. CASE UNCHANGED vars
  <2>1. UNCHANGED <<unitVars, stream, mtu, mtus, buffer, overrun, snd_queue, snd_buf, rcv_queue, accepted, sends,
                    failures, reads>>
    BY <1>8 DEF vars, unitVars, sndVars
  <2>2. Pipeline' = Pipeline
    BY <2>1 DEF Pipeline
  <2>3. BufferRight'
    BY <2>1, BufferStays
  <2> QED
    BY <2>1, <2>2, <2>3 DEF PackInv, BufferRight, TypeOK, UnitsKept, MessagesQueued,
                            StreamFillsSegments, ReadsAreSends
<1> QED
  BY <1>1, <1>2, <1>3, <1>4, <1>5, <1>6, <1>7, <1>8 DEF Next

-----------------------------------------------------------------------------
(* The theorems *)

\* Every state has the inductive invariant: whatever ikcp_send, ikcp_flush,
\* ikcp_recv and ikcp_setmtu do, in whatever order.
THEOREM Invariant == Spec => []PackInv
<1>1. Init => PackInv
  BY InitKeeps, PackAssumption
<1>2. PackInv /\ [Next]_vars => PackInv'
  BY NextKeeps, PackAssumption
<1> QED
  BY <1>1, <1>2, PTL DEF Spec

\* The types, with the bound on frg that ikcp_send's check of the number of
\* fragments gives.
THEOREM TypeCorrect == Spec => []TypeOK
<1>1. PackInv => TypeOK
  BY DEF PackInv
<1> QED
  BY <1>1, Invariant, PTL

\* The bytes on their way from ikcp_send to ikcp_recv are those accepted and
\* not read, in order, whatever the lengths, MTUs and failed allocations.
THEOREM BytesComeInOrder == Spec => []BytesInOrder
<1>1. ASSUME PackInv PROVE BytesInOrder
  <2>1. TypeOK /\ Covers(Pipeline, Len(Pipeline), Bytes(reads), accepted)
    BY <1>1 DEF PackInv
  <2>2. PICK p \in Seq(Segment), n \in Nat : p = Pipeline /\ n = Len(p) /\ DOMAIN p = 1..n
    <3>1. Pipeline \in Seq(Segment)
      BY <2>1, ConcatProperties DEF TypeOK, Pipeline
    <3> QED
      BY <3>1, LenProperties
  <2>3. PICK a \in Nat, b \in Nat : a = Bytes(reads) /\ b = accepted
    BY <2>1, BytesReads DEF TypeOK, Read
  <2>4. Covers(p, n, a, b)
    BY <2>1, <2>2, <2>3
  <2>5. \A s \in Segment : s.len \in Nat /\ s.from \in Nat
    BY DEF Segment
  <2>6. a + Bytes(p) = b
    BY <2>2, <2>4, <2>5, CoversBytes
  <2>7. ASSUME NEW i \in 1..n PROVE p[i].from = a + Bytes(SubSeq(p, 1, i - 1))
    <3>1. PICK k \in 0..n : k = i - 1 /\ k \in Nat
      OBVIOUS
    <3>2. Parts(Segment, p, n, k)
      BY <2>2, SplitAt, Zenon
    <3>3. PICK t \in Seq(Segment), u \in Seq(Segment) : t = SubSeq(p, 1, k) /\ u = SubSeq(p, k + 1, n)
      BY <3>2, Zenon DEF Parts
    <3>4. /\ Len(t) = k /\ \A j \in 1..k : t[j] = p[j]
          /\ \A j \in 1 .. n - k : u[j] = p[k + j]
      BY <3>2, <3>3 DEF Parts
    <3>5. PICK c : Between(p, t, u, n, k, a, b, c)
      BY <2>4, <3>4, CoversSplit, Zenon
    <3>6. a + Bytes(t) = c
      BY <2>5, <3>1, <3>4, <3>5, CoversBytes DEF Between
    <3>7. p[i].from = c
      <4>1. CASE k = 0
        BY <2>4, <3>1, <3>5, <4>1 DEF Between, Covers
      <4>2. CASE k > 0
        <5>1. k \in 1 .. n - 1 /\ k + 1 = i
          BY <3>1, <4>2
        <5> QED
          BY <2>4, <3>5, <4>2, <5>1 DEF Between, Covers
      <4> QED
        BY <3>1, <4>1, <4>2
    <3> QED
      BY <3>1, <3>3, <3>6, <3>7
  <2> QED
    BY <2>2, <2>3, <2>6, <2>7 DEF BytesInOrder
<1> QED
  BY <1>1, Invariant, PTL

\* What is read is what was reported as sent: message by message in message
\* mode, unless an allocation has failed, and never more than the buffer holds.
THEOREM ReadsAreMessages == Spec => []ReadsAreSends
<1>1. PackInv => ReadsAreSends
  BY DEF PackInv
<1> QED
  BY <1>1, Invariant, PTL

\* Stream mode fills the segments that wait.
THEOREM StreamFills == Spec => []StreamFillsSegments
<1>1. PackInv => StreamFillsSegments
  BY DEF PackInv
<1> QED
  BY <1>1, Invariant, PTL


-----------------------------------------------------------------------------
(* Datagrams *)

\* What a flush gives to ikcp_output is packed as it should be and lies in the
\* buffer.
LEMMA FlushWell ==
  ASSUME PackAssumption, PackInv, NEW control \in Nat, NEW n \in Nat, NEW resend,
         Flush(control, n, resend)
  PROVE  /\ out' \in Seq(Seq(Nat)) /\ PackedWell(out', Max(mtus))
         /\ \A i \in DOMAIN out' : Total(out'[i]) <= (mtu + OVERHEAD) * 3
         /\ mtu' = mtu /\ mtus' = mtus
<1>1. TypeOK /\ UnitsKept /\ buffer = BufferFor(mtu)
  BY DEF PackInv
<1>2. /\ out' = Packed(Needs(control, n, resend)) /\ n <= Len(snd_queue)
      /\ InBuffer(Packed(Needs(control, n, resend)))
      /\ mtu' = mtu /\ mtus' = mtus
  BY DEF Flush, unitVars
<1>3. out' \in Seq(Seq(Nat)) /\ PackedWell(out', Max(mtus))
  BY <1>1, <1>2, NeedsWell
<1>4. \A i \in DOMAIN out' : Total(out'[i]) <= (mtu + OVERHEAD) * 3
  BY <1>1, <1>2 DEF InBuffer, BufferFor
<1> QED
  BY <1>2, <1>3, <1>4

\* What a step gives to ikcp_output: nothing, unless it is a flush.
LEMMA StepWell ==
  ASSUME PackAssumption, PackInv, Next
  PROVE  \/ out' = <<>>
         \/ /\ out' \in Seq(Seq(Nat)) /\ PackedWell(out', Max(mtus))
            /\ \A i \in DOMAIN out' : Total(out'[i]) <= (mtu + OVERHEAD) * 3
            /\ mtu' = mtu /\ mtus' = mtus
<1>1. CASE \E control \in 0..MaxAcks, n \in 0..Len(snd_queue),
              resend \in SUBSET DOMAIN snd_buf : Flush(control, n, resend)
  <2>1. PICK control \in 0..MaxAcks, n \in 0..Len(snd_queue),
             resend \in SUBSET DOMAIN snd_buf : Flush(control, n, resend)
    BY <1>1
  <2>2. control \in Nat /\ n \in Nat
    OBVIOUS
  <2> QED
    BY <2>1, <2>2, FlushWell
<1>2. CASE \E len \in Lens : Send(len)
  BY <1>2 DEF Send
<1>3. CASE \E len \in Lens, k \in 0 .. WND_RCV - 2 : SendFails(len, k)
  BY <1>3 DEF SendFails
<1>4. CASE \E k \in 1..Len(snd_buf) : Arrive(k)
  BY <1>4 DEF Arrive
<1>5. CASE \E size \in Buffers : Recv(size)
  BY <1>5 DEF Recv
<1>6. CASE \E m \in Mtus : SetMtu(m)
  BY <1>6 DEF SetMtu
<1>7. CASE \E control \in 0..MaxAcks, n \in 0..Len(snd_queue),
              resend \in SUBSET DOMAIN snd_buf : FlushOverruns(control, n, resend)
  BY <1>7 DEF FlushOverruns
<1> QED
  BY <1>1, <1>2, <1>3, <1>4, <1>5, <1>6, <1>7 DEF Next

\* No datagram is longer than the MTU, but for single segments cut for a greater
\* one that the buffer still holds: also after ikcp_setmtu.
THEOREM DatagramsFit == Spec => OutputFitsMtu
<1> DEFINE Fits == \A i \in DOMAIN out' :
                     \/ Total(out'[i]) <= mtu'
                     \/ /\ Len(out'[i]) = 1 /\ Total(out'[i]) <= Max(mtus')
                        /\ Total(out'[i]) <= (mtu' + OVERHEAD) * 3
<1>1. ASSUME PackInv, Next PROVE Fits
  <2>1. CASE out' = <<>>
    <3>1. DOMAIN <<>> = {}
      OBVIOUS
    <3> QED
      BY <2>1, <3>1
  <2>2. CASE /\ out' \in Seq(Seq(Nat)) /\ PackedWell(out', Max(mtus))
             /\ \A i \in DOMAIN out' : Total(out'[i]) <= (mtu + OVERHEAD) * 3
             /\ mtu' = mtu /\ mtus' = mtus
    <3>1. DOMAIN out' = 1..Len(out')
      BY <2>2, LenProperties
    <3> QED
      BY <2>2, <3>1 DEF PackedWell
  <2> QED
    BY <1>1, <2>1, <2>2, StepWell, PackAssumption
<1>2. PackInv /\ [Next]_vars => [Fits]_out
  BY <1>1 DEF vars
<1> QED
  BY <1>2, Invariant, PTL DEF Spec, OutputFitsMtu

\* ikcp_flush stays within the buffer as long as the MTU is never lowered to less
\* than about a third of the greatest there has been.
THEOREM BufferIsHeld == Spec => []BufferHolds
<1>1. PackInv => BufferHolds
  BY DEF PackInv
<1> QED
  BY <1>1, Invariant, PTL

\* ikcp_flush leaves no room: no two datagrams in a row could have been one.
THEOREM DatagramsAreFull == Spec => PackedFull
<1> DEFINE Full == \A i \in 1 .. Len(out') - 1 :
                     Total(out'[i]) + Head(out'[i + 1]) > mtu'
<1>1. ASSUME PackInv, Next PROVE Full
  <2>1. CASE out' = <<>>
    <3>1. Len(<<>>) = 0
      OBVIOUS
    <3> QED
      BY <2>1, <3>1
  <2>2. CASE /\ out' \in Seq(Seq(Nat)) /\ PackedWell(out', Max(mtus))
             /\ mtu' = mtu /\ mtus' = mtus
    BY <2>2 DEF PackedWell
  <2> QED
    BY <1>1, <2>1, <2>2, StepWell, PackAssumption
<1>2. PackInv /\ [Next]_vars => [Full]_out
  BY <1>1 DEF vars
<1> QED
  BY <1>2, Invariant, PTL DEF Spec, PackedFull

=============================================================================
