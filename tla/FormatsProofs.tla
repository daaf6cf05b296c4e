---------------------------- MODULE FormatsProofs ---------------------------
(***************************************************************************)
(* Proofs about Chunks, for every mss and every length, and about KcpWire, *)
(* for every size of a byte, every header and every datagram.              *)
(***************************************************************************)
EXTENDS MCFormats, TLAPS, SequenceTheorems, FiniteSetTheorems,
        WellFoundedInduction

-----------------------------------------------------------------------------
(* Numbers *)

\* A set of natural numbers has a least element.
LEMMA Least ==
  ASSUME NEW T \in SUBSET Nat, T # {}
  PROVE  \E m \in T : \A x \in T : m <= x
<1>1. PICK m \in T : \A x \in T : <<x, m>> \notin OpToRel(<, Nat)
  BY NatLessThanWellFounded, WFMin, Zenon
<1>2. \A x \in T : ~(x < m)
  BY <1>1, Zenon DEF OpToRel
<1>3. \A x \in T : m <= x
  BY <1>2
<1> QED
  BY <1>3

\* Induction over the numbers up to n, for those of a set.
LEMMA UpTo ==
  ASSUME NEW n \in Nat, NEW S, 0 \in S, \A k \in 1..n : k - 1 \in S => k \in S
  PROVE  \A k \in 0..n : k \in S
<1> DEFINE Bad == {k \in 0..n : k \notin S}
<1>1. ASSUME Bad # {} PROVE FALSE
  <2>1. Bad \in SUBSET Nat
    OBVIOUS
  <2>2. PICK m \in Bad : \A x \in Bad : m <= x
    BY <1>1, <2>1, Least, Zenon
  <2>3. m \in 1..n
    OBVIOUS
  <2>4. m - 1 \in 0..n /\ ~(m <= m - 1)
    BY <2>3
  <2>5. m - 1 \in S
    BY <2>2, <2>4
  <2> QED
    BY <2>3, <2>5
<1> QED
  BY <1>1

-----------------------------------------------------------------------------
(* How a file is cut *)

\* What is less than k times m makes fewer than k units of m, rounded up.
LEMMA QuotientBelow ==
  ASSUME NEW x \in Int, NEW m \in Nat \ {0}, NEW k \in Nat, x < m * k
  PROVE  x \div m < k
<1> DEFINE q == x \div m
           r == x % m
<1>1. q \in Int /\ r \in 0 .. m - 1 /\ x = m * q + r
  OBVIOUS
<1>2. SUFFICES ASSUME q >= k PROVE FALSE
  BY <1>1
<1>3. PICK d \in Nat : q = k + d
  <2>1. q - k \in Nat /\ q = k + (q - k)
    BY <1>1, <1>2
  <2> QED BY <2>1
<1> HIDE DEF q, r
<1>4. m * q = m * k + m * d /\ m * d >= 0
  BY <1>3
<1> QED BY <1>1, <1>4

\* A packet of at most Single bytes has fewer fragments than the limit.
LEMMA SmallEnough ==
  ASSUME NEW m \in Nat \ {0}, NEW size \in Int, size <= Single(m)
  PROVE  FragmentCount(m, size) < WND_RCV
<1>1. size + m - 1 < m * FRG_MAX
  <2>1. m * (FRG_MAX - 1) = m * FRG_MAX - m
    BY ChunkAssumption
  <2>2. m * FRG_MAX \in Int
    BY ChunkAssumption
  <2> QED BY <2>1, <2>2, ChunkAssumption DEF Single
<1>2. (size + m - 1) \div m < FRG_MAX
  BY <1>1, QuotientBelow, ChunkAssumption
<1>3. (size + m - 1) \div m \in Int
  OBVIOUS
<1> QED BY <1>2, <1>3, ChunkAssumption DEF FragmentCount

\* No chunk is longer than Mult, whatever the number of chunks.
LEMMA ChunkLength ==
  ASSUME NEW m \in Nat \ {0}, NEW n \in Nat, NEW i \in 1..MulCount(m, n)
  PROVE  LET s == Stretches(m, n)[i]
         IN s.from \in Int /\ s.to \in Int /\ s.to - s.from <= Mult(m)
<1> DEFINE M == Mult(m)
           s == Stretches(m, n)[i]
<1> SUFFICES s.from \in Int /\ s.to \in Int /\ s.to - s.from <= M
  OBVIOUS
<1>1. M \in Int
  BY ChunkAssumption DEF Mult, Single
<1>2. s = [from |-> (i - 1) * M, to |-> IF i * M <= n THEN i * M ELSE n]
  BY DEF Stretches
<1>3. i \in Int
  OBVIOUS
<1> HIDE DEF M, s
<1>4. (i - 1) * M = i * M - M /\ i * M \in Int
  BY <1>1, <1>3
<1>5. CASE i * M <= n
  BY <1>1, <1>2, <1>4, <1>5
<1>6. CASE ~(i * M <= n)
  BY <1>1, <1>2, <1>4, <1>6
<1> QED BY <1>5, <1>6

\* Every packet that _sendBytes makes of a text or file is accepted by
\* ikcp_send, for every mss and length.
THEOREM PacketsFit ==
  ASSUME NEW m \in Nat \ {0}, NEW n \in Nat
  PROVE  FitsSend(m, n)
<1> SUFFICES ASSUME NEW size \in SendSizes(m, n)
             PROVE  FragmentCount(m, size) < WND_RCV
  BY DEF FitsSend
<1>1. Single(m) \in Int /\ Mult(m) = Single(m) - 1
  BY ChunkAssumption DEF Single, Mult
<1>2. CASE Chunked(m, n)
  <2>1. PICK i \in 1..MulCount(m, n + 1) :
          size = Stretches(m, n + 1)[i].to - Stretches(m, n + 1)[i].from + 1
    BY <1>2 DEF SendSizes
  <2>2. size \in Int /\ size <= Single(m)
    BY <1>1, <2>1, ChunkLength
  <2> QED BY <2>2, SmallEnough
<1>3. CASE ~Chunked(m, n)
  <2>1. size \in Int /\ size <= Single(m)
    BY <1>1, <1>3 DEF SendSizes, Chunked
  <2> QED BY <2>1, SmallEnough
<1> QED BY <1>2, <1>3

\* The arguments of Chunks in a state of the run
ArgsTyped == mss \in Nat \ {0} /\ len \in Nat

LEMMA ArgsInvariant == Spec => []ArgsTyped
<1>1. Init => ArgsTyped
  BY FormatsAssumption DEF Init, ArgsTyped
<1>2. ArgsTyped /\ [Next]_vars => ArgsTyped'
  <2>1. SUFFICES ASSUME ArgsTyped, [Next]_vars PROVE ArgsTyped'
    OBVIOUS
  <2>2. CASE Longer
    BY <2>1, <2>2 DEF Longer, ArgsTyped
  <2>3. CASE UNCHANGED chunkVars
    BY <2>1, <2>3 DEF chunkVars, ArgsTyped
  <2>4. Longer \/ UNCHANGED chunkVars
    <3>1. ASSUME NEW cmd, NEW frg, NEW wnd, NEW ts, NEW sn, NEW una, NEW n,
                 Write(cmd, frg, wnd, ts, sn, una, n)
          PROVE  UNCHANGED chunkVars
      BY <3>1 DEF Write, chunkVars
    <3>2. CASE Next
      BY <3>1, <3>2 DEF Next
    <3>3. CASE UNCHANGED vars
      BY <3>3 DEF vars, chunkVars
    <3> QED BY <2>1, <3>2, <3>3
  <2> QED BY <2>2, <2>3, <2>4
<1> QED BY <1>1, <1>2, PTL DEF Spec

\* The same, of the states that the run goes through.
THEOREM ChunksAlwaysFit == Spec => []ChunksFitSend
<1>1. ArgsTyped => ChunksFitSend
  BY PacketsFit DEF ChunksFitSend, ArgsTyped
<1> QED BY ArgsInvariant, <1>1, PTL

-----------------------------------------------------------------------------
(* Powers of two *)

\* 2 to the k counts the sets of numbers up to k.
LEMMA PowerCounts ==
  ASSUME NEW k \in Nat
  PROVE  /\ IsFiniteSet(SUBSET (1..k)) /\ Cardinality(SUBSET (1..k)) = 2 ^ k
         /\ 2 ^ k \in Nat /\ 2 ^ k >= 1
<1>1. IsFiniteSet(1..k) /\ Cardinality(1..k) = k
  BY FS_Interval
<1>2. IsFiniteSet(SUBSET (1..k)) /\ Cardinality(SUBSET (1..k)) = 2 ^ k
  BY <1>1, FS_SUBSET
<1>3. PICK c \in Nat : c = Cardinality(SUBSET (1..k))
  BY <1>2, FS_CardinalityType
<1>4. c # 0
  <2>1. SUBSET (1..k) # {}
    OBVIOUS
  <2> QED
    BY <1>2, <1>3, <2>1, FS_EmptySet, Zenon
<1>5. c >= 1
  BY <1>4
<1> QED
  BY <1>2, <1>3, <1>5, Zenon

LEMMA PowerNext ==
  ASSUME NEW k \in Nat
  PROVE  2 ^ (k + 1) = 2 * 2 ^ k
<1> DEFINE A == SUBSET (1..k)
           e == k + 1
           B == {x \cup {e} : x \in A}
           f == [x \in A |-> x \cup {e}]
<1>1. e \in Nat /\ e \notin 1..k /\ 1..e = (1..k) \cup {e}
  OBVIOUS
<1> HIDE DEF e
<1>2. f \in Bijection(A, B)
  <2>1. \A x \in A : e \notin x
    BY <1>1
  <2>2. ASSUME NEW x \in A, NEW y \in A, x \cup {e} = y \cup {e} PROVE x = y
    BY <2>1, <2>2, Zenon
  <2> QED
    BY <2>2, Zenon DEF Bijection, Injection, Surjection, IsInjective
<1>3. SUBSET (1..e) = A \cup B
  <2>1. ASSUME NEW z \in SUBSET (1..e) PROVE z \in A \cup B
    <3>1. CASE e \in z
      <4>1. z \ {e} \in A /\ z = (z \ {e}) \cup {e}
        BY <1>1, <3>1, Zenon
      <4> QED
        BY <4>1, Zenon
    <3>2. CASE e \notin z
      BY <1>1, <3>2, Zenon
    <3> QED
      BY <3>1, <3>2
  <2>2. ASSUME NEW z \in A \cup B PROVE z \in SUBSET (1..e)
    BY <1>1, Zenon
  <2> QED
    BY <2>1, <2>2, Zenon
<1>4. A \cap B = {}
  <2>1. \A x \in A : e \notin x
    BY <1>1
  <2>2. \A x \in B : e \in x
    BY Zenon
  <2> QED
    BY <2>1, <2>2, Zenon
<1>5. IsFiniteSet(A) /\ Cardinality(A) = 2 ^ k /\ 2 ^ k \in Nat
  BY PowerCounts, Zenon
<1> HIDE DEF A, B, f
<1>6. IsFiniteSet(B) /\ Cardinality(B) = 2 ^ k
  <2>1. ExistsBijection(A, B)
    BY <1>2, Zenon DEF ExistsBijection
  <2> QED
    BY <1>5, <2>1, FS_Bijection, Zenon
<1>7. Cardinality(A \cup B) = Cardinality(A) + Cardinality(B) - Cardinality({})
  <2>1. Cardinality(A \cup B) = Cardinality(A) + Cardinality(B) - Cardinality(A \cap B)
    BY <1>5, <1>6, FS_Union
  <2> QED
    BY <1>4, <2>1, Zenon
<1>8. Cardinality({}) = 0
  BY FS_EmptySet, Zenon
<1>9. Cardinality(SUBSET (1..e)) = 2 ^ e
  BY <1>1, PowerCounts, Zenon
<1>10. PICK c \in Nat : c = 2 ^ k
  BY <1>5
<1>11. 2 ^ e = c + c - 0
  BY <1>3, <1>5, <1>6, <1>7, <1>8, <1>9, <1>10, Zenon
<1>12. c + c - 0 = 2 * c
  OBVIOUS
<1> QED
  BY <1>10, <1>11, <1>12, Zenon DEF e

LEMMA PowerSum ==
  ASSUME NEW a \in Nat, NEW b \in Nat
  PROVE  2 ^ (a + b) = 2 ^ a * 2 ^ b
<1> DEFINE S == {k \in 0..b : 2 ^ (a + k) = 2 ^ a * 2 ^ k}
<1>1. 0 \in S
  <2>1. a + 0 = a /\ 2 ^ 0 = 1 /\ 0 \in 0..b
    OBVIOUS
  <2>2. PICK c \in Nat : c = 2 ^ a
    BY PowerCounts, Zenon
  <2>3. c = c * 1
    OBVIOUS
  <2> QED
    BY <2>1, <2>2, <2>3, Zenon
<1>2. ASSUME NEW k \in 1..b, k - 1 \in S PROVE k \in S
  <2>1. PICK j \in Nat : j = k - 1
    OBVIOUS
  <2>2. k = j + 1 /\ a + k = (a + j) + 1 /\ a + j \in Nat /\ k \in 0..b
    BY <2>1
  <2>3. PICK x \in Nat, y \in Nat : x = 2 ^ a /\ y = 2 ^ j
    BY PowerCounts, Zenon
  <2>4. 2 ^ (a + j) = x * y
    BY <1>2, <2>1, <2>3, Zenon
  <2>5. 2 ^ k = 2 * y
    BY <2>2, <2>3, PowerNext, Zenon
  <2>6. 2 ^ (a + k) = 2 * (x * y)
    BY <2>2, <2>4, PowerNext, Zenon
  <2>7. 2 * (x * y) = x * (2 * y)
    OBVIOUS
  <2> QED
    BY <2>2, <2>3, <2>5, <2>6, <2>7, Zenon
<1>3. b \in S
  <2> HIDE DEF S
  <2>1. b \in 0..b
    OBVIOUS
  <2> QED
    BY <1>1, <1>2, <2>1, UpTo, Zenon
<1> QED
  BY <1>3, Zenon

LEMMA PowerGrows ==
  ASSUME NEW a \in Nat, NEW b \in Nat, a <= b
  PROVE  2 ^ a <= 2 ^ b
<1>1. PICK c \in Nat : b = a + c
  <2>1. b - a \in Nat /\ b = a + (b - a)
    OBVIOUS
  <2> QED
    BY <2>1
<1>2. PICK x \in Nat, y \in Nat : x = 2 ^ a /\ y = 2 ^ c /\ y >= 1
  BY PowerCounts, Zenon
<1>3. 2 ^ b = x * y
  BY <1>1, <1>2, PowerSum, Zenon
<1>4. x <= x * y
  <2>1. PICK z \in Nat : y = 1 + z
    <3>1. y - 1 \in Nat /\ y = 1 + (y - 1)
      BY <1>2
    <3> QED
      BY <3>1
  <2>2. x * y = x + x * z /\ x * z >= 0
    BY <2>1
  <2> QED
    BY <2>2
<1> QED
  BY <1>2, <1>3, <1>4, Zenon

-----------------------------------------------------------------------------
(* The ceiling of a rounded quotient *)

\* c is the least number of units of d that hold n.
CeilingOf(c, n, d) == c \in Nat /\ n <= c * d /\ (c - 1) * d < n

\* A quotient and a remainder are the only ones.
LEMMA Quotient ==
  ASSUME NEW d \in Nat \ {0}, NEW q \in Int, NEW r \in 0 .. d - 1, NEW n \in Int,
         n = d * q + r
  PROVE  n \div d = q /\ n % d = r
<1> DEFINE p == n \div d
           s == n % d
<1>1. p \in Int /\ s \in 0 .. d - 1 /\ n = d * p + s
  OBVIOUS
<1> HIDE DEF p, s
<1>2. PICK x \in Int : p = q + x
  <2>1. p - q \in Int /\ p = q + (p - q)
    BY <1>1
  <2> QED
    BY <2>1
<1>3. d * p = d * q + d * x /\ d * x \in Int /\ d * q \in Int
  BY <1>2
<1>4. d * x = r - s
  BY <1>1, <1>3
<1>5. x = 0
  <2>1. ASSUME x >= 1 PROVE FALSE
    <3>1. d * x >= d
      BY <2>1
    <3> QED
      BY <1>1, <1>4, <3>1
  <2>2. ASSUME -x >= 1 PROVE FALSE
    <3>1. d * (-x) >= d /\ d * (-x) = -(d * x)
      BY <2>2
    <3> QED
      BY <1>1, <1>3, <1>4, <3>1
  <2> QED
    BY <2>1, <2>2
<1>6. p = q /\ s = r
  BY <1>1, <1>2, <1>4, <1>5
<1> QED
  BY <1>6 DEF p, s

\* x is w and something up to scale, nothing if r is 0 and only then.
RoundsTo(x, w, r, scale) == \E e \in 0..scale : x = w + e /\ (e = 0 <=> r = 0)

\* n * scale / d to the nearest integer, where n is d * q + r: not below
\* q * scale, and not q * scale itself unless r is 0.
LEMMA NearestOf ==
  ASSUME NEW d \in Nat \ {0}, NEW scale \in Nat \ {0}, d < 2 * scale,
         NEW q \in Nat, NEW r \in 0 .. d - 1, NEW n \in Nat, n = d * q + r
  PROVE  RoundsTo(Nearest(n * scale, d), q * scale, r, scale)
<1>1. PICK q2 \in Nat, r2 \in 0 .. d - 1 : r * scale = d * q2 + r2
  <2> DEFINE x == r * scale
             y == x \div d
             z == x % d
  <2>1. x \in Nat
    OBVIOUS
  <2> HIDE DEF x
  <2>2. y \in Int /\ z \in 0 .. d - 1 /\ x = d * y + z
    BY <2>1
  <2> HIDE DEF y, z
  <2>3. ASSUME -y >= 1 PROVE FALSE
    <3>1. d * (-y) >= d /\ d * (-y) = -(d * y) /\ d * y \in Int
      BY <2>2, <2>3
    <3> QED
      BY <2>1, <2>2, <3>1
  <2> QED
    BY <2>2, <2>3 DEF x
<1>2. n * scale = d * (q * scale + q2) + r2
  <2>1. n * scale = (d * q) * scale + r * scale
    OBVIOUS
  <2>2. PICK w \in Nat : w = q * scale
    OBVIOUS
  <2>3. (d * q) * scale = d * w
    BY <2>2
  <2>4. d * (w + q2) = d * w + d * q2 /\ d * w \in Nat /\ d * q2 \in Nat
    BY <2>2
  <2> QED
    BY <1>1, <2>1, <2>2, <2>3, <2>4
<1>3. PICK w \in Nat, big \in Nat : w = q * scale /\ big = n * scale
  OBVIOUS
<1>4. big \div d = w + q2 /\ big % d = r2
  <2>1. PICK u \in Int : u = w + q2
    OBVIOUS
  <2>2. big = d * u + r2
    BY <1>2, <1>3, <2>1, Zenon
  <2>3. big \div d = u /\ big % d = r2
    BY <2>2, Quotient
  <2> QED
    BY <2>1, <2>3, Zenon
<1>5. Nearest(big, d) = IF 2 * r2 > d \/ (2 * r2 = d /\ (w + q2) % 2 = 1)
                        THEN (w + q2) + 1 ELSE w + q2
  BY <1>4, Zenon DEF Nearest
<1>6. CASE r = 0
  <2>1. r * scale = 0
    BY <1>6
  <2>2. q2 = 0 /\ r2 = 0
    <3>1. ASSUME q2 >= 1 PROVE FALSE
      <4>1. d * q2 >= d
        BY <3>1
      <4> QED
        BY <1>1, <2>1, <4>1
    <3>2. q2 = 0
      BY <3>1
    <3> QED
      BY <1>1, <2>1, <3>2
  <2>3. Nearest(big, d) = w + 0
    BY <1>5, <2>2
  <2>4. 0 \in 0..scale
    OBVIOUS
  <2> QED
    BY <1>3, <1>6, <2>3, <2>4, Zenon DEF RoundsTo
<1>7. CASE r # 0
  <2>1. q2 < scale
    <3>1. r * scale < d * scale
      <4>1. PICK x \in Nat : d = r + (x + 1)
        <5>1. d - r - 1 \in Nat /\ d = r + ((d - r - 1) + 1)
          OBVIOUS
        <5> QED
          BY <5>1
      <4>2. d * scale = r * scale + x * scale + scale /\ x * scale >= 0
        BY <4>1
      <4>3. r * scale \in Nat /\ x * scale \in Nat
        BY <4>1
      <4> QED
        BY <4>2, <4>3
    <3>2. ASSUME q2 >= scale PROVE FALSE
      <4>1. PICK x \in Nat : q2 = scale + x
        <5>1. q2 - scale \in Nat /\ q2 = scale + (q2 - scale)
          BY <3>2
        <5> QED
          BY <5>1
      <4>2. d * q2 = d * scale + d * x /\ d * x >= 0 /\ d * scale \in Nat /\ d * x \in Nat
        BY <4>1
      <4> QED
        BY <1>1, <3>1, <4>2
    <3> QED
      BY <3>2
  <2>2. r * scale >= scale
    BY <1>7
  <2>3. q2 = 0 => 2 * r2 > d
    <3>1. ASSUME q2 = 0 PROVE 2 * r2 > d
      <4>1. r * scale = r2
        BY <1>1, <3>1
      <4> QED
        BY <2>2, <4>1
    <3> QED
      BY <3>1
  <2>4. \E e \in 0..scale : Nearest(big, d) = w + e /\ e # 0
    <3>1. CASE Nearest(big, d) = (w + q2) + 1
      <4>1. (w + q2) + 1 = w + (q2 + 1) /\ q2 + 1 \in 0..scale /\ q2 + 1 # 0
        BY <2>1
      <4> QED
        BY <3>1, <4>1, Zenon
    <3>2. CASE Nearest(big, d) # (w + q2) + 1
      <4>1. Nearest(big, d) = w + q2 /\ ~(2 * r2 > d)
        BY <1>5, <3>2, Zenon
      <4>2. q2 \in 0..scale /\ q2 # 0
        BY <2>1, <2>3, <4>1
      <4> QED
        BY <4>1, <4>2, Zenon
    <3> QED
      BY <3>1, <3>2
  <2> QED
    BY <1>3, <1>7, <2>4, Zenon DEF RoundsTo
<1> QED
  BY <1>6, <1>7

\* The ceiling of what was rounded is that of the quotient.
LEMMA RoundedCeiling ==
  ASSUME NEW d \in Nat \ {0}, NEW scale \in Nat \ {0}, d < 2 * scale,
         NEW q \in Nat, NEW r \in 0 .. d - 1, NEW n \in Nat, n = d * q + r
  PROVE  CeilingOf((Nearest(n * scale, d) + scale - 1) \div scale, n, d)
<1>1. PICK e \in 0..scale : Nearest(n * scale, d) = q * scale + e /\ (e = 0 <=> r = 0)
  <2>1. RoundsTo(Nearest(n * scale, d), q * scale, r, scale)
    BY NearestOf
  <2> QED
    BY <2>1, Zenon DEF RoundsTo
<1>2. PICK w \in Nat : w = scale * q /\ w = q * scale
  OBVIOUS
<1>3. CASE r = 0
  <2>1. Nearest(n * scale, d) + scale - 1 = scale * q + (scale - 1)
    BY <1>1, <1>2, <1>3
  <2>2. (Nearest(n * scale, d) + scale - 1) \div scale = q
    <3>1. scale - 1 \in 0 .. scale - 1 /\ scale * q + (scale - 1) \in Int /\ q \in Int
      BY <1>2
    <3> QED
      BY <2>1, <3>1, Quotient
  <2>3. n <= q * d /\ (q - 1) * d < n
    <3>1. PICK x \in Nat : x = d * q
      OBVIOUS
    <3>2. q * d = x /\ (q - 1) * d = x - d
      BY <3>1
    <3> QED
      BY <1>3, <3>1, <3>2
  <2> QED
    BY <2>2, <2>3, Zenon DEF CeilingOf
<1>4. CASE r # 0
  <2>1. e \in 1..scale
    BY <1>1, <1>4
  <2>2. scale * (q + 1) = w + scale
    BY <1>2
  <2>3. Nearest(n * scale, d) + scale - 1 = scale * (q + 1) + (e - 1)
    BY <1>1, <1>2, <2>1, <2>2
  <2>4. (Nearest(n * scale, d) + scale - 1) \div scale = q + 1
    <3>1. PICK p \in Int, f \in 0 .. scale - 1 : p = q + 1 /\ f = e - 1
      BY <2>1
    <3>2. PICK v \in Int : v = scale * p + f
      OBVIOUS
    <3>3. Nearest(n * scale, d) + scale - 1 = v
      BY <2>3, <3>1, <3>2, Zenon
    <3>4. v \div scale = p
      BY <3>2, Quotient
    <3> QED
      BY <3>1, <3>3, <3>4, Zenon
  <2>5. n <= (q + 1) * d /\ ((q + 1) - 1) * d < n
    <3>1. PICK x \in Nat : x = d * q
      OBVIOUS
    <3>2. (q + 1) * d = x + d /\ ((q + 1) - 1) * d = x
      BY <3>1
    <3> QED
      BY <1>4, <3>1, <3>2
  <2>6. q + 1 \in Nat
    OBVIOUS
  <2> QED
    BY <2>4, <2>5, <2>6, Zenon DEF CeilingOf
<1> QED
  BY <1>3, <1>4

-----------------------------------------------------------------------------
(* The chunks of a file make up the file *)

\* What Bits says of a number below 2 to the Mantissa.
LEMMA BitsOf ==
  ASSUME NEW k \in Nat, k < 2 ^ Mantissa
  PROVE  /\ Bits(k) \in 0..Mantissa /\ k < 2 ^ Bits(k)
         /\ Bits(k) = 0 \/ 2 ^ (Bits(k) - 1) <= k
<1> DEFINE S == {b \in 0 .. Mantissa + 4 : 2 ^ b > k}
<1>1. Mantissa \in S
  <2>1. Mantissa \in 0 .. Mantissa + 4
    BY ChunkAssumption
  <2>2. PICK x \in Nat : x = 2 ^ Mantissa
    BY PowerCounts, ChunkAssumption
  <2>3. x > k
    BY <2>2
  <2> QED
    BY <2>1, <2>2, <2>3, Zenon
<1>2. S \in SUBSET Nat
  BY ChunkAssumption
<1>3. PICK m \in S : \A x \in S : m <= x
  <2> HIDE DEF S
  <2> QED
    BY <1>1, <1>2, Least, Zenon
<1>4. Bits(k) = CHOOSE x \in S : \A y \in S : x <= y
  BY DEF Bits, Min
<1> DEFINE b == Bits(k)
<1>5. b \in S /\ \A x \in S : b <= x
  BY <1>3, <1>4, Zenon
<1> HIDE DEF b
<1>6. b \in 0..Mantissa
  <2>1. b <= Mantissa /\ b \in 0 .. Mantissa + 4
    BY <1>1, <1>5, Zenon
  <2> QED
    BY <2>1, ChunkAssumption
<1>7. k < 2 ^ b
  <2>1. PICK x \in Nat : x = 2 ^ b
    <3>1. b \in Nat
      BY <1>6, ChunkAssumption
    <3> QED
      BY <3>1, PowerCounts, Zenon
  <2>2. x > k
    BY <1>5, <2>1, Zenon
  <2>3. k < x
    BY <2>2
  <2> QED
    BY <2>1, <2>3, Zenon
<1>8. ASSUME b # 0 PROVE 2 ^ (b - 1) <= k
  <2>1. PICK a \in Nat : a = b - 1 /\ a \in 0 .. Mantissa + 4 /\ ~(b <= a)
    BY <1>6, <1>8, ChunkAssumption
  <2>2. PICK x \in Nat : x = 2 ^ a
    BY PowerCounts, Zenon
  <2>3. ~(x > k)
    BY <1>5, <2>1, <2>2, Zenon
  <2>4. x <= k
    BY <2>3
  <2> QED
    BY <2>1, <2>2, <2>4, Zenon
<1> QED
  BY <1>6, <1>7, <1>8, Zenon DEF b

\* As long as a float counts single bytes, the number of packets is the ceiling
\* of the quotient: what the rounding of the quotient takes or adds never
\* crosses a whole number.
LEMMA CountIsCeiling ==
  ASSUME NEW d \in Nat \ {0}, NEW n \in Nat, d <= n, n < 2 ^ Mantissa
  PROVE  CeilingOf(FloatCeiling(Float(n), d), n, d)
<1>1. Float(n) = n
  BY BitsOf DEF Float
<1>2. PICK q \in Int, r \in 0 .. d - 1 : q = n \div d /\ n = d * q + r
  OBVIOUS
<1>3. q \in Nat /\ q >= 1 /\ q <= n
  <2>1. ASSUME -q >= 0 PROVE FALSE
    <3>1. d * (-q) >= 0 /\ d * (-q) = -(d * q) /\ d * q \in Int
      BY <1>2, <2>1
    <3> QED
      BY <1>2, <3>1
  <2>2. q \in Nat /\ q >= 1
    BY <2>1
  <2>3. q <= d * q
    <3>1. PICK x \in Nat : d = x + 1
      <4>1. d - 1 \in Nat /\ d = (d - 1) + 1
        OBVIOUS
      <4> QED
        BY <4>1
    <3>2. d * q = x * q + q /\ x * q >= 0 /\ x * q \in Nat
      BY <2>2, <3>1
    <3> QED
      BY <2>2, <3>2
  <2> QED
    BY <1>2, <2>2, <2>3
<1>4. PICK top \in Nat : top = 2 ^ Mantissa /\ n < top
  BY PowerCounts, ChunkAssumption
<1>5. q < 2 ^ Mantissa
  BY <1>3, <1>4
<1>6. PICK b \in 0..Mantissa : b = Bits(q) /\ q < 2 ^ b /\ (b = 0 \/ 2 ^ (b - 1) <= q)
  BY <1>3, <1>5, BitsOf
<1>7. PICK a \in Nat, c \in Nat : b = a + 1 /\ c = Mantissa - b /\ Mantissa = a + (c + 1)
  <2>1. b # 0
    <3>1. b = 0 => 2 ^ b = 1
      OBVIOUS
    <3> QED
      BY <1>3, <1>6, <3>1
  <2>2. b - 1 \in Nat /\ Mantissa - b \in Nat /\ b = (b - 1) + 1
        /\ Mantissa = (b - 1) + ((Mantissa - b) + 1)
    BY <2>1, ChunkAssumption
  <2> QED
    BY <2>2, Zenon
<1>8. PICK low \in Nat, scale \in Nat \ {0} : low = 2 ^ a /\ scale = 2 ^ c
  <2>1. 2 ^ a \in Nat /\ 2 ^ c \in Nat /\ 2 ^ c >= 1
    BY PowerCounts, Zenon
  <2>2. PICK x \in Nat : x = 2 ^ c /\ x >= 1
    BY <2>1, Zenon
  <2>3. x \in Nat \ {0}
    BY <2>2
  <2> QED
    BY <2>1, <2>2, <2>3, Zenon
<1>9. top = low * (2 * scale)
  <2>1. PICK e \in Nat : e = c + 1
    OBVIOUS
  <2>2. 2 ^ Mantissa = 2 ^ a * 2 ^ (c + 1)
    <3>1. 2 ^ (a + e) = 2 ^ a * 2 ^ e
      BY PowerSum
    <3> QED
      BY <1>7, <2>1, <3>1, Zenon
  <2>3. 2 ^ (c + 1) = 2 * 2 ^ c
    BY PowerNext, Zenon
  <2> QED
    BY <1>4, <1>8, <2>2, <2>3, Zenon
<1>10. low <= q
  <2>1. b - 1 = a /\ b # 0
    BY <1>7
  <2> QED
    BY <1>6, <1>8, <2>1, Zenon
<1>11. d < 2 * scale
  <2>1. SUFFICES ASSUME 2 * scale <= d PROVE FALSE
    OBVIOUS
  <2>2. PICK x \in Nat, y \in Nat, s \in Nat :
          q = low + x /\ s = 2 * scale /\ d = s + y
    <3>1. q - low \in Nat /\ q = low + (q - low)
      BY <1>3, <1>10
    <3>2. 2 * scale \in Nat /\ d - 2 * scale \in Nat /\ d = 2 * scale + (d - 2 * scale)
      BY <2>1
    <3> QED
      BY <3>1, <3>2, Zenon
  <2>3. d * q = s * low + y * low + d * x /\ y * low >= 0 /\ d * x >= 0
        /\ y * low \in Nat /\ d * x \in Nat /\ s * low \in Nat
    BY <2>2
  <2>4. s * low = top
    BY <1>9, <2>2
  <2> QED
    BY <1>2, <1>4, <2>3, <2>4
<1>12. FloatCeiling(n, d) = (Nearest(n * scale, d) + scale - 1) \div scale
  BY <1>2, <1>6, <1>7, <1>8, Zenon DEF FloatCeiling
<1>13. CeilingOf((Nearest(n * scale, d) + scale - 1) \div scale, n, d)
  BY <1>2, <1>3, <1>11, RoundedCeiling
<1> QED
  BY <1>1, <1>12, <1>13, Zenon

\* Every file up to that length is covered: its packets start at 0, follow one
\* another, end with its last byte and none is empty, for every mss.
THEOREM PacketsCover ==
  ASSUME NEW m \in Nat \ {0}, NEW n \in Nat, n + 1 < 2 ^ Mantissa
  PROVE  CoversPacket(m, n)
<1> SUFFICES ASSUME Chunked(m, n) PROVE CoversPacket(m, n)
  BY Zenon DEF CoversPacket
<1> DEFINE size == n + 1
           d == Mult(m)
           k == MulCount(m, size)
           st == Stretches(m, size)
<1>1. d \in Nat \ {0} /\ d <= size /\ size \in Nat
  <2>1. PICK f \in Nat : FRG_MAX - 1 = f + 5
    <3>1. FRG_MAX - 6 \in Nat /\ FRG_MAX - 1 = (FRG_MAX - 6) + 5
      BY ChunkAssumption
    <3> QED
      BY <3>1
  <2>2. m * (f + 5) = m * f + m * 5 /\ m * f \in Nat
    OBVIOUS
  <2>3. Single(m) = m * f + m * 5 - 1 /\ d = m * f + m * 5 - 2
    BY <2>1, <2>2 DEF Single, Mult
  <2>4. n >= Single(m)
    BY Zenon DEF Chunked
  <2> QED
    BY <2>2, <2>3, <2>4
<1>2. CeilingOf(k, size, d)
  <2> HIDE DEF d, size
  <2>1. size < 2 ^ Mantissa
    BY DEF size
  <2> QED
    BY <1>1, <2>1, CountIsCeiling, Zenon DEF MulCount, d
<1> HIDE DEF d, k, size
<1>3. k \in Nat /\ size <= k * d /\ (k - 1) * d < size
  BY <1>2, Zenon DEF CeilingOf
<1>4. k > 0
  <2>1. k = 0 => k * d = 0
    BY <1>1
  <2> QED
    BY <1>1, <1>3, <2>1
<1>5. \A i \in 1..k : /\ st[i].from = (i - 1) * d
                     /\ st[i].to = IF i * d <= size THEN i * d ELSE size
  <2>1. st = [i \in 1..k |-> [from |-> (i - 1) * d,
                             to |-> IF i * d <= size THEN i * d ELSE size]]
    BY Zenon DEF Stretches, d, k
  <2> HIDE DEF st
  <2> QED
    BY <2>1, Zenon
<1> HIDE DEF st
<1>6. st[1].from = 0
  <2>1. 1 \in 1..k /\ (1 - 1) * d = 0
    BY <1>1, <1>3, <1>4
  <2> QED
    BY <1>5, <2>1, Zenon
<1>7. st[k].to = size
  <2>1. k \in 1..k /\ k * d \in Nat
    BY <1>1, <1>3, <1>4
  <2>2. st[k].to = IF k * d <= size THEN k * d ELSE size
    BY <1>5, <2>1, Zenon
  <2> QED
    BY <1>1, <1>3, <2>1, <2>2
<1>8. ASSUME NEW i \in 1 .. k - 1 PROVE st[i].to = st[i + 1].from
  <2>1. i \in 1..k /\ i + 1 \in 1..k /\ (i + 1) - 1 = i
    BY <1>3
  <2>2. i * d <= (k - 1) * d
    <3>1. PICK x \in Nat : k - 1 = i + x
      <4>1. k - 1 - i \in Nat /\ k - 1 = i + (k - 1 - i)
        BY <1>3
      <4> QED
        BY <4>1
    <3>2. (i + x) * d = i * d + x * d /\ x * d >= 0 /\ i * d \in Nat /\ x * d \in Nat
      BY <1>1
    <3> QED
      BY <3>1, <3>2
  <2>3. PICK x \in Nat, y \in Int : x = i * d /\ y = (k - 1) * d
    BY <1>1, <1>3
  <2>4. i * d <= size
    BY <1>1, <1>3, <2>2, <2>3
  <2>5. st[i].to = i * d
    BY <1>5, <2>1, <2>4, Zenon
  <2>6. st[i + 1].from = i * d
    BY <1>5, <2>1, Zenon
  <2> QED
    BY <2>5, <2>6, Zenon
<1>9. ASSUME NEW i \in 1..k PROVE st[i].from < st[i].to
  <2>1. PICK x \in Nat, y \in Nat : i = y + 1 /\ k - 1 = y + x
    <3>1. i - 1 \in Nat /\ k - i \in Nat /\ i = (i - 1) + 1 /\ k - 1 = (i - 1) + (k - i)
      BY <1>3
    <3> QED
      BY <3>1
  <2>2. /\ (y + x) * d = y * d + x * d /\ (y + 1) * d = y * d + d
        /\ x * d >= 0 /\ y * d \in Nat /\ x * d \in Nat
    BY <1>1
  <2>3. PICK u \in Nat, v \in Nat : u = y * d /\ v = x * d
    BY <2>2
  <2>4. u < size /\ u < u + d
    BY <1>1, <1>3, <2>1, <2>2, <2>3
  <2>5. i - 1 = y /\ i * d = u + d
    BY <2>1, <2>2, <2>3
  <2>6. st[i].from = u /\ st[i].to = IF u + d <= size THEN u + d ELSE size
    BY <1>5, <2>3, <2>5, Zenon
  <2> QED
    BY <2>4, <2>6, Zenon
<1> QED
  BY <1>4, <1>6, <1>7, <1>8, <1>9, Zenon DEF CoversPacket, st, k, size

\* The same, of the states that the run goes through.
THEOREM ChunksAlwaysCover == Spec => []ChunksCoverFile
<1>1. ArgsTyped => ChunksCoverFile
  BY PacketsCover DEF ChunksCoverFile, ArgsTyped
<1> QED BY ArgsInvariant, <1>1, PTL

-----------------------------------------------------------------------------
(* The header of a segment *)

Bytes == 0 .. Byte - 1

\* A number is its last byte and what is left of it.
LEMMA LastByte ==
  ASSUME NEW l \in Nat
  PROVE  /\ Shift(l) \in Nat /\ l % Byte \in Bytes
         /\ l = (l % Byte) + Byte * Shift(l)
<1> DEFINE q == l \div Byte
           r == l % Byte
<1>1. q \in Int /\ r \in 0 .. Byte - 1 /\ l = Byte * q + r
  BY WireAssumption
<1> HIDE DEF q, r
<1>2. q >= 0
  <2>1. SUFFICES ASSUME -q >= 1 PROVE FALSE
    BY <1>1
  <2>2. Byte * (-q) >= Byte /\ Byte * (-q) = -(Byte * q) /\ Byte * q \in Int
    BY <1>1, <2>1, WireAssumption
  <2> QED BY <1>1, <2>2, WireAssumption
<1>3. q \in Nat /\ r \in Bytes /\ l = r + Byte * q
  BY <1>1, <1>2, WireAssumption DEF Bytes
<1>4. q = Shift(l) /\ r = l % Byte
  BY Zenon DEF q, r, Shift
<1> QED BY <1>3, <1>4, Zenon

\* A number of one byte more loses it.
LEMMA ShiftBelow ==
  ASSUME NEW l \in Nat, NEW n \in Nat, l < Byte * n
  PROVE  Shift(l) < n
<1>1. PICK q \in Nat, r \in Bytes : q = Shift(l) /\ l = r + Byte * q
  BY LastByte, Zenon
<1>2. SUFFICES ASSUME q >= n PROVE FALSE
  BY <1>1
<1>3. PICK d \in Nat : q = n + d
  <2>1. q - n \in Nat /\ q = n + (q - n)
    BY <1>1, <1>2
  <2> QED BY <2>1
<1>4. Byte * q = Byte * n + Byte * d /\ Byte * d >= 0
  BY <1>3, WireAssumption
<1>5. r \in Nat
  BY WireAssumption DEF Bytes
<1> QED BY <1>1, <1>4, <1>5, WireAssumption

LEMMA OneByte ==
  ASSUME NEW l \in Nat, l < Byte
  PROVE  l % Byte = l
BY WireAssumption

\* Numbers of 32 bits: four bytes, the number again when put together.
LEMMA FourBytes ==
  ASSUME NEW l \in 0 .. Range32 - 1
  PROVE  /\ Encode32(l) \in Seq(Bytes) /\ Len(Encode32(l)) = 4
         /\ Decode32(Encode32(l), 1) = l
<1> DEFINE B2 == Byte * Byte
           B3 == Byte * B2
<1>1. B2 \in Nat /\ B3 \in Nat /\ Range32 = Byte * B3
  BY WireAssumption DEF Range32, Range16
<1>2. Shift(l) \in Nat /\ Shift(l) < B3
  <2>1. l \in Nat /\ l < Byte * B3
    BY <1>1
  <2> QED BY <2>1, <1>1, LastByte, ShiftBelow
<1>3. Shift(Shift(l)) \in Nat /\ Shift(Shift(l)) < B2
  BY <1>1, <1>2, LastByte, ShiftBelow
<1>4. Shift(Shift(Shift(l))) \in Nat /\ Shift(Shift(Shift(l))) < Byte
  BY <1>3, LastByte, ShiftBelow, WireAssumption
<1>5. /\ l = (l % Byte) + Byte * Shift(l)
      /\ Shift(l) = (Shift(l) % Byte) + Byte * Shift(Shift(l))
      /\ Shift(Shift(l)) = (Shift(Shift(l)) % Byte) + Byte * Shift(Shift(Shift(l)))
      /\ Shift(Shift(Shift(l))) % Byte = Shift(Shift(Shift(l)))
      /\ {l % Byte, Shift(l) % Byte, Shift(Shift(l)) % Byte} \subseteq Bytes
      /\ Shift(Shift(Shift(l))) \in Bytes
  <2>1. l \in Nat
    OBVIOUS
  <2>2. Shift(Shift(Shift(l))) % Byte = Shift(Shift(Shift(l)))
    BY <1>4, OneByte
  <2>3. Shift(Shift(Shift(l))) \in Bytes
    BY <1>4, WireAssumption DEF Bytes
  <2> QED BY <1>2, <1>3, <2>1, <2>2, <2>3, LastByte
<1> HIDE DEF B2, B3
<1>6. Encode32(l) = <<l % Byte, Shift(l) % Byte, Shift(Shift(l)) % Byte,
                      Shift(Shift(Shift(l)))>>
  BY <1>5 DEF Encode32
<1>7. Decode32(Encode32(l), 1) = l
  <2>1. Decode32(Encode32(l), 1)
          = (l % Byte) + Byte * ((Shift(l) % Byte) + Byte * ((Shift(Shift(l)) % Byte)
              + Byte * Shift(Shift(Shift(l)))))
    BY <1>6 DEF Decode32
  <2> QED BY <2>1, <1>5
<1> QED BY <1>5, <1>6, <1>7

\* Numbers cut to 16 bits: two bytes.
LEMMA TwoBytes ==
  ASSUME NEW w \in Nat
  PROVE  /\ Encode16(w) \in Seq(Bytes) /\ Len(Encode16(w)) = 2
         /\ Decode16(Encode16(w), 1) = w % Range16
<1> DEFINE c == w % Range16
<1>1. Range16 \in Nat \ {0}
  BY WireAssumption DEF Range16
<1>2. c \in Nat /\ c < Byte * Byte
  BY <1>1 DEF Range16
<1> HIDE DEF c
<1>3. Shift(c) \in Bytes /\ c = (c % Byte) + Byte * Shift(c) /\ c % Byte \in Bytes
  <2>1. Shift(c) < Byte /\ Shift(c) \in Nat
    BY <1>2, LastByte, ShiftBelow, WireAssumption
  <2>2. c = (c % Byte) + Byte * Shift(c) /\ c % Byte \in Bytes
    BY <1>2, LastByte, Zenon
  <2> QED BY <2>1, <2>2, WireAssumption DEF Bytes
<1>4. Encode16(w) = <<c % Byte, Shift(c)>>
  BY DEF Encode16, c
<1>5. Decode16(Encode16(w), 1) = c
  BY <1>3, <1>4 DEF Decode16
<1> QED BY <1>3, <1>4, <1>5 DEF c

LEMMA Concat ==
  ASSUME NEW s \in Seq(Bytes), NEW t \in Seq(Bytes)
  PROVE  /\ s \o t \in Seq(Bytes) /\ Len(s \o t) = Len(s) + Len(t)
         /\ \A i \in 1..Len(s) : (s \o t)[i] = s[i]
         /\ \A i \in 1..Len(t) : (s \o t)[Len(s) + i] = t[i]
<1>1. Len(s) \in Nat /\ Len(t) \in Nat
  OBVIOUS
<1> QED BY <1>1, ConcatProperties

\* h is s, of m bytes, with f, of n bytes, behind it.
IsConcat(h, s, m, f, n) ==
  /\ h \in Seq(Bytes) /\ Len(h) = m + n
  /\ \A i \in 1..m : h[i] = s[i]
  /\ \A i \in m + 1 .. m + n : h[i] = f[i - m]

LEMMA Field ==
  ASSUME NEW s \in Seq(Bytes), NEW f \in Seq(Bytes), NEW m \in Nat, NEW n \in Nat,
         Len(s) = m, Len(f) = n
  PROVE  IsConcat(s \o f, s, m, f, n)
<1>1. /\ s \o f \in Seq(Bytes) /\ Len(s \o f) = m + n
      /\ \A i \in 1..m : (s \o f)[i] = s[i]
      /\ \A i \in 1..n : (s \o f)[m + i] = f[i]
  BY Concat
<1>2. ASSUME NEW i \in m + 1 .. m + n PROVE (s \o f)[i] = f[i - m]
  <2>1. i - m \in 1..n /\ m + (i - m) = i
    OBVIOUS
  <2> QED BY <1>1, <2>1
<1> QED BY <1>1, <1>2 DEF IsConcat

\* The n bytes of f are in h, behind the first m.
At(h, m, f, n) == \A i \in m + 1 .. m + n : h[i] = f[i - m]

\* h is the eight fields one behind the other.
Laid(h, f1, f2, f3, f4, f5, f6, f7, f8) ==
  /\ h \in Seq(Bytes) /\ Len(h) = 24
  /\ At(h, 0, f1, 4)
  /\ h[5] = f2[1] /\ h[6] = f3[1] /\ h[7] = f4[1] /\ h[8] = f4[2]
  /\ At(h, 8, f5, 4)
  /\ At(h, 12, f6, 4)
  /\ At(h, 16, f7, 4)
  /\ At(h, 20, f8, 4)

LEMMA Fields ==
  ASSUME NEW f1 \in Seq(Bytes), NEW f2 \in Seq(Bytes), NEW f3 \in Seq(Bytes),
         NEW f4 \in Seq(Bytes), NEW f5 \in Seq(Bytes), NEW f6 \in Seq(Bytes),
         NEW f7 \in Seq(Bytes), NEW f8 \in Seq(Bytes),
         Len(f1) = 4, Len(f2) = 1, Len(f3) = 1, Len(f4) = 2,
         Len(f5) = 4, Len(f6) = 4, Len(f7) = 4, Len(f8) = 4
  PROVE  Laid(f1 \o f2 \o f3 \o f4 \o f5 \o f6 \o f7 \o f8,
              f1, f2, f3, f4, f5, f6, f7, f8)
<1> DEFINE h2 == f1 \o f2
           h3 == h2 \o f3
           h4 == h3 \o f4
           h5 == h4 \o f5
           h6 == h5 \o f6
           h7 == h6 \o f7
           h8 == h7 \o f8
<1> HIDE DEF h2, h3, h4, h5, h6, h7, h8
<1>0. 1 \in Nat /\ 2 \in Nat /\ 4 \in Nat /\ 5 \in Nat /\ 6 \in Nat /\ 8 \in Nat
      /\ 12 \in Nat /\ 16 \in Nat /\ 20 \in Nat
  OBVIOUS
<1>2. IsConcat(h2, f1, 4, f2, 1) /\ h2 \in Seq(Bytes) /\ Len(h2) = 5
  <2>1. IsConcat(h2, f1, 4, f2, 1)
    BY <1>0, Field, Zenon DEF h2
  <2> QED BY <2>1 DEF IsConcat
<1>3. IsConcat(h3, h2, 5, f3, 1) /\ h3 \in Seq(Bytes) /\ Len(h3) = 6
  <2>1. IsConcat(h3, h2, 5, f3, 1)
    BY <1>0, <1>2, Field, Zenon DEF h3
  <2> QED BY <2>1 DEF IsConcat
<1>4. IsConcat(h4, h3, 6, f4, 2) /\ h4 \in Seq(Bytes) /\ Len(h4) = 8
  <2>1. IsConcat(h4, h3, 6, f4, 2)
    BY <1>0, <1>3, Field, Zenon DEF h4
  <2> QED BY <2>1 DEF IsConcat
<1>5. IsConcat(h5, h4, 8, f5, 4) /\ h5 \in Seq(Bytes) /\ Len(h5) = 12
  <2>1. IsConcat(h5, h4, 8, f5, 4)
    BY <1>0, <1>4, Field, Zenon DEF h5
  <2> QED BY <2>1 DEF IsConcat
<1>6. IsConcat(h6, h5, 12, f6, 4) /\ h6 \in Seq(Bytes) /\ Len(h6) = 16
  <2>1. IsConcat(h6, h5, 12, f6, 4)
    BY <1>0, <1>5, Field, Zenon DEF h6
  <2> QED BY <2>1 DEF IsConcat
<1>7. IsConcat(h7, h6, 16, f7, 4) /\ h7 \in Seq(Bytes) /\ Len(h7) = 20
  <2>1. IsConcat(h7, h6, 16, f7, 4)
    BY <1>0, <1>6, Field, Zenon DEF h7
  <2> QED BY <2>1 DEF IsConcat
<1>8. IsConcat(h8, h7, 20, f8, 4) /\ h8 \in Seq(Bytes) /\ Len(h8) = 24
  <2>1. IsConcat(h8, h7, 20, f8, 4)
    BY <1>0, <1>7, Field, Zenon DEF h8
  <2> QED BY <2>1 DEF IsConcat
<1>9. Laid(h8, f1, f2, f3, f4, f5, f6, f7, f8)
  BY <1>2, <1>3, <1>4, <1>5, <1>6, <1>7, <1>8 DEF IsConcat, Laid, At
<1>10. h8 = f1 \o f2 \o f3 \o f4 \o f5 \o f6 \o f7 \o f8
  BY Zenon DEF h2, h3, h4, h5, h6, h7, h8
<1> QED BY <1>9, <1>10, Zenon

\* Bytes between others are found at their place.
LEMMA Between ==
  ASSUME NEW p \in Seq(Bytes), NEW h \in Seq(Bytes), NEW q \in Seq(Bytes),
         NEW n \in Nat, Len(h) = n
  PROVE  \A i \in Len(p) + 1 .. Len(p) + n : ((p \o h) \o q)[i] = h[i - Len(p)]
<1> DEFINE k == Len(p)
           s == p \o h
           all == s \o q
<1>1. k \in Nat /\ Len(q) \in Nat
  OBVIOUS
<1>2. IsConcat(s, p, k, h, n)
  BY <1>1, Field, Zenon
<1>3. s \in Seq(Bytes) /\ Len(s) = k + n /\ k + n \in Nat
  BY <1>1, <1>2 DEF IsConcat
<1>4. IsConcat(all, s, k + n, q, Len(q))
  <2> HIDE DEF s
  <2> QED BY <1>1, <1>3, Field, Zenon
<1> HIDE DEF k, s, all
<1>5. \A i \in k + 1 .. k + n : all[i] = h[i - k]
  BY <1>1, <1>2, <1>4 DEF IsConcat
<1> QED BY <1>5 DEF k, s, all

\* The same bytes make the same number.
LEMMA Same32 ==
  ASSUME NEW a, NEW f, NEW m \in Nat, \A i \in m + 1 .. m + 4 : a[i] = f[i - m]
  PROVE  Decode32(a, m + 1) = Decode32(f, 1)
<1>1. a[m + 1] = f[1] /\ a[m + 2] = f[2] /\ a[m + 3] = f[3] /\ a[m + 4] = f[4]
  <2>1. /\ m + 1 \in m + 1 .. m + 4 /\ (m + 1) - m = 1
        /\ m + 2 \in m + 1 .. m + 4 /\ (m + 2) - m = 2
        /\ m + 3 \in m + 1 .. m + 4 /\ (m + 3) - m = 3
        /\ m + 4 \in m + 1 .. m + 4 /\ (m + 4) - m = 4
    OBVIOUS
  <2> QED BY <2>1, Zenon
<1>2. /\ (m + 1) + 1 = m + 2 /\ (m + 1) + 2 = m + 3 /\ (m + 1) + 3 = m + 4
      /\ 1 + 1 = 2 /\ 1 + 2 = 3 /\ 1 + 3 = 4
  OBVIOUS
<1> QED BY <1>1, <1>2, Zenon DEF Decode32

\* A number is read from the header as from its field.
LEMMA InHeader ==
  ASSUME NEW all, NEW h, NEW f, NEW k \in Nat, NEW m \in 0..20,
         At(all, k, h, 24), At(h, m, f, 4)
  PROVE  Decode32(all, (k + m) + 1) = Decode32(f, 1)
<1>1. ASSUME NEW i \in (k + m) + 1 .. (k + m) + 4 PROVE all[i] = f[i - (k + m)]
  <2>1. i \in k + 1 .. k + 24 /\ i - k \in m + 1 .. m + 4 /\ (i - k) - m = i - (k + m)
    OBVIOUS
  <2>2. all[i] = h[i - k] /\ h[i - k] = f[(i - k) - m]
    BY <2>1, Zenon DEF At
  <2> QED BY <2>1, <2>2, Zenon
<1>2. k + m \in Nat
  OBVIOUS
<1> QED BY <1>1, <1>2, Same32, Zenon

\* The header is its fields, least byte first, one behind the other.
LEMMA HeaderLaid ==
  ASSUME NEW seg \in Header
  PROVE  /\ EncodeSeg(seg) \in Seq(Bytes) /\ Len(EncodeSeg(seg)) = 24
         /\ \E f1, f2, f3, f4, f5, f6, f7, f8 :
              /\ Laid(EncodeSeg(seg), f1, f2, f3, f4, f5, f6, f7, f8)
              /\ Decode32(f1, 1) = seg.conv /\ f2[1] = seg.cmd /\ f3[1] = seg.frg
              /\ Decode16(f4, 1) = seg.wnd % Range16 /\ Decode32(f5, 1) = seg.ts
              /\ Decode32(f6, 1) = seg.sn /\ Decode32(f7, 1) = seg.una
              /\ Decode32(f8, 1) = seg.len
<1> DEFINE f1 == Encode32(seg.conv)
           f2 == Encode8(seg.cmd)
           f3 == Encode8(seg.frg)
           f4 == Encode16(seg.wnd)
           f5 == Encode32(seg.ts)
           f6 == Encode32(seg.sn)
           f7 == Encode32(seg.una)
           f8 == Encode32(seg.len)
           h == EncodeSeg(seg)
<1>1. /\ seg.conv \in 0 .. Range32 - 1 /\ seg.ts \in 0 .. Range32 - 1
      /\ seg.sn \in 0 .. Range32 - 1 /\ seg.una \in 0 .. Range32 - 1
      /\ seg.len \in 0 .. Range32 - 1
      /\ seg.cmd \in Cmds /\ seg.frg \in 0 .. Byte - 1 /\ seg.wnd \in Nat
  BY Zenon DEF Header
<1>2. /\ f1 \in Seq(Bytes) /\ Len(f1) = 4 /\ Decode32(f1, 1) = seg.conv
      /\ f5 \in Seq(Bytes) /\ Len(f5) = 4 /\ Decode32(f5, 1) = seg.ts
      /\ f6 \in Seq(Bytes) /\ Len(f6) = 4 /\ Decode32(f6, 1) = seg.sn
      /\ f7 \in Seq(Bytes) /\ Len(f7) = 4 /\ Decode32(f7, 1) = seg.una
      /\ f8 \in Seq(Bytes) /\ Len(f8) = 4 /\ Decode32(f8, 1) = seg.len
  BY <1>1, FourBytes, Zenon
<1>3. /\ f2 \in Seq(Bytes) /\ Len(f2) = 1 /\ f2[1] = seg.cmd
      /\ f3 \in Seq(Bytes) /\ Len(f3) = 1 /\ f3[1] = seg.frg
  <2>1. seg.cmd \in Bytes /\ seg.frg \in Bytes
    BY <1>1, WireAssumption DEF Bytes
  <2>2. ASSUME NEW c \in Bytes
        PROVE  Encode8(c) \in Seq(Bytes) /\ Len(Encode8(c)) = 1 /\ Encode8(c)[1] = c
    <3>1. c \in Nat /\ c < Byte
      BY WireAssumption DEF Bytes
    <3>2. c % Byte = c
      BY <3>1, OneByte, Zenon
    <3> QED BY <3>2 DEF Encode8
  <2> QED BY <2>1, <2>2, Zenon
<1>4. f4 \in Seq(Bytes) /\ Len(f4) = 2 /\ Decode16(f4, 1) = seg.wnd % Range16
  BY <1>1, TwoBytes, Zenon
<1> HIDE DEF f1, f2, f3, f4, f5, f6, f7, f8, h
<1>5. h = f1 \o f2 \o f3 \o f4 \o f5 \o f6 \o f7 \o f8
  BY Zenon DEF EncodeSeg, f1, f2, f3, f4, f5, f6, f7, f8, h
<1>6. Laid(h, f1, f2, f3, f4, f5, f6, f7, f8) /\ h \in Seq(Bytes) /\ Len(h) = 24
  <2>1. Laid(h, f1, f2, f3, f4, f5, f6, f7, f8)
    BY <1>2, <1>3, <1>4, <1>5, Fields, Zenon
  <2> QED BY <2>1 DEF Laid
<1> QED
  BY <1>2, <1>3, <1>4, <1>6, Zenon DEF h

\* Whatever stands before and behind a header, ikcp_input reads from it what
\* ikcp_encode_seg was given, the window cut to 16 bits.
THEOREM HeaderReadsBack ==
  ASSUME NEW seg \in Header, NEW p \in Seq(Bytes), NEW q \in Seq(Bytes)
  PROVE  DecodeSeg((p \o EncodeSeg(seg)) \o q, Len(p)) = OnWire(seg)
<1> DEFINE h == EncodeSeg(seg)
           all == (p \o h) \o q
           k == Len(p)
<1>1. PICK f1, f2, f3, f4, f5, f6, f7, f8 :
        /\ Laid(h, f1, f2, f3, f4, f5, f6, f7, f8)
        /\ Decode32(f1, 1) = seg.conv /\ f2[1] = seg.cmd /\ f3[1] = seg.frg
        /\ Decode16(f4, 1) = seg.wnd % Range16 /\ Decode32(f5, 1) = seg.ts
        /\ Decode32(f6, 1) = seg.sn /\ Decode32(f7, 1) = seg.una
        /\ Decode32(f8, 1) = seg.len
  BY HeaderLaid, Zenon
<1>2. h \in Seq(Bytes) /\ Len(h) = 24
  BY HeaderLaid, Zenon
<1> HIDE DEF h
<1>3. k \in Nat
  OBVIOUS
<1>4. At(all, k, h, 24)
  <2>1. 24 \in Nat
    OBVIOUS
  <2> QED BY <1>2, <2>1, Between, ZenonT(40) DEF At
<1> HIDE DEF all, k
<1>5. /\ Decode32(all, k + 1) = Decode32(f1, 1) /\ Decode32(all, k + 9) = Decode32(f5, 1)
      /\ Decode32(all, k + 13) = Decode32(f6, 1)
      /\ Decode32(all, k + 17) = Decode32(f7, 1)
      /\ Decode32(all, k + 21) = Decode32(f8, 1)
  <2>1. /\ At(h, 0, f1, 4) /\ At(h, 8, f5, 4) /\ At(h, 12, f6, 4)
        /\ At(h, 16, f7, 4) /\ At(h, 20, f8, 4)
    BY <1>1, Zenon DEF Laid
  <2>2. Decode32(all, k + 1) = Decode32(f1, 1)
    <3>1. (k + 0) + 1 = k + 1 /\ 0 \in 0..20
      BY <1>3
    <3>2. Decode32(all, (k + 0) + 1) = Decode32(f1, 1)
      BY <1>3, <1>4, <2>1, <3>1, InHeader, Zenon
    <3> QED BY <3>1, <3>2, Zenon
  <2>3. Decode32(all, k + 9) = Decode32(f5, 1)
    <3>1. (k + 8) + 1 = k + 9 /\ 8 \in 0..20
      BY <1>3
    <3>2. Decode32(all, (k + 8) + 1) = Decode32(f5, 1)
      BY <1>3, <1>4, <2>1, <3>1, InHeader, Zenon
    <3> QED BY <3>1, <3>2, Zenon
  <2>4. Decode32(all, k + 13) = Decode32(f6, 1)
    <3>1. (k + 12) + 1 = k + 13 /\ 12 \in 0..20
      BY <1>3
    <3>2. Decode32(all, (k + 12) + 1) = Decode32(f6, 1)
      BY <1>3, <1>4, <2>1, <3>1, InHeader, Zenon
    <3> QED BY <3>1, <3>2, Zenon
  <2>5. Decode32(all, k + 17) = Decode32(f7, 1)
    <3>1. (k + 16) + 1 = k + 17 /\ 16 \in 0..20
      BY <1>3
    <3>2. Decode32(all, (k + 16) + 1) = Decode32(f7, 1)
      BY <1>3, <1>4, <2>1, <3>1, InHeader, Zenon
    <3> QED BY <3>1, <3>2, Zenon
  <2>6. Decode32(all, k + 21) = Decode32(f8, 1)
    <3>1. (k + 20) + 1 = k + 21 /\ 20 \in 0..20
      BY <1>3
    <3>2. Decode32(all, (k + 20) + 1) = Decode32(f8, 1)
      BY <1>3, <1>4, <2>1, <3>1, InHeader, Zenon
    <3> QED BY <3>1, <3>2, Zenon
  <2> QED BY <2>2, <2>3, <2>4, <2>5, <2>6, Zenon
<1>6. /\ all[k + 5] = seg.cmd /\ all[k + 6] = seg.frg
       /\ Decode16(all, k + 7) = Decode16(f4, 1)
  <2>1. /\ k + 5 \in k + 1 .. k + 24 /\ (k + 5) - k = 5
        /\ k + 6 \in k + 1 .. k + 24 /\ (k + 6) - k = 6
        /\ k + 7 \in k + 1 .. k + 24 /\ (k + 7) - k = 7
        /\ k + 8 \in k + 1 .. k + 24 /\ (k + 8) - k = 8
        /\ (k + 7) + 1 = k + 8 /\ 1 + 1 = 2
    BY <1>3
  <2>2. all[k + 5] = h[5] /\ all[k + 6] = h[6] /\ all[k + 7] = h[7] /\ all[k + 8] = h[8]
    BY <1>4, <2>1, Zenon DEF At
  <2> QED BY <1>1, <2>1, <2>2, Zenon DEF Decode16, Laid
<1>7. DecodeSeg(all, k)
         = [conv |-> seg.conv, cmd |-> seg.cmd, frg |-> seg.frg,
            wnd |-> seg.wnd % Range16, ts |-> seg.ts, sn |-> seg.sn,
            una |-> seg.una, len |-> seg.len]
  BY <1>1, <1>5, <1>6, Zenon DEF DecodeSeg
<1>8. OnWire(seg)
         = [conv |-> seg.conv, cmd |-> seg.cmd, frg |-> seg.frg,
            wnd |-> seg.wnd % Range16, ts |-> seg.ts, sn |-> seg.sn,
            una |-> seg.una, len |-> seg.len]
  BY DEF OnWire, Header
<1> QED BY <1>7, <1>8, Zenon DEF all, k, h

-----------------------------------------------------------------------------
(* The loop of ikcp_input over a datagram *)

\* The step of the loop at the offset at: next is what the loop makes of the
\* rest, offset by offset.
TakenAt(c, p, next, at) ==
  LET seg == DecodeSeg(p, at)
  IN IF Len(p) - at < OVERHEAD THEN [segs |-> <<>>, ret |-> 0]
     ELSE IF Error(c, p, seg, at) # 0 THEN [segs |-> <<>>, ret |-> Error(c, p, seg, at)]
     ELSE [segs |-> <<[head |-> seg, data |-> SubSeq(p, at + OVERHEAD + 1,
                                                    Behind(seg, at))]>>
                      \o next[Behind(seg, at)].segs,
           ret |-> next[Behind(seg, at)].ret]

\* loop is right from the offset k on.
LoopsFrom(c, p, loop, k) == \A at \in k..Len(p) : loop[at] = TakenAt(c, p, loop, at)

\* A header read from bytes has a length, and if ikcp_input objects to nothing
\* the next header is behind it and not beyond the end.
LEMMA MovesOn ==
  ASSUME NEW c, NEW p \in Seq(Bytes), NEW n \in Nat, n = Len(p), NEW at \in 0..n,
         n - at >= OVERHEAD, NEW seg, seg = DecodeSeg(p, at), Error(c, p, seg, at) = 0
  PROVE  Behind(seg, at) \in at + 1 .. n
<1>1. seg.len = Decode32(p, at + 21)
  BY DEF DecodeSeg
<1>2. \A i \in 1..n : p[i] \in Nat
  <2>1. \A i \in 1..n : p[i] \in Bytes
    BY ElementOfSeq
  <2> QED
    BY <2>1, WireAssumption DEF Bytes
<1>3. /\ at + 21 \in 1..n /\ (at + 21) + 1 \in 1..n
      /\ (at + 21) + 2 \in 1..n /\ (at + 21) + 3 \in 1..n
  BY DEF OVERHEAD
<1>4. Decode32(p, at + 21) \in Nat
  <2>1. PICK a \in Nat, b \in Nat, d \in Nat, e \in Nat :
          /\ p[at + 21] = a /\ p[(at + 21) + 1] = b
          /\ p[(at + 21) + 2] = d /\ p[(at + 21) + 3] = e
    BY <1>2, <1>3
  <2>2. Decode32(p, at + 21) = a + Byte * (b + Byte * (d + Byte * e))
    BY <2>1, Zenon DEF Decode32
  <2>3. Byte \in Nat /\ \A x \in Nat, y \in Nat : x * y \in Nat /\ x + y \in Nat
    BY WireAssumption
  <2>4. a + Byte * (b + Byte * (d + Byte * e)) \in Nat
    BY <2>3, Zenon
  <2> QED
    BY <2>2, <2>4, Zenon
<1>5. Whole(p, seg, at)
  <2>1. -1 # 0 /\ -2 # 0 /\ -3 # 0
    OBVIOUS
  <2> QED
    BY <2>1, Zenon DEF Error
<1>6. PICK l \in Nat : l = seg.len
  BY <1>1, <1>4
<1>7. l <= n - at - OVERHEAD
  BY <1>5, <1>6, Zenon DEF Whole
<1>8. Behind(seg, at) = at + OVERHEAD + l
  BY <1>6, Zenon DEF Behind
<1> QED
  BY <1>7, <1>8 DEF OVERHEAD

\* What a step makes depends on what is behind it only.
LEMMA StepSame ==
  ASSUME NEW c, NEW p \in Seq(Bytes), NEW at \in 0..Len(p), NEW f, NEW g,
         \A i \in at + 1 .. Len(p) : f[i] = g[i]
  PROVE  TakenAt(c, p, f, at) = TakenAt(c, p, g, at)
<1> DEFINE seg == DecodeSeg(p, at)
           n == Len(p)
<1>1. n \in Nat
  BY LenProperties
<1>2. CASE n - at < OVERHEAD
  BY <1>2, Zenon DEF TakenAt
<1>3. CASE ~(n - at < OVERHEAD) /\ Error(c, p, seg, at) # 0
  BY <1>3, Zenon DEF TakenAt
<1>4. CASE ~(n - at < OVERHEAD) /\ Error(c, p, seg, at) = 0
  <2>1. n - at >= OVERHEAD /\ at \in 0..n
    BY <1>1, <1>4 DEF OVERHEAD
  <2>2. Behind(seg, at) \in at + 1 .. n
    <3> HIDE DEF seg, n
    <3> QED
      BY <1>1, <1>4, <2>1, MovesOn, Zenon DEF seg, n
  <2>3. f[Behind(seg, at)] = g[Behind(seg, at)]
    BY <2>2, Zenon
  <2> QED
    BY <1>4, <2>3, Zenon DEF TakenAt
<1> QED
  BY <1>2, <1>3, <1>4

\* There is a function that follows the loop from every offset.
LEMMA LoopExists ==
  ASSUME NEW c, NEW p \in Seq(Bytes), NEW n \in Nat, n = Len(p)
  PROVE  \E f : f = [at \in 0..n |-> TakenAt(c, p, f, at)]
<1> DEFINE Right(f, m) == f = [at \in 0..n |-> f[at]] /\ LoopsFrom(c, p, f, m)
           S == {k \in 0..n : \E f : Right(f, n - k)}
<1>1. 0 \in S
  <2> DEFINE f == [at \in 0..n |-> TakenAt(c, p, <<>>, at)]
  <2>1. n \in 0..n /\ n - 0 = n /\ 0 \in 0..n
    OBVIOUS
  <2>2. f = [at \in 0..n |-> f[at]]
    BY Zenon
  <2>3. f[n] = TakenAt(c, p, <<>>, n)
    BY <2>1, Zenon
  <2> HIDE DEF f
  <2>4. \A i \in n + 1 .. n : f[i] = <<>>[i]
    OBVIOUS
  <2>5. TakenAt(c, p, f, n) = TakenAt(c, p, <<>>, n)
    <3> DEFINE nothing == <<>>
               l == Len(p)
    <3>1. l \in 0..l /\ \A i \in l + 1 .. l : f[i] = nothing[i]
      BY <2>1, <2>4
    <3> HIDE DEF nothing
    <3>2. TakenAt(c, p, f, l) = TakenAt(c, p, nothing, l)
      BY <3>1, StepSame, Zenon
    <3> QED
      BY <3>2, Zenon DEF nothing
  <2>6. \A at \in n..n : at = n
    OBVIOUS
  <2>7. LoopsFrom(c, p, f, n)
    BY <2>3, <2>5, <2>6, Zenon DEF LoopsFrom
  <2> QED
    BY <2>1, <2>2, <2>7, Zenon
<1>2. ASSUME NEW k \in 1..n, k - 1 \in S PROVE k \in S
  <2> DEFINE m == n - k
  <2>1. m \in 0..n /\ n - (k - 1) = m + 1 /\ k \in 0..n
    OBVIOUS
  <2>2. PICK f : Right(f, n - (k - 1))
    BY <1>2, Zenon
  <2> DEFINE g == [at \in 0..n |-> IF at = m THEN TakenAt(c, p, f, m) ELSE f[at]]
  <2>3. g = [at \in 0..n |-> g[at]]
    BY Zenon
  <2>4. g[m] = TakenAt(c, p, f, m)
    BY <2>1, Zenon
  <2>5. \A at \in m + 1 .. n : at \in 0..n /\ at # m
    BY <2>1
  <2>6. \A at \in m + 1 .. n : g[at] = f[at]
    BY <2>5, Zenon
  <2> HIDE DEF g
  <2>7. \A at \in m..n : at \in 0..n /\ (\A i \in at + 1 .. n : i \in m + 1 .. n)
    BY <2>1
  <2>8. ASSUME NEW at \in m..n PROVE TakenAt(c, p, g, at) = TakenAt(c, p, f, at)
    <3>1. \A i \in at + 1 .. n : g[i] = f[i]
      BY <2>6, <2>7, Zenon
    <3> QED
      BY <2>7, <3>1, StepSame, Zenon
  <2>9. \A at \in m..n : at = m \/ at \in m + 1 .. n
    BY <2>1
  <2>10. ASSUME NEW at \in m..n PROVE g[at] = TakenAt(c, p, g, at)
    <3>1. CASE at = m
      BY <2>4, <2>8, <3>1, Zenon
    <3>2. CASE at \in m + 1 .. n
      <4>1. f[at] = TakenAt(c, p, f, at)
        BY <2>1, <2>2, <3>2, Zenon DEF LoopsFrom
      <4> QED
        BY <2>6, <2>8, <3>2, <4>1, Zenon
    <3> QED
      BY <2>9, <3>1, <3>2, Zenon
  <2>11. LoopsFrom(c, p, g, m)
    BY <2>10, Zenon DEF LoopsFrom
  <2> QED
    BY <2>1, <2>3, <2>11, Zenon
<1>3. n \in S
  <2> HIDE DEF S
  <2>1. n \in 0..n
    OBVIOUS
  <2> QED
    BY <1>1, <1>2, <2>1, UpTo, Zenon
<1>4. PICK f : Right(f, 0)
  <2>1. n - n = 0
    OBVIOUS
  <2> QED
    BY <1>3, <2>1, Zenon
<1> QED
  BY <1>4, Zenon DEF LoopsFrom

\* What ikcp_input takes of a datagram is what its loop makes of the offset 0.
LEMMA TakenByLoop ==
  ASSUME NEW c, NEW p \in Seq(Bytes), NEW n \in Nat, n = Len(p), n >= OVERHEAD
  PROVE  \E f : LoopsFrom(c, p, f, 0) /\ Taken(c, p) = f[0]
<1> DEFINE Follows(f) == f = [at \in 0..n |-> TakenAt(c, p, f, at)]
           loop == CHOOSE f : Follows(f)
<1>1. Follows(loop)
  BY LoopExists, Zenon
<1>2. Taken(c, p) = loop[0]
  <2>1. ~(n < OVERHEAD)
    BY DEF OVERHEAD
  <2> QED
    BY <2>1, Zenon DEF Taken, TakenAt
<1> HIDE DEF loop
<1>3. \A at \in 0..n : loop[at] = TakenAt(c, p, loop, at)
  BY <1>1, Zenon
<1> QED
  BY <1>2, <1>3, Zenon DEF LoopsFrom

-----------------------------------------------------------------------------
(* What stands in a datagram *)

\* The segment s, header and payload, stands in b behind the first i bytes and
\* ends with the first j.
SegAt(b, i, j, s) ==
  /\ i \in Nat /\ j \in Nat
  /\ j = i + OVERHEAD + s.head.len /\ j <= Len(b)
  /\ DecodeSeg(b, i) = OnWire(s.head)
  /\ SubSeq(b, i + OVERHEAD + 1, j) = s.data

\* a and b have the same header behind the first i bytes.
SameHeader(a, b, i) == \A x \in 1..24 : a[i + x] = b[i + x]

\* They have the same numbers there.
SameNumbers(a, b, i) == \A y \in 1..21 : Decode32(a, i + y) = Decode32(b, i + y)

LEMMA SameNumber ==
  ASSUME NEW a, NEW b, NEW i \in Nat, SameHeader(a, b, i)
  PROVE  SameNumbers(a, b, i)
<1> SUFFICES ASSUME NEW y \in 1..21 PROVE Decode32(a, i + y) = Decode32(b, i + y)
  BY Zenon DEF SameNumbers
<1>1. /\ (i + y) + 1 = i + (y + 1) /\ (i + y) + 2 = i + (y + 2) /\ (i + y) + 3 = i + (y + 3)
      /\ y \in 1..24 /\ y + 1 \in 1..24 /\ y + 2 \in 1..24 /\ y + 3 \in 1..24
  OBVIOUS
<1>2. /\ a[i + y] = b[i + y] /\ a[(i + y) + 1] = b[(i + y) + 1]
      /\ a[(i + y) + 2] = b[(i + y) + 2] /\ a[(i + y) + 3] = b[(i + y) + 3]
  BY <1>1, Zenon DEF SameHeader
<1> QED
  BY <1>2, Zenon DEF Decode32

\* The same bytes cut out are the same bytes.
LEMMA SameStretch ==
  ASSUME NEW a \in Seq(Bytes), NEW b \in Seq(Bytes), NEW k \in Nat,
         k <= Len(a), k <= Len(b), \A x \in 1..k : a[x] = b[x],
         NEW m \in Nat \ {0}, NEW j \in 0..k
  PROVE  SubSeq(a, m, j) = SubSeq(b, m, j)
<1>1. \A x \in m..j : x \in 1..k /\ x \in 1..Len(a) /\ x \in 1..Len(b)
  OBVIOUS
<1>2. \A x \in m..j : a[x] \in Bytes /\ b[x] \in Bytes
  BY <1>1, ElementOfSeq
<1>3. m \in Int /\ j \in Int
  OBVIOUS
<1> DEFINE r == IF m <= j THEN j - m + 1 ELSE 0
<1>4. SubSeq(a, m, j) \in Seq(Bytes) /\ Len(SubSeq(a, m, j)) = r
      /\ \A x \in 1 .. j - m + 1 : SubSeq(a, m, j)[x] = a[m + x - 1]
  BY <1>2, <1>3, SubSeqProperties
<1>5. SubSeq(b, m, j) \in Seq(Bytes) /\ Len(SubSeq(b, m, j)) = r
      /\ \A x \in 1 .. j - m + 1 : SubSeq(b, m, j)[x] = b[m + x - 1]
  BY <1>2, <1>3, SubSeqProperties
<1>6. \A x \in 1..r : x \in 1 .. j - m + 1 /\ m + x - 1 \in 1..k
  BY <1>3
<1> HIDE DEF r
<1>7. \A x \in 1..r : SubSeq(a, m, j)[x] = SubSeq(b, m, j)[x]
  BY <1>4, <1>5, <1>6, Zenon
<1> QED
  BY <1>4, <1>5, <1>7, SeqEqual, Zenon

\* Bytes appended to a datagram leave what stands in it where it is.
LEMMA StillThere ==
  ASSUME NEW b \in Seq(Bytes), NEW q \in Seq(Bytes), NEW i, NEW j, NEW s,
         s.head.len \in Nat, SegAt(b, i, j, s)
  PROVE  SegAt(b \o q, i, j, s)
<1> DEFINE all == b \o q
<1>1. PICK k \in Nat, l \in Nat : k = Len(b) /\ l = s.head.len
  BY LenProperties
<1>2. all \in Seq(Bytes) /\ k <= Len(all) /\ \A x \in 1..k : all[x] = b[x]
  <2>1. all \in Seq(Bytes) /\ Len(all) = Len(b) + Len(q) /\ \A x \in 1..Len(b) : all[x] = b[x]
    BY Concat, Zenon
  <2>2. Len(q) \in Nat
    BY LenProperties
  <2> QED
    BY <1>1, <2>1, <2>2
<1>3. i \in Nat /\ j \in Nat /\ j = i + OVERHEAD + l /\ j <= k
  BY <1>1, Zenon DEF SegAt
<1> HIDE DEF all
<1>4. DecodeSeg(all, i) = DecodeSeg(b, i)
  <2>1. \A x \in 1..24 : i + x \in 1..k
    BY <1>3 DEF OVERHEAD
  <2>2. \A x \in 1..24 : all[i + x] = b[i + x]
    BY <1>2, <2>1, Zenon
  <2>3. /\ Decode32(all, i + 1) = Decode32(b, i + 1)
        /\ Decode32(all, i + 9) = Decode32(b, i + 9)
        /\ Decode32(all, i + 13) = Decode32(b, i + 13)
        /\ Decode32(all, i + 17) = Decode32(b, i + 17)
        /\ Decode32(all, i + 21) = Decode32(b, i + 21)
    <3>1. 1 \in 1..21 /\ 9 \in 1..21 /\ 13 \in 1..21 /\ 17 \in 1..21 /\ 21 \in 1..21
      OBVIOUS
    <3>2. SameNumbers(all, b, i)
      <4>1. i \in Nat
        BY <1>3
      <4>2. SameHeader(all, b, i)
        BY <2>2, Zenon DEF SameHeader
      <4> QED
        BY <4>1, <4>2, SameNumber, Zenon
    <3> QED
      BY <3>1, <3>2, Zenon DEF SameNumbers
  <2>4. /\ all[i + 5] = b[i + 5] /\ all[i + 6] = b[i + 6]
        /\ all[i + 7] = b[i + 7] /\ all[(i + 7) + 1] = b[(i + 7) + 1]
    <3>1. /\ 5 \in 1..24 /\ 6 \in 1..24 /\ 7 \in 1..24 /\ 8 \in 1..24
          /\ (i + 7) + 1 = i + 8
      BY <1>3
    <3> QED
      BY <2>2, <3>1, Zenon
  <2>5. Decode16(all, i + 7) = Decode16(b, i + 7)
    BY <2>4, Zenon DEF Decode16
  <2> QED
    BY <2>3, <2>4, <2>5, Zenon DEF DecodeSeg
<1>5. SubSeq(all, i + OVERHEAD + 1, j) = SubSeq(b, i + OVERHEAD + 1, j)
  <2>1. PICK m \in Nat \ {0} : m = i + OVERHEAD + 1
    BY <1>3 DEF OVERHEAD
  <2>2. k \in Nat /\ j \in 0..k /\ k <= Len(b)
    BY <1>1, <1>3
  <2>3. SubSeq(all, m, j) = SubSeq(b, m, j)
    <3> HIDE <1>1
    <3> QED
      BY <1>2, <2>2, SameStretch
  <2> QED
    BY <2>1, <2>3, Zenon
<1>6. j <= Len(all)
  <2>1. PICK x \in Nat : x = Len(all)
    BY <1>2, LenProperties
  <2> QED
    BY <1>2, <1>3, <2>1
<1>7. SegAt(all, i, j, s)
  BY <1>4, <1>5, <1>6, Zenon DEF SegAt
<1> QED
  BY <1>7, Zenon DEF all

\* Behind its first m elements s has the n of q.
EndsWith(s, m, n, q) == SubSeq(s, m + 1, m + n) = q

\* What was appended is what stands behind the rest.
LEMMA Appended ==
  ASSUME NEW s \in Seq(Bytes), NEW q \in Seq(Bytes), NEW m \in Nat, NEW n \in Nat,
         m = Len(s), n = Len(q)
  PROVE  EndsWith(s \o q, m, n, q)
<1> DEFINE all == s \o q
<1>1. IsConcat(all, s, m, q, n)
  BY Field, Zenon
<1> HIDE DEF all
<1>2. \A x \in m + 1 .. m + n : x \in 1 .. m + n /\ x - m \in 1..n
  OBVIOUS
<1>3. m + 1 \in Int /\ m + n \in Int /\ m + 1 + n = m + n + 1 /\ (m + n) - (m + 1) + 1 = n
  OBVIOUS
<1>4. \A x \in m + 1 .. m + n : all[x] \in Bytes
  <2>1. \A x \in 1..n : q[x] \in Bytes
    BY ElementOfSeq
  <2> QED
    BY <1>1, <1>2, <2>1, Zenon DEF IsConcat
<1>5. /\ SubSeq(all, m + 1, m + n) \in Seq(Bytes)
      /\ Len(SubSeq(all, m + 1, m + n)) = n
      /\ \A x \in 1..n : SubSeq(all, m + 1, m + n)[x] = all[(m + 1) + x - 1]
  <2>1. /\ SubSeq(all, m + 1, m + n) \in Seq(Bytes)
        /\ Len(SubSeq(all, m + 1, m + n))
             = IF m + 1 <= m + n THEN (m + n) - (m + 1) + 1 ELSE 0
        /\ \A x \in 1 .. (m + n) - (m + 1) + 1 :
             SubSeq(all, m + 1, m + n)[x] = all[(m + 1) + x - 1]
    BY <1>3, <1>4, SubSeqProperties
  <2>2. (IF m + 1 <= m + n THEN (m + n) - (m + 1) + 1 ELSE 0) = n
    OBVIOUS
  <2> QED
    BY <1>3, <2>1, <2>2, Zenon
<1>6. \A x \in 1..n : /\ (m + 1) + x - 1 \in m + 1 .. m + n
                      /\ ((m + 1) + x - 1) - m = x
  OBVIOUS
<1>7. \A x \in 1..n : SubSeq(all, m + 1, m + n)[x] = q[x]
  BY <1>1, <1>5, <1>6, Zenon DEF IsConcat
<1>8. SubSeq(all, m + 1, m + n) = q
  BY <1>5, <1>7, SeqEqual, Zenon
<1> QED
  BY <1>8, Zenon DEF all, EndsWith

\* The segment ikcp_flush appends stands behind the rest and ends the datagram.
LEMMA Written ==
  ASSUME NEW b \in Seq(Bytes), NEW s, s.head \in Header, s.data \in Seq(Bytes),
         Len(s.data) = s.head.len
  PROVE  LET all == (b \o EncodeSeg(s.head)) \o s.data
         IN all \in Seq(Bytes) /\ SegAt(all, Len(b), Len(all), s)
<1> DEFINE h == EncodeSeg(s.head)
           bh == b \o h
           all == bh \o s.data
<1>1. PICK k \in Nat, n \in Nat : k = Len(b) /\ n = Len(s.data) /\ n = s.head.len
  BY LenProperties
<1>2. h \in Seq(Bytes) /\ Len(h) = 24
  BY HeaderLaid, Zenon
<1> HIDE DEF h
<1>3. bh \in Seq(Bytes) /\ Len(bh) = k + 24
  <2>1. bh \in Seq(Bytes) /\ Len(bh) = Len(b) + Len(h)
    BY <1>2, Concat, Zenon
  <2> QED
    BY <1>1, <1>2, <2>1, Zenon
<1>4. all \in Seq(Bytes) /\ Len(all) = (k + 24) + n
  <2> HIDE DEF bh
  <2>1. all \in Seq(Bytes) /\ Len(all) = Len(bh) + Len(s.data)
    BY <1>3, Concat, Zenon
  <2> QED
    BY <1>1, <1>3, <2>1, Zenon
<1>5. DecodeSeg(all, k) = OnWire(s.head)
  BY <1>1, HeaderReadsBack, Zenon DEF h
<1>6. SubSeq(all, (k + 24) + 1, (k + 24) + n) = s.data
  <2> HIDE DEF bh
  <2>1. PICK m \in Nat : m = k + 24
    OBVIOUS
  <2>2. m = Len(bh) /\ n = Len(s.data)
    BY <1>1, <1>3, <2>1, Zenon
  <2>3. SubSeq(bh \o s.data, m + 1, m + n) = s.data
    <3>1. EndsWith(bh \o s.data, m, n, s.data)
      BY <1>3, <2>2, Appended, Zenon
    <3> QED
      BY <3>1, Zenon DEF EndsWith
  <2> QED
    BY <2>1, <2>3, Zenon
<1> HIDE DEF all
<1>7. /\ k + OVERHEAD + n = (k + 24) + n /\ (k + 24) + n \in Nat
      /\ k + OVERHEAD + 1 = (k + 24) + 1 /\ (k + 24) + n <= (k + 24) + n
  BY DEF OVERHEAD
<1>8. SegAt(all, k, (k + 24) + n, s)
  BY <1>1, <1>4, <1>5, <1>6, <1>7, Zenon DEF SegAt
<1>9. SegAt(all, Len(b), Len(all), s)
  BY <1>1, <1>4, <1>8, Zenon
<1> QED
  BY <1>4, <1>9, Zenon DEF all, h

-----------------------------------------------------------------------------
(* The datagram of the run *)

Segments == [head : Header, data : Seq(Bytes)]

\* The segments stand one behind the other, at the offsets off.
Placed(off, n, ss, b) ==
  /\ off[0] = 0 /\ off[n] = Len(b)
  /\ \A k \in 1..n : SegAt(b, off[k - 1], off[k], ss[k])

\* The segments are those of the conversation, and short enough for ikcp_input.
OfConv(c, n, ss) ==
  \A k \in 1..n : ss[k].head.conv = c /\ ss[k].head.len < Range32 \div 2

WireInv ==
  /\ conv \in Convs
  /\ buffer \in Seq(Bytes) /\ segs \in Seq(Segments)
  /\ OfConv(conv, Len(segs), segs)
  /\ \E off : Placed(off, Len(segs), segs, buffer)

LEMMA HeadWritten ==
  ASSUME NEW cmd \in Cmds, NEW frg \in Frgs, NEW wnd \in Wnds, NEW ts \in Numbers,
         NEW sn \in Numbers, NEW una \in Numbers, NEW n \in Lens, conv \in Convs
  PROVE  LET head == [conv |-> conv, cmd |-> cmd, frg |-> frg, wnd |-> wnd, ts |-> ts,
                      sn |-> sn, una |-> una, len |-> n]
         IN /\ head \in Header /\ head.conv = conv /\ head.len = n
            /\ n \in Nat /\ n < Range32 \div 2
<1>1. conv \in 0 .. Range32 - 1 /\ frg \in 0 .. Byte - 1 /\ wnd \in Nat
      /\ ts \in 0 .. Range32 - 1 /\ sn \in 0 .. Range32 - 1 /\ una \in 0 .. Range32 - 1
  BY FormatsAssumption, Zenon
<1>2. n \in 0 .. (Range32 \div 2) - 1
  BY FormatsAssumption, Zenon
<1>3. Range32 \in Nat
  BY WireAssumption DEF Range32, Range16
<1>4. n \in Nat /\ n < Range32 \div 2 /\ n \in 0 .. Range32 - 1
  BY <1>2, <1>3
<1> QED
  BY <1>1, <1>4, Zenon DEF Header

LEMMA PayloadBytes ==
  ASSUME NEW n \in Nat
  PROVE  Payload(n) \in Seq(Bytes) /\ Len(Payload(n)) = n
<1>1. \A i \in 1..n : i % Byte \in Bytes
  <2>1. ASSUME NEW i \in 1..n PROVE i % Byte \in Bytes
    <3>1. i \in Nat
      OBVIOUS
    <3> QED
      BY <3>1, LastByte, Zenon
  <2> QED
    BY <2>1
<1>2. Payload(n) \in [1..n -> Bytes]
  BY <1>1, Zenon DEF Payload
<1> QED
  BY <1>2

\* One more segment at the end of the datagram.
LEMMA OneMore ==
  ASSUME NEW off, NEW n \in Nat, NEW ss \in Seq(Segments), n = Len(ss),
         NEW b \in Seq(Bytes), Placed(off, n, ss, b),
         NEW s \in Segments, Len(s.data) = s.head.len
  PROVE  LET all == (b \o EncodeSeg(s.head)) \o s.data
         IN all \in Seq(Bytes) /\ \E o : Placed(o, n + 1, Append(ss, s), all)
<1> DEFINE all == (b \o EncodeSeg(s.head)) \o s.data
           o == [k \in 0 .. n + 1 |-> IF k = n + 1 THEN Len(all) ELSE off[k]]
           tt == Append(ss, s)
<1>1. s.head \in Header /\ s.data \in Seq(Bytes)
  BY DEF Segments
<1>2. all \in Seq(Bytes) /\ SegAt(all, Len(b), Len(all), s)
  BY <1>1, Written, Zenon
<1>3. \A k \in 1..n : SegAt(all, off[k - 1], off[k], ss[k])
  <2>1. ASSUME NEW k \in 1..n PROVE SegAt(all, off[k - 1], off[k], ss[k])
    <3>1. ss[k] \in Segments
      BY ElementOfSeq
    <3>2. ss[k].head.len \in Nat
      <4>1. ss[k].head.len \in 0 .. Range32 - 1
        BY <3>1, Zenon DEF Segments, Header
      <4> QED
        BY <4>1
    <3>3. SegAt(b, off[k - 1], off[k], ss[k])
      BY Zenon DEF Placed
    <3>4. EncodeSeg(s.head) \in Seq(Bytes) /\ b \o EncodeSeg(s.head) \in Seq(Bytes)
      BY <1>1, HeaderLaid, Concat, Zenon
    <3>5. SegAt(b \o EncodeSeg(s.head), off[k - 1], off[k], ss[k])
      BY <3>2, <3>3, <3>4, StillThere, Zenon
    <3> QED
      BY <1>1, <3>2, <3>4, <3>5, StillThere, Zenon
  <2> QED
    BY <2>1
<1> HIDE DEF all
<1>4. /\ \A k \in 1..n : k - 1 \in 0 .. n + 1 /\ k \in 0 .. n + 1 /\ k - 1 # n + 1 /\ k # n + 1
      /\ 0 \in 0 .. n + 1 /\ 0 # n + 1 /\ n + 1 \in 0 .. n + 1 /\ n \in 0 .. n + 1 /\ n # n + 1
      /\ (n + 1) - 1 = n /\ \A k \in 1 .. n + 1 : k = n + 1 \/ k \in 1..n
  OBVIOUS
<1>5. /\ o[0] = 0 /\ o[n + 1] = Len(all) /\ o[n] = Len(b)
      /\ \A k \in 1..n : o[k - 1] = off[k - 1] /\ o[k] = off[k]
  BY <1>4, Zenon DEF Placed
<1>6. tt[n + 1] = s /\ \A k \in 1..n : tt[k] = ss[k]
  BY AppendProperties
<1> HIDE DEF o, tt
<1>7. ASSUME NEW k \in 1 .. n + 1 PROVE SegAt(all, o[k - 1], o[k], tt[k])
  <2>1. CASE k = n + 1
    BY <1>2, <1>4, <1>5, <1>6, <2>1, Zenon
  <2>2. CASE k \in 1..n
    BY <1>3, <1>5, <1>6, <2>2, Zenon
  <2> QED
    BY <1>4, <2>1, <2>2, Zenon
<1>8. Placed(o, n + 1, tt, all)
  BY <1>5, <1>7, Zenon DEF Placed
<1> QED
  BY <1>2, <1>8, Zenon DEF all, tt

LEMMA WireInitially == Init => WireInv
<1> SUFFICES ASSUME Init PROVE WireInv
  OBVIOUS
<1>1. conv \in Convs /\ segs = <<>> /\ buffer = <<>>
  BY DEF Init
<1>2. Len(segs) = 0 /\ Len(buffer) = 0 /\ segs \in Seq(Segments) /\ buffer \in Seq(Bytes)
  BY <1>1
<1>3. \A k \in 1..0 : FALSE
  OBVIOUS
<1> DEFINE off == [k \in {0} |-> 0]
<1>4. Placed(off, 0, segs, buffer)
  BY <1>2, <1>3, Zenon DEF Placed
<1>5. OfConv(conv, 0, segs)
  BY <1>3, Zenon DEF OfConv
<1> QED
  BY <1>1, <1>2, <1>4, <1>5, Zenon DEF WireInv

LEMMA WireWrites ==
  ASSUME WireInv, NEW cmd \in Cmds, NEW frg \in Frgs, NEW wnd \in Wnds,
         NEW ts \in Numbers, NEW sn \in Numbers, NEW una \in Numbers, NEW n \in Lens,
         Write(cmd, frg, wnd, ts, sn, una, n)
  PROVE  WireInv'
<1> DEFINE head == [conv |-> conv, cmd |-> cmd, frg |-> frg, wnd |-> wnd, ts |-> ts,
                    sn |-> sn, una |-> una, len |-> n]
           s == [head |-> head, data |-> Payload(n)]
<1>1. /\ conv \in Convs /\ buffer \in Seq(Bytes) /\ segs \in Seq(Segments)
      /\ OfConv(conv, Len(segs), segs)
  BY Zenon DEF WireInv
<1>2. PICK off : Placed(off, Len(segs), segs, buffer)
  BY Zenon DEF WireInv
<1>3. PICK m \in Nat : m = Len(segs)
  BY <1>1, LenProperties
<1>4. head \in Header /\ head.conv = conv /\ head.len = n /\ n \in Nat /\ n < Range32 \div 2
  BY <1>1, HeadWritten, Zenon
<1>5. segs' = Append(segs, s) /\ conv' = conv
      /\ buffer' = (buffer \o EncodeSeg(s.head)) \o s.data
  BY Zenon DEF Write
<1>6. Payload(n) \in Seq(Bytes) /\ Len(Payload(n)) = n
  BY <1>4, PayloadBytes, Zenon
<1> HIDE DEF head
<1>7. s \in Segments /\ Len(s.data) = s.head.len /\ s.head.conv = conv
      /\ s.head.len < Range32 \div 2
  BY <1>4, <1>6, Zenon DEF Segments
<1> HIDE DEF s
<1>8. buffer' \in Seq(Bytes) /\ \E o : Placed(o, m + 1, segs', buffer')
  BY <1>1, <1>2, <1>3, <1>5, <1>7, OneMore, Zenon
<1>9. segs' \in Seq(Segments) /\ Len(segs') = m + 1 /\ segs'[m + 1] = s
      /\ \A k \in 1..m : segs'[k] = segs[k]
  BY <1>1, <1>3, <1>5, <1>7, AppendProperties
<1>10. OfConv(conv', m + 1, segs')
  <2>1. \A k \in 1 .. m + 1 : k = m + 1 \/ k \in 1..m
    OBVIOUS
  <2> QED
    BY <1>1, <1>3, <1>5, <1>7, <1>9, <2>1, Zenon DEF OfConv
<1> QED
  BY <1>1, <1>5, <1>8, <1>9, <1>10, Zenon DEF WireInv

\* The datagram stays a row of the segments written.
LEMMA WireInvariant == Spec => []WireInv
<1>1. ASSUME WireInv, UNCHANGED wireVars PROVE WireInv'
  BY <1>1, Zenon DEF WireInv, wireVars
<1>2. ASSUME WireInv, [Next]_vars PROVE WireInv'
  <2>1. CASE Longer
    BY <1>1, <1>2, <2>1, Zenon DEF Longer
  <2>2. CASE UNCHANGED vars
    BY <1>1, <1>2, <2>2, Zenon DEF vars
  <2>3. ASSUME NEW cmd \in Cmds, NEW frg \in Frgs, NEW wnd \in Wnds,
               NEW ts \in Numbers, NEW sn \in Numbers, NEW una \in Numbers,
               NEW n \in Lens, Write(cmd, frg, wnd, ts, sn, una, n)
        PROVE  WireInv'
    BY <1>2, <2>3, WireWrites, Zenon
  <2> QED
    BY <1>2, <2>1, <2>2, <2>3, Zenon DEF Next
<1> QED
  BY WireInitially, <1>2, PTL DEF Spec

\* x and the k of f behind it
With(x, f, k) == [i \in 1 .. k + 1 |-> IF i = 1 THEN x ELSE f[i - 1]]

LEMMA Before ==
  ASSUME NEW T, NEW k \in Nat, NEW x \in T, NEW f, f \in [1..k -> T]
  PROVE  <<x>> \o f = With(x, f, k)
<1> DEFINE g == [i \in 1 .. k + 1 |-> IF i = 1 THEN x ELSE f[i - 1]]
           s == <<x>>
<1>1. s \in Seq(T) /\ Len(s) = 1 /\ s[1] = x
  OBVIOUS
<1>2. f \in Seq(T) /\ Len(f) = k
  OBVIOUS
<1>3. s \o f \in Seq(T) /\ Len(s \o f) = 1 + k
      /\ \A i \in 1 .. 1 + k : (s \o f)[i] = IF i <= 1 THEN s[i] ELSE f[i - 1]
  <2> HIDE DEF s
  <2>1. /\ s \o f \in Seq(T) /\ Len(s \o f) = Len(s) + Len(f)
        /\ \A i \in 1 .. Len(s) + Len(f) :
             (s \o f)[i] = IF i <= Len(s) THEN s[i] ELSE f[i - Len(s)]
    BY <1>1, <1>2, ConcatProperties, Zenon
  <2> QED
    BY <1>1, <1>2, <2>1, Zenon
<1>4. g \in [1 .. k + 1 -> T]
  <2>1. \A i \in 1 .. k + 1 : i = 1 \/ i - 1 \in 1..k
    OBVIOUS
  <2> QED
    BY <2>1, Zenon
<1>5. g \in Seq(T) /\ Len(g) = k + 1
  <2> HIDE DEF g
  <2> QED
    BY <1>4
<1>6. 1 + k = k + 1 /\ \A i \in 1 .. k + 1 : i <= 1 <=> i = 1
  OBVIOUS
<1>7. \A i \in 1 .. k + 1 : (s \o f)[i] = g[i]
  BY <1>1, <1>3, <1>6, Zenon
<1> HIDE DEF g, s
<1>8. Len(s \o f) = Len(g) /\ \A i \in 1 .. Len(s \o f) : (s \o f)[i] = g[i]
  BY <1>3, <1>5, <1>6, <1>7, Zenon
<1>9. s \o f = g
  BY <1>3, <1>5, <1>8, SeqEqual, Zenon
<1> QED
  BY <1>9, Zenon DEF g, s, With

\* A segment as the remote endpoint takes it.
Received(s) == [head |-> OnWire(s.head), data |-> s.data]

\* Over a segment that stands in the datagram the loop takes it, and goes on
\* where it ends.
LEMMA LoopTakes ==
  ASSUME NEW c, NEW b \in Seq(Bytes), NEW f, LoopsFrom(c, b, f, 0),
         NEW i, NEW j, NEW s \in Segments, SegAt(b, i, j, s),
         s.head.conv = c, s.head.len < Range32 \div 2
  PROVE  f[i] = [segs |-> <<Received(s)>> \o f[j].segs, ret |-> f[j].ret]
<1> DEFINE seg == DecodeSeg(b, i)
<1>1. /\ s.head.conv \in 0 .. Range32 - 1 /\ s.head.cmd \in Cmds
      /\ s.head.len \in 0 .. Range32 - 1
      /\ OnWire(s.head) = [conv |-> s.head.conv, cmd |-> s.head.cmd, frg |-> s.head.frg,
                           wnd |-> s.head.wnd % Range16, ts |-> s.head.ts,
                           sn |-> s.head.sn, una |-> s.head.una, len |-> s.head.len]
  <2>1. PICK h \in Header : h = s.head
    BY DEF Segments
  <2>2. OnWire(h) = [conv |-> h.conv, cmd |-> h.cmd, frg |-> h.frg,
                     wnd |-> h.wnd % Range16, ts |-> h.ts, sn |-> h.sn,
                     una |-> h.una, len |-> h.len]
    BY DEF OnWire, Header
  <2>3. h.conv \in 0 .. Range32 - 1 /\ h.cmd \in Cmds /\ h.len \in 0 .. Range32 - 1
    BY Zenon DEF Header
  <2> QED
    BY <2>1, <2>2, <2>3, Zenon
<1>2. seg = OnWire(s.head) /\ SubSeq(b, i + OVERHEAD + 1, j) = s.data
  BY Zenon DEF SegAt
<1>3. seg.conv = c /\ seg.cmd \in Cmds /\ seg.len = s.head.len
  <2> HIDE DEF seg
  <2>1. seg.conv = s.head.conv /\ seg.cmd = s.head.cmd /\ seg.len = s.head.len
    BY <1>1, <1>2
  <2> QED
    BY <1>1, <2>1, Zenon
<1> HIDE DEF seg
<1>4. PICK l \in Nat, n \in Nat : l = s.head.len /\ n = Len(b)
  <2>1. s.head.len \in Nat
    BY <1>1
  <2> QED
    BY <2>1, LenProperties
<1>5. i \in Nat /\ j \in Nat /\ j = i + OVERHEAD + l /\ j <= n
  BY <1>4, Zenon DEF SegAt
<1>6. i \in 0..n /\ ~(n - i < OVERHEAD) /\ l <= n - i - OVERHEAD
  BY <1>5 DEF OVERHEAD
<1>7. Behind(seg, i) = j
  BY <1>3, <1>4, <1>5, Zenon DEF Behind
<1>8. Error(c, b, seg, i) = 0
  <2>1. Whole(b, seg, i)
    BY <1>3, <1>4, <1>6, Zenon DEF Whole
  <2> QED
    BY <1>3, <2>1, Zenon DEF Error
<1>9. f[i] = TakenAt(c, b, f, i)
  BY <1>4, <1>6, Zenon DEF LoopsFrom
<1> QED
  BY <1>2, <1>4, <1>6, <1>7, <1>8, <1>9, Zenon DEF TakenAt, Received, seg

\* From the end of the last segment backwards: the loop takes all that stand
\* behind its offset, and reports no error.
LEMMA LoopReads ==
  ASSUME NEW c, NEW b \in Seq(Bytes), NEW f, LoopsFrom(c, b, f, 0),
         NEW m \in Nat, NEW ss \in Seq(Segments), m = Len(ss), OfConv(c, m, ss),
         NEW off, Placed(off, m, ss, b)
  PROVE  f[0] = [segs |-> [i \in 1..m |-> Received(ss[i])], ret |-> 0]
<1> DEFINE Rest(k) == [segs |-> [i \in 1..k |-> Received(ss[(m - k) + i])], ret |-> 0]
           S == {k \in 0..m : f[off[m - k]] = Rest(k)}
<1>1. 0 \in S
  <2>1. PICK n \in Nat : n = Len(b)
    BY LenProperties
  <2>2. off[m] = n /\ n \in 0..n /\ n - n < OVERHEAD /\ m - 0 = m /\ 0 \in 0..m
    BY <2>1 DEF Placed, OVERHEAD
  <2>3. f[n] = [segs |-> <<>>, ret |-> 0]
    BY <2>1, <2>2, Zenon DEF LoopsFrom, TakenAt
  <2>4. Rest(0).segs = <<>>
    OBVIOUS
  <2>5. Rest(0) = [segs |-> <<>>, ret |-> 0]
    BY <2>4, Zenon
  <2> QED
    BY <2>2, <2>3, <2>5, Zenon
<1>2. ASSUME NEW k \in 1..m, k - 1 \in S PROVE k \in S
  <2> DEFINE x == (m - k) + 1
             T == {Received(ss[i]) : i \in 1..m}
             rest == [i \in 1 .. k - 1 |-> Received(ss[(m - (k - 1)) + i])]
  <2>1. /\ x \in 1..m /\ x - 1 = m - k /\ m - (k - 1) = x /\ k \in 0..m
        /\ k - 1 \in Nat /\ (k - 1) + 1 = k /\ k - 1 \in 0..m
        /\ \A i \in 1 .. k - 1 : (m - (k - 1)) + i \in 1..m
        /\ \A i \in 1..k : i # 1 => /\ i - 1 \in 1 .. k - 1
                                    /\ (m - (k - 1)) + (i - 1) = (m - k) + i
        /\ \A i \in 1..k : i = 1 => (m - k) + i = x
    OBVIOUS
  <2> HIDE DEF x
  <2>2. f[off[x]] = [segs |-> rest, ret |-> 0]
    BY <1>2, <2>1, Zenon
  <2>3. ss[x] \in Segments
    BY <2>1, ElementOfSeq
  <2>4. SegAt(b, off[x - 1], off[x], ss[x]) /\ ss[x].head.conv = c
        /\ ss[x].head.len < Range32 \div 2
    BY <2>1, Zenon DEF Placed, OfConv
  <2>5. f[off[x - 1]] = [segs |-> <<Received(ss[x])>> \o f[off[x]].segs, ret |-> f[off[x]].ret]
    <3>1. PICK y, z, s : y = off[x - 1] /\ z = off[x] /\ s = ss[x]
      OBVIOUS
    <3>2. /\ s \in Segments /\ SegAt(b, y, z, s)
          /\ s.head.conv = c /\ s.head.len < Range32 \div 2
      BY <2>3, <2>4, <3>1, Zenon
    <3>3. f[y] = [segs |-> <<Received(s)>> \o f[z].segs, ret |-> f[z].ret]
      BY <3>2, LoopTakes
    <3> QED
      BY <3>1, <3>3, Zenon
  <2>6. f[off[m - k]] = [segs |-> <<Received(ss[x])>> \o rest, ret |-> 0]
    <3> HIDE DEF rest
    <3>1. f[off[x]].segs = rest /\ f[off[x]].ret = 0
      BY <2>2
    <3> QED
      BY <2>1, <2>5, <3>1, Zenon
  <2>7. Received(ss[x]) \in T /\ rest \in [1 .. k - 1 -> T]
    BY <2>1, Zenon
  <2>8. <<Received(ss[x])>> \o rest = With(Received(ss[x]), rest, k - 1)
    <3> HIDE DEF T, rest
    <3>1. PICK y \in T : y = Received(ss[x])
      BY <2>7, Zenon
    <3>2. PICK p \in Nat : p = k - 1
      BY <2>1, Zenon
    <3>3. <<y>> \o rest = With(y, rest, p)
      <4>1. rest \in [1..p -> T]
        BY <2>7, <3>2, Zenon
      <4> QED
        BY <4>1, Before, Zenon
    <3> QED
      BY <3>1, <3>2, <3>3, Zenon
  <2>9. \A i \in 1..k : (IF i = 1 THEN Received(ss[x]) ELSE rest[i - 1])
                          = Received(ss[(m - k) + i])
    <3>1. ASSUME NEW i \in 1..k
          PROVE  (IF i = 1 THEN Received(ss[x]) ELSE rest[i - 1]) = Received(ss[(m - k) + i])
      <4>1. CASE i = 1
        BY <2>1, <4>1, Zenon
      <4>2. CASE i # 1
        BY <2>1, <4>2, Zenon
      <4> QED
        BY <4>1, <4>2, Zenon
    <3> QED
      BY <3>1, Zenon
  <2>10. <<Received(ss[x])>> \o rest = [i \in 1..k |-> Received(ss[(m - k) + i])]
    <3> HIDE DEF rest
    <3>1. With(Received(ss[x]), rest, k - 1)
            = [i \in 1..k |-> IF i = 1 THEN Received(ss[x]) ELSE rest[i - 1]]
      BY <2>1, Zenon DEF With
    <3> QED
      BY <2>8, <2>9, <3>1, Zenon
  <2>11. f[off[m - k]] = Rest(k)
    BY <2>6, <2>10, Zenon
  <2> QED
    BY <2>1, <2>11, Zenon
<1>3. m \in S
  <2> HIDE DEF S
  <2>1. m \in 0..m
    OBVIOUS
  <2> QED
    BY <1>1, <1>2, <2>1, UpTo, Zenon
<1>4. m - m = 0 /\ \A i \in 1..m : (m - m) + i = i
  OBVIOUS
<1>5. f[0] = Rest(m)
  <2>1. off[0] = 0
    BY Zenon DEF Placed
  <2> QED
    BY <1>3, <1>4, <2>1, Zenon
<1>6. [i \in 1..m |-> Received(ss[(m - m) + i])] = [i \in 1..m |-> Received(ss[i])]
  BY <1>4, Zenon
<1> QED
  BY <1>5, <1>6, Zenon

\* A datagram that is not empty has a header, of the conversation.
LEMMA FirstHeader ==
  ASSUME WireInv, segs # <<>>
  PROVE  Len(buffer) >= OVERHEAD /\ DecodeSeg(buffer, 0).conv = conv /\ GetConv(buffer) = conv
<1>1. PICK off : Placed(off, Len(segs), segs, buffer)
  BY Zenon DEF WireInv
<1>2. segs \in Seq(Segments) /\ buffer \in Seq(Bytes) /\ OfConv(conv, Len(segs), segs)
  BY Zenon DEF WireInv
<1>3. PICK m \in Nat, n \in Nat : m = Len(segs) /\ n = Len(buffer)
  BY <1>2, LenProperties
<1>4. 1 \in 1..m /\ 1 - 1 = 0
  <2>1. Len(segs) # 0
    BY <1>2
  <2> QED
    BY <1>3, <2>1
<1>5. /\ SegAt(buffer, 0, off[1], segs[1]) /\ segs[1].head.conv = conv
  <2>1. SegAt(buffer, off[1 - 1], off[1], segs[1]) /\ off[0] = 0
    BY <1>1, <1>3, <1>4, Zenon DEF Placed
  <2> QED
    BY <1>2, <1>3, <1>4, <2>1, Zenon DEF OfConv
<1>6. PICK h \in Header : h = segs[1].head
  <2>1. segs[1] \in Segments
    BY <1>2, <1>3, <1>4, ElementOfSeq
  <2> QED
    BY <2>1 DEF Segments
<1>7. OnWire(h).conv = h.conv
  BY DEF OnWire, Header
<1>8. DecodeSeg(buffer, 0).conv = conv
  BY <1>5, <1>6, <1>7, Zenon DEF SegAt
<1>9. n >= OVERHEAD
  <2>1. PICK l \in Nat, j \in Nat : l = segs[1].head.len /\ j = off[1]
    <3>1. h.len \in 0 .. Range32 - 1
      BY Zenon DEF Header
    <3>2. h.len \in Nat
      BY <3>1
    <3> QED
      BY <1>5, <1>6, <3>2, Zenon DEF SegAt
  <2>2. j = 0 + OVERHEAD + l /\ j <= n
    BY <1>3, <1>5, <2>1, Zenon DEF SegAt
  <2> QED
    BY <2>2 DEF OVERHEAD
<1>10. GetConv(buffer) = DecodeSeg(buffer, 0).conv
  BY DEF GetConv, DecodeSeg
<1> QED
  BY <1>3, <1>8, <1>9, <1>10, Zenon

\* Whatever ikcp_flush wrote, however many segments, the remote endpoint reads
\* the same segments in the same order, each with its payload, only the window
\* cut to 16 bits, and finds the conversation with ikcp_getconv.
THEOREM ReadBack == Spec => []DatagramReadsBack
<1>1. ASSUME WireInv PROVE DatagramReadsBack
  <2>1. SUFFICES ASSUME segs # <<>>
        PROVE  /\ GetConv(buffer) = conv
               /\ Taken(conv, buffer)
                    = [segs |-> [i \in DOMAIN segs |-> [segs[i] EXCEPT !.head = OnWire(@)]],
                       ret |-> 0]
    BY Zenon DEF DatagramReadsBack, ReadsBack
  <2>2. Len(buffer) >= OVERHEAD /\ GetConv(buffer) = conv
    BY <1>1, <2>1, FirstHeader, Zenon
  <2>3. PICK off : Placed(off, Len(segs), segs, buffer)
    BY <1>1, Zenon DEF WireInv
  <2>4. segs \in Seq(Segments) /\ buffer \in Seq(Bytes) /\ OfConv(conv, Len(segs), segs)
    BY <1>1, Zenon DEF WireInv
  <2>5. PICK m \in Nat, n \in Nat : m = Len(segs) /\ n = Len(buffer)
    BY <2>4, LenProperties
  <2>6. PICK f : LoopsFrom(conv, buffer, f, 0) /\ Taken(conv, buffer) = f[0]
    BY <2>2, <2>4, <2>5, TakenByLoop, Zenon
  <2>7. f[0] = [segs |-> [i \in 1..m |-> Received(segs[i])], ret |-> 0]
    <3>1. Placed(off, m, segs, buffer) /\ OfConv(conv, m, segs) /\ LoopsFrom(conv, buffer, f, 0)
      BY <2>3, <2>4, <2>5, <2>6, Zenon
    <3> QED
      BY <2>4, <2>5, <3>1, LoopReads
  <2>8. DOMAIN segs = 1..m
    BY <2>4, <2>5, LenProperties, Zenon
  <2>9. ASSUME NEW i \in 1..m PROVE Received(segs[i]) = [segs[i] EXCEPT !.head = OnWire(@)]
    <3>1. PICK s \in Segments : s = segs[i]
      BY <2>4, <2>5, ElementOfSeq
    <3>2. [s EXCEPT !.head = OnWire(@)] = [head |-> OnWire(s.head), data |-> s.data]
      BY DEF Segments
    <3> QED
      BY <3>1, <3>2, Zenon DEF Received
  <2>10. [i \in 1..m |-> Received(segs[i])]
           = [i \in DOMAIN segs |-> [segs[i] EXCEPT !.head = OnWire(@)]]
    BY <2>8, <2>9, Zenon
  <2> QED
    BY <2>2, <2>6, <2>7, <2>10, Zenon
<1> QED
  BY WireInvariant, <1>1, PTL

\* protocol.txt: a packet "will not be accepted if it has a different
\* conversation id": a control block of another conversation takes up nothing
\* of a datagram, and ikcp_input returns -1.
THEOREM OthersTakeNothing == Spec => []OthersRefuse
<1>1. ASSUME WireInv PROVE OthersRefuse
  <2>1. SUFFICES ASSUME segs # <<>>, NEW c \in Convs \ {conv}
        PROVE  Taken(c, buffer) = [segs |-> <<>>, ret |-> -1]
    BY Zenon DEF OthersRefuse, Refused
  <2>2. Len(buffer) >= OVERHEAD /\ DecodeSeg(buffer, 0).conv = conv
    BY <1>1, <2>1, FirstHeader, Zenon
  <2>3. buffer \in Seq(Bytes)
    BY <1>1, Zenon DEF WireInv
  <2>4. PICK n \in Nat : n = Len(buffer)
    BY <2>3, LenProperties
  <2>5. PICK f : LoopsFrom(c, buffer, f, 0) /\ Taken(c, buffer) = f[0]
    BY <2>2, <2>3, <2>4, TakenByLoop, Zenon
  <2>6. 0 \in 0..n /\ ~(n - 0 < OVERHEAD)
    BY <2>2, <2>4 DEF OVERHEAD
  <2>7. f[0] = TakenAt(c, buffer, f, 0)
    BY <2>4, <2>5, <2>6, Zenon DEF LoopsFrom
  <2>8. Error(c, buffer, DecodeSeg(buffer, 0), 0) = -1
    BY <2>2, Zenon DEF Error
  <2>9. -1 # 0
    OBVIOUS
  <2> QED
    BY <2>4, <2>5, <2>6, <2>7, <2>8, <2>9, Zenon DEF TakenAt
<1> QED
  BY WireInvariant, <1>1, PTL
=============================================================================
