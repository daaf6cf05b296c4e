--------------------------- MODULE KcpSerialProofs --------------------------
(***************************************************************************)
(* The lemmas about KcpSerial that the proofs about sequence numbers and   *)
(* about the clock share: for every range of the numbers, _itimediff       *)
(* measures every distance below half of it.                               *)
(***************************************************************************)
EXTENDS KcpSerial, TLAPS

\* A remainder is known by its range.
LEMMA RemainderUnique ==
  ASSUME NEW n \in Nat \ {0}, NEW q \in Int, NEW r \in 0 .. n - 1, NEW z \in Int,
         z = n * q + r
  PROVE  z % n = r
<1> DEFINE k == z \div n
           m == z % n
<1>1. k \in Int /\ m \in 0 .. n - 1 /\ z = n * k + m
  OBVIOUS
<1> HIDE DEF k, m
<1>2. \A t \in Nat : n * (t + 1) >= n
  <2>1. ASSUME NEW t \in Nat PROVE n * (t + 1) >= n
    <3>1. n * (t + 1) = n * t + n /\ n * t >= 0
      OBVIOUS
    <3> QED BY <3>1
  <2> QED BY <2>1
<1>3. n * k - n * q \in -(n - 1) .. n - 1
  <2>1. n * k \in Int /\ n * q \in Int
    BY <1>1
  <2> QED BY <1>1, <2>1
<1>4. ~(k > q)
  <2>1. SUFFICES ASSUME k > q PROVE FALSE
    OBVIOUS
  <2>2. PICK t \in Nat : k = q + (t + 1)
    <3>1. k - q - 1 \in Nat /\ k = q + ((k - q - 1) + 1)
      BY <1>1, <2>1
    <3> QED BY <3>1
  <2>3. n * k = n * q + n * (t + 1)
    BY <2>2
  <2> QED BY <1>2, <1>3, <2>3
<1>5. ~(q > k)
  <2>1. SUFFICES ASSUME q > k PROVE FALSE
    OBVIOUS
  <2>2. PICK t \in Nat : q = k + (t + 1)
    <3>1. q - k - 1 \in Nat /\ q = k + ((q - k - 1) + 1)
      BY <1>1, <2>1
    <3> QED BY <3>1
  <2>3. n * q = n * k + n * (t + 1)
    BY <1>1, <2>2
  <2>4. n * k \in Int /\ n * q \in Int /\ n * (t + 1) \in Int
    BY <1>1
  <2> QED BY <1>2, <1>3, <2>3, <2>4
<1>6. q = k
  BY <1>1, <1>4, <1>5
<1>7. n * k \in Int
  BY <1>1
<1> QED BY <1>1, <1>6, <1>7 DEF m

LEMMA DivisionFacts ==
  ASSUME NEW z \in Int, NEW n \in Nat \ {0}
  PROVE  z \div n \in Int /\ z % n \in 0 .. n - 1 /\ z = n * (z \div n) + (z % n)
OBVIOUS

LEMMA RangeFacts == H \in Nat \ {0} /\ 2 * H \in Nat \ {0}
<1>1. H \in Nat \ {0}
  BY HalfRangeAssumption
<1> QED
  BY ONLY <1>1

\* A number and its field differ by a multiple of the range.
LEMMA CutFacts ==
  ASSUME NEW z \in Int, NEW n \in Nat \ {0}, n = 2 * H
  PROVE  \E q \in Int, r \in 0 .. n - 1 : r = Cut(z) /\ z = n * q + r
<1>1. z \div n \in Int /\ z % n \in 0 .. n - 1 /\ z = n * (z \div n) + (z % n)
  BY DivisionFacts, Zenon
<1>2. Cut(z) = z % n
  BY Zenon DEF Cut
<1> QED BY <1>1, <1>2, Zenon

\* _itimediff returns the difference of two numbers that are less than half
\* the range apart, whatever is left of them in their fields.
LEMMA DiffExact ==
  ASSUME NEW a \in Int, NEW b \in Int, -H <= a - b, a - b < H
  PROVE  Diff(Cut(a), Cut(b)) = a - b
<1>1. PICK n \in Nat \ {0} : n = 2 * H /\ H \in Nat
  BY RangeFacts, Zenon
<1>2. PICK qa \in Int, ca \in 0 .. n - 1 : ca = Cut(a) /\ a = n * qa + ca
  BY <1>1, CutFacts, Zenon
<1>3. PICK qb \in Int, cb \in 0 .. n - 1 : cb = Cut(b) /\ b = n * qb + cb
  BY <1>1, CutFacts, Zenon
<1>4. PICK c \in Int : c = ca - cb
  OBVIOUS
<1>5. PICK qd \in Int, d \in 0 .. n - 1 : d = Cut(c) /\ c = n * qd + d
  BY <1>1, CutFacts, Zenon
<1>6. PICK q \in Int : q = qd + qa - qb
  OBVIOUS
<1>7. a - b = n * q + d
  <2>1. n * q = n * qd + n * qa - n * qb
    BY <1>6
  <2>2. PICK xa \in Int, xb \in Int, xd \in Int :
          xa = n * qa /\ xb = n * qb /\ xd = n * qd
    OBVIOUS
  <2>3. a = xa + ca /\ b = xb + cb /\ ca - cb = xd + d
    BY <1>2, <1>3, <1>4, <1>5, <2>2
  <2>4. a - b = xd + xa - xb + d
    BY <2>3
  <2> QED BY <2>1, <2>2, <2>4
<1>8. Diff(Cut(a), Cut(b)) = IF d < H THEN d ELSE d - n
  BY <1>1, <1>2, <1>3, <1>4, <1>5 DEF Diff
<1>9. a - b \in Int /\ (a - b) % n = d
  BY <1>7, RemainderUnique
<1>10. CASE a - b >= 0
  <2>1. (a - b) % n = a - b
    <3>1. a - b = n * 0 + (a - b) /\ a - b \in 0 .. n - 1
      BY <1>1, <1>10
    <3> QED BY <3>1, RemainderUnique
  <2> QED BY <1>1, <1>8, <1>9, <2>1
<1>11. CASE a - b < 0
  <2>1. (a - b) % n = a - b + n
    <3>1. a - b = n * (-1) + (a - b + n) /\ a - b + n \in 0 .. n - 1
      BY <1>1, <1>11
    <3> QED BY <3>1, RemainderUnique
  <2> QED BY <1>1, <1>8, <1>9, <2>1
<1> QED BY <1>10, <1>11

\* What a field keeps is in its range, and a number in the range is kept whole.
LEMMA CutType ==
  ASSUME NEW z \in Int
  PROVE  Cut(z) \in Serial /\ (z \in Serial => Cut(z) = z)
<1>1. PICK n \in Nat \ {0} : n = 2 * H /\ H \in Nat
  BY RangeFacts, Zenon
<1>2. PICK q \in Int, r \in 0 .. n - 1 : r = Cut(z) /\ z = n * q + r
  BY <1>1, CutFacts, Zenon
<1>3. ASSUME z \in 0 .. n - 1 PROVE Cut(z) = z
  <2>1. z = n * 0 + z
    OBVIOUS
  <2>2. z % n = z
    BY <1>3, <2>1, RemainderUnique
  <2> QED
    BY <1>1, <2>2 DEF Cut
<1> QED
  BY <1>1, <1>2, <1>3 DEF Serial

\* Adding to what a field keeps is adding to the number.
LEMMA CutAdd ==
  ASSUME NEW a \in Int, NEW b \in Int
  PROVE  Cut(Cut(a) + b) = Cut(a + b)
<1>1. PICK n \in Nat \ {0} : n = 2 * H
  BY RangeFacts, Zenon
<1>2. PICK q \in Int, r \in 0 .. n - 1 : r = Cut(a) /\ a = n * q + r
  BY <1>1, CutFacts, Zenon
<1>3. PICK sum \in Int : sum = r + b
  OBVIOUS
<1>4. PICK p \in Int, c \in 0 .. n - 1 : c = Cut(sum) /\ sum = n * p + c
  BY <1>1, CutFacts, Zenon
<1>5. a + b = n * (q + p) + c
  <2>1. PICK x \in Int, y \in Int : x = n * q /\ y = n * p
    OBVIOUS
  <2>2. n * (q + p) = x + y
    BY <2>1
  <2> QED
    BY <1>2, <1>3, <1>4, <2>1, <2>2
<1>6. (a + b) % n = c
  <2>1. PICK z \in Int, k \in Int : z = a + b /\ k = q + p
    OBVIOUS
  <2>2. z = n * k + c
    BY <1>5, <2>1
  <2>3. z % n = c
    BY ONLY <2>2, RemainderUnique, z \in Int, k \in Int, c \in 0 .. n - 1, n \in Nat \ {0}
  <2> QED
    BY <2>1, <2>3
<1> QED
  BY <1>1, <1>2, <1>3, <1>4, <1>6 DEF Cut

\* The range of _itimediff.
LEMMA DiffType ==
  ASSUME NEW a \in Int, NEW b \in Int
  PROVE  Diff(a, b) \in Int /\ -H <= Diff(a, b) /\ Diff(a, b) < H
<1>1. H \in Nat /\ a - b \in Int
  BY HalfRangeAssumption
<1>2. PICK d \in Serial : d = Cut(a - b)
  BY <1>1, CutType
<1>3. d \in 0 .. 2 * H - 1 /\ Diff(a, b) = IF d < H THEN d ELSE d - 2 * H
  BY <1>2 DEF Diff, Serial
<1> QED
  BY <1>1, <1>3

\* Going back by what _itimediff returns leads to the other number.
LEMMA DiffInverse ==
  ASSUME NEW a \in Serial, NEW b \in Int
  PROVE  a = Cut(b + Diff(a, b))
<1>1. PICK n \in Nat \ {0} : n = 2 * H /\ H \in Nat
  BY RangeFacts, Zenon
<1>2. a \in 0 .. n - 1
  BY <1>1 DEF Serial
<1>3. PICK z \in Int : z = a - b
  BY <1>2
<1>4. PICK q \in Int, r \in 0 .. n - 1 : r = Cut(z) /\ z = n * q + r
  BY <1>1, CutFacts, Zenon
<1>5. PICK d \in Int : d = Diff(a, b)
  BY <1>2, DiffType
<1>6. d = r \/ d = r - n
  BY <1>1, <1>3, <1>4, <1>5 DEF Diff
<1>7. PICK k \in Int : b + d = n * k + a
  <2>1. PICK x \in Int : x = n * q
    OBVIOUS
  <2>2. -q \in Int /\ -q - 1 \in Int /\ n * (-q) = -x /\ n * (-q - 1) = -x - n
    BY <2>1
  <2>3. b = a - x - r
    BY <1>2, <1>3, <1>4, <2>1
  <2>4. CASE d = r
    <3>1. b + d = n * (-q) + a
      BY <1>2, <2>1, <2>2, <2>3, <2>4
    <3> QED
      BY <2>2, <3>1
  <2>5. CASE d = r - n
    <3>1. b + d = n * (-q - 1) + a
      BY <1>2, <2>1, <2>2, <2>3, <2>5
    <3> QED
      BY <2>2, <3>1
  <2> QED
    BY <1>6, <2>4, <2>5
<1>8. (b + d) % n = a
  <2>1. PICK sum \in Int : sum = b + d
    OBVIOUS
  <2>2. sum = n * k + a
    BY <1>7, <2>1
  <2>3. sum % n = a
    BY ONLY <1>2, <2>2, RemainderUnique, sum \in Int, k \in Int, n \in Nat \ {0}
  <2> QED
    BY <2>1, <2>3
<1> QED
  BY <1>1, <1>5, <1>8 DEF Cut

\* The difference the other way round, unless it is the one number without an
\* opposite.
LEMMA DiffOpposite ==
  ASSUME NEW a \in Serial, NEW b \in Serial, Diff(b, a) > -H
  PROVE  Diff(a, b) = -Diff(b, a)
<1>1. a \in Int /\ b \in Int /\ H \in Nat
  BY HalfRangeAssumption DEF Serial
<1>2. PICK d \in Int : d = Diff(b, a) /\ -H < d /\ d < H
  BY <1>1, DiffType
<1>3. b = Cut(a + d) /\ a = Cut(a)
  BY <1>1, <1>2, DiffInverse, CutType
<1>4. a + d \in Int /\ a - (a + d) = -d /\ -H <= -d /\ -d < H
  BY <1>1, <1>2
<1>5. Diff(Cut(a), Cut(a + d)) = -d
  BY <1>1, <1>4, DiffExact
<1> QED
  BY <1>2, <1>3, <1>5
=============================================================================
