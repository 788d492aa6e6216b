------------------------- MODULE RevisionStreamProofs -------------------------
(***************************************************************************)
(* Safety of RevisionStream and RevisionStreamQuery for every integer      *)
(* width, every number of revisions up to the largest revision, all times  *)
(* and payloads, all time windows and page limits.                         *)
(*                                                                         *)
(* The stream's invariant says that each branch is the keyspace of one     *)
(* history whose digests and tree nodes bind (Canonical).  The reader's    *)
(* says, for every store that its pinned head is a head of, which part of  *)
(* the window it holds (ReaderInv).  Hashes are injective by construction, *)
(* so that what a digest is accepted for is what it was computed from.     *)
(***************************************************************************)
EXTENDS RevisionStreamQuery, FiniteSetTheorems, SequenceTheorems, TLAPS

-----------------------------------------------------------------------------
(* Numbers: least elements, powers of two, binary digits.                  *)

(* A set of numbers has a least one; inductions over data are least        *)
(* counterexamples.                                                        *)
LEMMA LeastNat ==
  ASSUME NEW S, S \subseteq Nat, S # {}
  PROVE  \E f \in S : \A j \in S : f <= j
<1> DEFINE R == {ss \in Nat \X Nat : ss[1] < ss[2]}
<1>1. R = OpToRel(<, Nat)
  BY DEF OpToRel
<1>2. IsWellFoundedOn(R, Nat)
  BY <1>1, NatLessThanWellFounded, Zenon
<1> HIDE DEF R
<1>3. PICK f \in S : \A j \in S : ~(<<j, f>> \in R)
  BY <1>2, WFMin
<1>4. \A j \in S : ~(j < f)
  BY <1>3 DEF R
<1>5. QED
  BY <1>4

(* Powers of two, from the cardinality of a set's subsets.                 *)
LEMMA Doubling ==
  ASSUME NEW n \in Nat
  PROVE  2 ^ n \in Nat /\ 2 ^ n > 0 /\ 2 ^ (n + 1) = 2 * 2 ^ n
<1> DEFINE A == SUBSET (1 .. n)
           C == SUBSET (1 .. n + 1)
           B == {T \cup {n + 1} : T \in A}
           f == [T \in A |-> T \cup {n + 1}]
<1>1. IsFiniteSet(1 .. n) /\ Cardinality(1 .. n) = n
  BY FS_Interval
<1>2. IsFiniteSet(1 .. n + 1) /\ Cardinality(1 .. n + 1) = n + 1
  BY FS_Interval
<1>3. IsFiniteSet(A) /\ Cardinality(A) = 2 ^ n
  BY <1>1, FS_SUBSET
<1>4. IsFiniteSet(C) /\ Cardinality(C) = 2 ^ (n + 1)
  BY <1>2, FS_SUBSET
<1>5. ExistsBijection(A, B)
  <2>1. f \in [A -> B]
    OBVIOUS
  <2>2. ASSUME NEW S \in A, NEW T \in A, f[S] = f[T] PROVE S = T
    <3>1. n + 1 \notin S /\ n + 1 \notin T
      OBVIOUS
    <3>2. S \cup {n + 1} = T \cup {n + 1}
      BY <2>2
    <3>3. QED
      BY <3>1, <3>2
  <2>3. \A y \in B : \E T \in A : f[T] = y
    OBVIOUS
  <2> HIDE DEF A, B, f
  <2>4. f \in Bijection(A, B)
    BY <2>1, <2>2, <2>3 DEF Bijection, Injection, Surjection, IsInjective
  <2>5. QED
    BY <2>4 DEF ExistsBijection
<1>6. IsFiniteSet(B) /\ Cardinality(B) = Cardinality(A)
  BY <1>3, <1>5, FS_Bijection
<1>7. C = A \cup B
  <2>1. ASSUME NEW T \in C PROVE T \in A \cup B
    <3>1. CASE n + 1 \in T
      <4>1. T \ {n + 1} \in A /\ T = (T \ {n + 1}) \cup {n + 1}
        BY <2>1, <3>1
      <4>2. QED
        BY <4>1
    <3>2. CASE n + 1 \notin T
      BY <2>1, <3>2
    <3>3. QED
      BY <3>1, <3>2
  <2>2. ASSUME NEW T \in A PROVE T \in C /\ T \cup {n + 1} \in C
    BY <2>2
  <2>3. \A U \in B : U \in C
    BY <2>2
  <2>4. \A U \in A : U \in C
    BY <2>2
  <2> HIDE DEF A, B, C
  <2>5. QED
    BY <2>1, <2>3, <2>4
<1>8. A \cap B = {}
  <2>1. ASSUME NEW T \in A PROVE n + 1 \notin T
    BY <2>1
  <2>2. QED
    BY <2>1
<1>9. Cardinality({}) = 0
  BY FS_EmptySet
<1>a. A # {}
  <2>1. {} \in A
    OBVIOUS
  <2>2. QED
    BY <2>1
<1> HIDE DEF A, B, C
<1>10. Cardinality(C) = Cardinality(A) + Cardinality(B) - 0
  BY <1>3, <1>6, <1>7, <1>8, <1>9, FS_Union
<1>11. Cardinality(A) \in Nat /\ Cardinality(A) # 0
  BY <1>3, <1>a, FS_CardinalityType, FS_EmptySet
<1>12. 2 ^ n \in Nat /\ 2 ^ n > 0
  BY <1>3, <1>11
<1>13. 2 ^ (n + 1) = 2 ^ n + 2 ^ n
  BY <1>3, <1>4, <1>6, <1>10, <1>12
<1>14. QED
  BY <1>12, <1>13

(* Dividing by a positive number.                                          *)
LEMMA Division ==
  ASSUME NEW x \in Nat, NEW d \in Nat, d > 0
  PROVE  /\ x = d * (x \div d) + (x % d)
         /\ x % d \in Nat /\ x % d < d
         /\ x \div d \in Nat
OBVIOUS

(* A quotient is determined by its remainder being small.                  *)
LEMMA Quotient ==
  ASSUME NEW x \in Nat, NEW d \in Nat, d > 0, NEW q \in Nat, NEW m \in Nat, m < d, x = d * q + m
  PROVE  x \div d = q /\ x % d = m
OBVIOUS

(* Adding one carries exactly when the remainder is the largest.           *)
LEMMA Carry ==
  ASSUME NEW x \in Nat, NEW d \in Nat, d > 0
  PROVE  /\ x % d = d - 1 => (x + 1) \div d = (x \div d) + 1 /\ (x + 1) % d = 0
         /\ x % d # d - 1 => (x + 1) \div d = x \div d /\ (x + 1) % d = (x % d) + 1
<1>1. x = d * (x \div d) + (x % d) /\ x % d \in Nat /\ x % d < d /\ x \div d \in Nat
  BY Division
<1>2. PICK q \in Nat, m \in Nat : q = x \div d /\ m = x % d
  BY <1>1
<1>3. CASE m = d - 1
  <2>1. x + 1 = d * (q + 1) + 0
    BY <1>1, <1>2, <1>3
  <2>2. QED
    BY <2>1, <1>2, <1>3, Quotient
<1>4. CASE m # d - 1
  <2>1. x + 1 = d * q + (m + 1) /\ m + 1 < d
    BY <1>1, <1>2, <1>4
  <2>2. QED
    BY <2>1, <1>2, <1>4, Quotient
<1>5. QED
  BY <1>3, <1>4

(* Division by 2d from division by d and the next binary digit.            *)
LEMMA Halve ==
  ASSUME NEW x \in Nat, NEW d \in Nat, d > 0
  PROVE  /\ x \div (2 * d) = (x \div d) \div 2
         /\ x % (2 * d) = (x % d) + d * ((x \div d) % 2)
         /\ x \div d = 2 * (x \div (2 * d)) + ((x \div d) % 2)
         /\ (x \div d) % 2 \in {0, 1}
<1>1. x = d * (x \div d) + (x % d) /\ x % d \in Nat /\ x % d < d /\ x \div d \in Nat
  BY Division
<1>2. PICK q \in Nat, m \in Nat : q = x \div d /\ m = x % d
  BY <1>1
<1>3. q = 2 * (q \div 2) + (q % 2) /\ q \div 2 \in Nat /\ q % 2 \in {0, 1}
  OBVIOUS
<1>4. PICK b \in {0, 1}, h \in Nat : b = q % 2 /\ h = q \div 2
  BY <1>3
<1>5. x = (2 * d) * h + (m + d * b)
  BY <1>1, <1>2, <1>3, <1>4
<1>6. m + d * b < 2 * d /\ m + d * b \in Nat
  BY <1>1, <1>2, <1>4
<1>7. x \div (2 * d) = h /\ x % (2 * d) = m + d * b
  BY <1>5, <1>6, Quotient
<1>8. QED
  BY <1>7, <1>2, <1>3, <1>4

(* The power at zero.                                                      *)
LEMMA Pow0 == 2 ^ 0 = 1
OBVIOUS

(* The remainder of a number whose low digits are all 1.                   *)
LEMMA LowOnes ==
  ASSUME NEW n \in Nat, NEW k \in Nat, \A j \in 0 .. k - 1 : (n \div 2 ^ j) % 2 = 1
  PROVE  n % 2 ^ k = 2 ^ k - 1
<1> DEFINE Bad == {i \in 0 .. k : n % 2 ^ i # 2 ^ i - 1}
<1>0. k \in 0 .. k
  OBVIOUS
<1>1. SUFFICES ASSUME Bad # {} PROVE FALSE
  BY <1>0
<1>2. PICK i \in Bad : \A j \in Bad : i <= j
  <2>1. Bad \subseteq Nat
    OBVIOUS
  <2> HIDE DEF Bad
  <2>2. QED
    BY <1>1, <2>1, LeastNat
<1>3. i # 0
  <2>1. n % 1 = 0
    OBVIOUS
  <2>2. n % 2 ^ 0 = 2 ^ 0 - 1
    BY <2>1, Pow0
  <2>3. QED
    BY <2>2
<1>4. PICK j \in Nat : i = j + 1
  <2>1. i \in Nat
    OBVIOUS
  <2>2. i - 1 \in Nat /\ i = (i - 1) + 1
    BY <2>1, <1>3
  <2>3. QED
    BY <2>2
<1>5. j \in 0 .. k - 1 /\ j \in 0 .. k
  BY <1>4
<1>6. n % 2 ^ j = 2 ^ j - 1
  BY <1>2, <1>4, <1>5
<1>7. 2 ^ j \in Nat /\ 2 ^ j > 0 /\ 2 ^ (j + 1) = 2 * 2 ^ j
  BY Doubling
<1>8. PICK d \in Nat : d = 2 ^ j /\ d > 0
  BY <1>7
<1>9. n % (2 * d) = (n % d) + d * ((n \div d) % 2)
  BY <1>8, Halve
<1>10. n % (2 * d) = 2 * d - 1
  BY <1>9, <1>6, <1>5, <1>8
<1>11. QED
  BY <1>10, <1>8, <1>7, <1>4

(* What adding one does to the quotients by powers of two, k being the     *)
(* lowest binary digit 0.                                                  *)
LowestZero(n, k) ==
  /\ \A j \in 0 .. k - 1 : (n \div 2 ^ j) % 2 = 1
  /\ (n \div 2 ^ k) % 2 = 0

(* One more revision: quotients grow up to digit k and stay above it.      *)
LEMMA Increment ==
  ASSUME NEW n \in Nat, NEW k \in Nat, LowestZero(n, k), NEW h \in Nat
  PROVE  /\ h <= k => n % 2 ^ h = 2 ^ h - 1 /\ (n + 1) \div 2 ^ h = (n \div 2 ^ h) + 1 /\ (n + 1) % 2 ^ h = 0
         /\ h > k => n % 2 ^ h # 2 ^ h - 1 /\ (n + 1) \div 2 ^ h = n \div 2 ^ h
<1>p. 2 ^ h \in Nat /\ 2 ^ h > 0
  BY Doubling
<1>1. CASE h <= k
  <2>1. n % 2 ^ h = 2 ^ h - 1
    <3>1. \A j \in 0 .. h - 1 : (n \div 2 ^ j) % 2 = 1
      BY <1>1 DEF LowestZero
    <3>2. QED
      BY <3>1, LowOnes
  <2>2. PICK d \in Nat : d = 2 ^ h /\ d > 0
    BY <1>p
  <2>3. (n + 1) \div d = (n \div d) + 1 /\ (n + 1) % d = 0
    BY <2>1, <2>2, Carry
  <2>4. QED
    BY <1>1, <2>1, <2>2, <2>3
<1>2. CASE h > k
  <2> DEFINE Bad == {i \in k + 1 .. h : n % 2 ^ i = 2 ^ i - 1}
  <2>1. Bad = {}
    <3>1. SUFFICES ASSUME Bad # {} PROVE FALSE
      OBVIOUS
    <3>2. PICK i \in Bad : \A j \in Bad : i <= j
      <4>1. Bad \subseteq Nat
        OBVIOUS
      <4> HIDE DEF Bad
      <4>2. QED
        BY <3>1, <4>1, LeastNat
    <3>3. PICK j \in Nat : i = j + 1 /\ j >= k
      <4>1. i \in Nat /\ i >= k + 1
        OBVIOUS
      <4>2. i - 1 \in Nat /\ i = (i - 1) + 1 /\ i - 1 >= k
        BY <4>1
      <4>3. QED
        BY <4>2
    <3>4. PICK d \in Nat : d = 2 ^ j /\ d > 0 /\ 2 ^ (j + 1) = 2 * d
      BY Doubling
    <3>5. n % (2 * d) = (n % d) + d * ((n \div d) % 2) /\ (n \div d) % 2 \in {0, 1}
      BY <3>4, Halve
    <3>6. n % d \in Nat /\ n % d < d
      BY <3>4, Division
    <3>7. n % (2 * d) = 2 * d - 1
      BY <3>3, <3>4
    <3>8. (n \div d) % 2 = 1 /\ n % d = d - 1
      BY <3>5, <3>6, <3>7, <3>4
    <3>9. CASE j = k
      BY <3>8, <3>9, <3>4 DEF LowestZero
    <3>10. CASE j # k
      <4>1. j \in k + 1 .. h /\ j < i
        BY <3>3, <3>10
      <4>2. j \in Bad
        BY <4>1, <3>8, <3>4
      <4>3. QED
        BY <4>1, <4>2, <3>2
    <3>11. QED
      BY <3>9, <3>10
  <2>2. n % 2 ^ h # 2 ^ h - 1
    BY <2>1, <1>2
  <2>3. PICK d \in Nat : d = 2 ^ h /\ d > 0
    BY <1>p
  <2>4. (n + 1) \div d = n \div d
    BY <2>2, <2>3, Carry
  <2>5. QED
    BY <1>2, <2>2, <2>3, <2>4
<1>3. QED
  BY <1>1, <1>2

-----------------------------------------------------------------------------
(* The binary counter: peaks and blocks of n revisions, and what one more  *)
(* revision does to them.                                                  *)

(* The integers' width and range.                                          *)
LEMMA WidthType == Width \in Nat /\ Width > 0 /\ MaxUint \in Nat /\ MaxUint > 0 /\ MaxUint = 2 ^ Width - 1
<1>1. Width \in Nat /\ Width > 0
  BY WidthAssumption
<1>2. Width - 1 \in Nat /\ Width = (Width - 1) + 1
  BY <1>1
<1>3. PICK w \in Nat : Width = w + 1
  BY <1>2
<1>4. 2 ^ w \in Nat /\ 2 ^ w > 0 /\ 2 ^ (w + 1) = 2 * 2 ^ w
  BY <1>3, Doubling
<1>5. PICK d \in Nat : d > 0 /\ 2 ^ Width = 2 * d
  BY <1>3, <1>4
<1>6. QED
  BY <1>1, <1>5 DEF MaxUint

(* A remainder by 2 is 0 or 1.                                             *)
LEMMA Parity ==
  ASSUME NEW q \in Nat
  PROVE  (q % 2 = 1 => (q + 1) % 2 = 0) /\ (q % 2 = 0 => (q + 1) % 2 = 1)
OBVIOUS

(* The peaks of n + 1 revisions: those below digit k merge into one of     *)
(* height k.                                                               *)
LEMMA PeakHeightsStep ==
  ASSUME NEW n \in Nat, NEW k \in 0 .. Width - 1, LowestZero(n, k)
  PROVE  PeakHeights(n + 1) = (PeakHeights(n) \ (0 .. k - 1)) \cup {k}
<1>w. Width \in Nat
  BY WidthType
<1>1. ASSUME NEW h \in 0 .. Width - 1
      PROVE  h \in PeakHeights(n + 1) <=> h \in (PeakHeights(n) \ (0 .. k - 1)) \cup {k}
  <2>0. h \in Nat /\ k \in Nat /\ 2 ^ h \in Nat /\ 2 ^ h > 0
    BY <1>w, Doubling
  <2>1. n \div 2 ^ h \in Nat /\ n + 1 \in Nat
    BY <2>0, Division
  <2>2. PICK q \in Nat : q = n \div 2 ^ h
    BY <2>1
  <2>3. CASE h < k
    <3>1. (n \div 2 ^ h) % 2 = 1
      BY <2>0, <2>3 DEF LowestZero
    <3>2. (n + 1) \div 2 ^ h = (n \div 2 ^ h) + 1
      BY <2>0, <2>3, Increment
    <3>3. (q + 1) % 2 = 0
      BY <3>1, <2>2, Parity
    <3>4. h \notin PeakHeights(n + 1)
      <4>1. ((n + 1) \div 2 ^ h) % 2 = 0
        BY <3>2, <3>3, <2>2
      <4>2. QED
        BY <4>1 DEF PeakHeights
    <3>5. QED
      BY <3>4, <2>3, <2>0
  <2>4. CASE h = k
    <3>1. (n \div 2 ^ h) % 2 = 0
      BY <2>4 DEF LowestZero
    <3>2. (n + 1) \div 2 ^ h = (n \div 2 ^ h) + 1
      BY <2>0, <2>4, Increment
    <3>3. (q + 1) % 2 = 1
      BY <3>1, <2>2, Parity
    <3>4. h \in PeakHeights(n + 1)
      BY <3>2, <3>3, <2>2 DEF PeakHeights
    <3>5. QED
      BY <3>4, <2>4
  <2>5. CASE h > k
    <3>1. (n + 1) \div 2 ^ h = n \div 2 ^ h
      BY <2>0, <2>5, Increment
    <3>2. h \in PeakHeights(n + 1) <=> h \in PeakHeights(n)
      BY <3>1 DEF PeakHeights
    <3>3. QED
      BY <3>2, <2>5, <2>0
  <2>6. QED
    BY <2>3, <2>4, <2>5, <2>0
<1>2. PeakHeights(n) \subseteq 0 .. Width - 1 /\ PeakHeights(n + 1) \subseteq 0 .. Width - 1
  BY DEF PeakHeights
<1>3. QED
  BY <1>1, <1>2

(* A peak above digit k starts where it did; the merged one takes the      *)
(* rest.                                                                   *)
LEMMA PeakStartStep ==
  ASSUME NEW n \in Nat, NEW k \in Nat, LowestZero(n, k)
  PROVE  /\ \A h \in Nat : h >= k => PeakStart(n + 1, h) = PeakStart(n, h)
         /\ PeakStart(n + 1, k) = n + 2 - 2 ^ k
         /\ \A j \in 0 .. k - 1 : /\ PeakStart(n, j) = n + 2 - 2 ^ (j + 1)
                                  /\ PeakStart(n, j) + 2 ^ j = n + 2 - 2 ^ j
<1>1. ASSUME NEW h \in Nat, h >= k PROVE PeakStart(n + 1, h) = PeakStart(n, h)
  <2>1. h + 1 \in Nat /\ h + 1 > k
    BY <1>1
  <2>2. (n + 1) \div 2 ^ (h + 1) = n \div 2 ^ (h + 1)
    BY <2>1, Increment
  <2>3. QED
    BY <2>2 DEF PeakStart
<1>2. PeakStart(n + 1, k) = n + 2 - 2 ^ k
  <2>1. PICK d \in Nat : d = 2 ^ k /\ d > 0 /\ 2 ^ (k + 1) = 2 * d
    BY Doubling
  <2>2. n % d = d - 1
    BY <2>1, Increment
  <2>3. n % (2 * d) = (n % d) + d * ((n \div d) % 2)
    BY <2>1, Halve
  <2>4. (n \div d) % 2 = 0
    BY <2>1 DEF LowestZero
  <2>5. n % (2 * d) = d - 1
    BY <2>2, <2>3, <2>4, <2>1
  <2>6. n = (2 * d) * (n \div (2 * d)) + (n % (2 * d)) /\ n \div (2 * d) \in Nat
    BY <2>1, Division
  <2>7. PICK q \in Nat : q = n \div (2 * d)
    BY <2>6
  <2>8. n = (2 * d) * q + (d - 1)
    BY <2>5, <2>6, <2>7
  <2>9. PeakStart(n + 1, k) = 1 + q * (2 * d)
    <3>1. PeakStart(n + 1, k) = PeakStart(n, k)
      BY <1>1
    <3>2. QED
      BY <3>1, <2>1, <2>7 DEF PeakStart
  <2>10. QED
    BY <2>8, <2>9, <2>1
<1>3. ASSUME NEW j \in 0 .. k - 1
      PROVE  PeakStart(n, j) = n + 2 - 2 ^ (j + 1) /\ PeakStart(n, j) + 2 ^ j = n + 2 - 2 ^ j
  <2>1. j \in Nat /\ j + 1 \in Nat /\ j + 1 <= k
    OBVIOUS
  <2>2. PICK d \in Nat : d = 2 ^ j /\ d > 0 /\ 2 ^ (j + 1) = 2 * d
    BY <2>1, Doubling
  <2>3. n % (2 * d) = 2 * d - 1
    BY <2>1, <2>2, Increment
  <2>4. n = (2 * d) * (n \div (2 * d)) + (n % (2 * d)) /\ n \div (2 * d) \in Nat
    BY <2>2, Division
  <2>5. PICK q \in Nat : q = n \div (2 * d)
    BY <2>4
  <2>6. n = (2 * d) * q + (2 * d - 1)
    BY <2>3, <2>4, <2>5
  <2>7. PeakStart(n, j) = 1 + q * (2 * d)
    BY <2>2, <2>5 DEF PeakStart
  <2>8. QED
    BY <2>6, <2>7, <2>2
<1>4. QED
  BY <1>1, <1>2, <1>3

(* The complete blocks of n + 1 revisions are those of n and the ones that *)
(* end there.                                                              *)
LEMMA BlocksStep ==
  ASSUME NEW n \in Nat, NEW k \in 0 .. Width - 1, LowestZero(n, k)
  PROVE  Blocks(n + 1) = Blocks(n) \cup {<<j, n + 2 - 2 ^ j>> : j \in 0 .. k}
<1>w. Width \in Nat /\ k \in Nat
  BY WidthType
<1> DEFINE New == {<<j, n + 2 - 2 ^ j>> : j \in 0 .. k}
<1>1. ASSUME NEW h \in 0 .. Width - 1, NEW a \in 1 .. n + 1
      PROVE  <<h, a>> \in Blocks(n + 1) <=> <<h, a>> \in Blocks(n) \cup New
  <2>1. h \in Nat
    BY <1>w
  <2>2. PICK d \in Nat : d = 2 ^ h /\ d > 0
    BY <2>1, Doubling
  <2>3. <<h, a>> \in Blocks(n + 1) <=> (a - 1) % d = 0 /\ a + d - 1 <= n + 1
    BY <2>2 DEF Blocks
  <2>4. <<h, a>> \in Blocks(n) <=> (a - 1) % d = 0 /\ a + d - 1 <= n
    BY <2>2 DEF Blocks
  <2>5. <<h, a>> \in New <=> h <= k /\ a = n + 2 - d
    BY <2>2, <2>1, <1>w
  <2>6. ASSUME a + d - 1 = n + 1 PROVE (a - 1) % d = 0 <=> h <= k
    <3>1. PICK m \in Nat : m = a - 1
      OBVIOUS
    <3>2. m % d = (n + 1) % d
      <4>1. n + 1 = m + d
        BY <2>6, <3>1, <2>2
      <4>2. m = d * (m \div d) + (m % d) /\ m % d \in Nat /\ m % d < d /\ m \div d \in Nat
        BY <2>2, Division
      <4>3. PICK q \in Nat, c \in Nat : q = m \div d /\ c = m % d
        BY <4>2
      <4>4. n + 1 = d * (q + 1) + c /\ c < d
        BY <4>1, <4>2, <4>3, <2>2
      <4>a. n + 1 \in Nat /\ q + 1 \in Nat
        OBVIOUS
      <4>5. (n + 1) % d = c
        BY <4>4, <4>a, <2>2, Quotient
      <4>6. QED
        BY <4>5, <4>3
    <3>3. (n + 1) % d = 0 <=> n % d = d - 1
      <4>1. n % d \in Nat
        BY <2>2, Division
      <4>2. n % d # d - 1 => (n + 1) % d = (n % d) + 1
        BY <2>2, Carry
      <4>3. n % d = d - 1 => (n + 1) % d = 0
        BY <2>2, Carry
      <4>4. QED
        BY <4>1, <4>2, <4>3
    <3>4. n % d = d - 1 <=> h <= k
      BY <2>1, <2>2, <1>w, Increment
    <3>5. QED
      BY <3>1, <3>2, <3>3, <3>4
  <2>7. QED
    BY <2>3, <2>4, <2>5, <2>6, <2>2
<1>2. ASSUME NEW b \in Blocks(n + 1)
      PROVE  b = <<b[1], b[2]>> /\ b[1] \in 0 .. Width - 1 /\ b[2] \in 1 .. n + 1
  BY DEF Blocks
<1>3. ASSUME NEW b \in Blocks(n)
      PROVE  b = <<b[1], b[2]>> /\ b[1] \in 0 .. Width - 1 /\ b[2] \in 1 .. n + 1
  BY DEF Blocks
<1>4. ASSUME NEW j \in 0 .. k
      PROVE  j \in 0 .. Width - 1 /\ n + 2 - 2 ^ j \in 1 .. n + 1
  <2>1. j \in Nat /\ j <= k
    BY <1>w
  <2>2. PICK d \in Nat : d = 2 ^ j /\ d > 0
    BY <2>1, Doubling
  <2>3. n % d = d - 1
    BY <2>1, <2>2, <1>w, Increment
  <2>4. n = d * (n \div d) + (n % d) /\ n \div d \in Nat
    BY <2>2, Division
  <2>5. n >= d - 1
    BY <2>3, <2>4, <2>2
  <2>6. QED
    BY <2>5, <2>2, <2>1, <1>w
<1>5. ASSUME NEW b \in New
      PROVE  b = <<b[1], b[2]>> /\ b[1] \in 0 .. Width - 1 /\ b[2] \in 1 .. n + 1
  BY <1>4
<1> HIDE DEF New
<1>6. Blocks(n + 1) = Blocks(n) \cup New
  BY <1>1, <1>2, <1>3, <1>5
<1>7. QED
  BY <1>6 DEF New

(* A peak is a complete block.                                             *)
LEMMA PeakBlock ==
  ASSUME NEW n \in Nat, NEW h \in PeakHeights(n)
  PROVE  <<h, PeakStart(n, h)>> \in Blocks(n)
<1>1. h \in Nat /\ h \in 0 .. Width - 1 /\ (n \div 2 ^ h) % 2 = 1
  BY WidthType DEF PeakHeights
<1>2. PICK d \in Nat : d = 2 ^ h /\ d > 0 /\ 2 ^ (h + 1) = 2 * d
  BY <1>1, Doubling
<1>3. n \div d = 2 * (n \div (2 * d)) + ((n \div d) % 2)
  BY <1>2, Halve
<1>4. n = d * (n \div d) + (n % d) /\ n % d \in Nat /\ n \div d \in Nat
  BY <1>2, Division
<1>5. n \div (2 * d) \in Nat
  BY <1>2, Division
<1>6. PICK q \in Nat, m \in Nat : q = n \div (2 * d) /\ m = n % d
  BY <1>4, <1>5
<1>7. n = d * (2 * q + 1) + m
  BY <1>1, <1>2, <1>3, <1>4, <1>6
<1>8. PeakStart(n, h) = 1 + q * (2 * d)
  BY <1>2, <1>6 DEF PeakStart
<1>9. PICK z \in Nat : z = q * (2 * d)
  BY <1>2
<1>10. z = d * (2 * q) + 0 /\ 2 * q \in Nat
  BY <1>9, <1>2
<1>11. z % d = 0
  BY <1>10, <1>2, Quotient
<1>12. 1 + z + d - 1 <= n
  <2>1. n = d * (2 * q) + d + m
    BY <1>7, <1>2
  <2>2. QED
    BY <2>1, <1>10, <1>2
<1>13. 1 + z \in 1 .. n /\ (1 + z) - 1 = z
  BY <1>12, <1>2
<1>14. QED
  BY <1>1, <1>2, <1>8, <1>9, <1>11, <1>12, <1>13 DEF Blocks

(* A block lies inside the revisions.                                      *)
LEMMA BlockBounds ==
  ASSUME NEW n \in Nat, NEW b \in Blocks(n)
  PROVE  /\ b = <<b[1], b[2]>> /\ b[1] \in Nat /\ b[1] \in 0 .. Width - 1 /\ b[2] \in 1 .. n /\ b[2] \in Nat
         /\ 2 ^ b[1] \in Nat /\ 2 ^ b[1] > 0
         /\ (b[2] - 1) % 2 ^ b[1] = 0 /\ b[2] + 2 ^ b[1] - 1 <= n
<1>1. b = <<b[1], b[2]>> /\ b[1] \in Nat /\ b[1] \in 0 .. Width - 1 /\ b[2] \in 1 .. n /\ b[2] \in Nat
  BY WidthType DEF Blocks
<1>2. QED
  BY <1>1, Doubling DEF Blocks

(* Blocks stay blocks as the stream grows.                                 *)
LEMMA BlocksGrow ==
  ASSUME NEW n \in Nat, NEW m \in Nat, m <= n
  PROVE  Blocks(m) \subseteq Blocks(n)
<1>1. SUFFICES ASSUME NEW b \in Blocks(m) PROVE b \in Blocks(n)
  OBVIOUS
<1>2. /\ b = <<b[1], b[2]>> /\ b[1] \in Nat /\ b[1] \in 0 .. Width - 1 /\ b[2] \in 1 .. m /\ b[2] \in Nat
      /\ 2 ^ b[1] \in Nat /\ 2 ^ b[1] > 0
      /\ (b[2] - 1) % 2 ^ b[1] = 0 /\ b[2] + 2 ^ b[1] - 1 <= m
  BY BlockBounds
<1>3. b \in (0 .. Width - 1) \X (1 .. n) /\ b[2] + 2 ^ b[1] - 1 <= n
  BY <1>2
<1>4. QED
  BY <1>2, <1>3 DEF Blocks

(* Both halves of a block are blocks.                                      *)
LEMMA ChildBlocks ==
  ASSUME NEW n \in Nat, NEW h \in Nat, NEW a, <<h + 1, a>> \in Blocks(n)
  PROVE  <<h, a>> \in Blocks(n) /\ <<h, a + 2 ^ h>> \in Blocks(n)
<1>1. /\ h + 1 \in 0 .. Width - 1 /\ a \in 1 .. n
      /\ (a - 1) % 2 ^ (h + 1) = 0 /\ a + 2 ^ (h + 1) - 1 <= n
  BY DEF Blocks
<1>2. PICK d \in Nat : d = 2 ^ h /\ d > 0 /\ 2 ^ (h + 1) = 2 * d
  BY Doubling
<1>3. PICK m \in Nat : m = a - 1
  BY <1>1
<1>4. m = (2 * d) * (m \div (2 * d)) + (m % (2 * d)) /\ m \div (2 * d) \in Nat
  BY <1>2, Division
<1>5. PICK q \in Nat : q = m \div (2 * d)
  BY <1>4
<1>6. m = d * (2 * q) + 0 /\ 2 * q \in Nat
  <2>1. m % (2 * d) = 0
    BY <1>1, <1>2, <1>3
  <2>2. m = (2 * d) * q
    BY <2>1, <1>4, <1>5, <1>2
  <2>3. QED
    BY <2>2, <1>2
<1>7. m % d = 0
  BY <1>6, <1>2, Quotient
<1>8. m + d = d * (2 * q + 1) + 0 /\ 2 * q + 1 \in Nat /\ m + d \in Nat
  BY <1>6, <1>2
<1>9. (m + d) % d = 0
  BY <1>8, <1>2, Quotient
<1>10. h \in 0 .. Width - 1
  BY <1>1, WidthType
<1>11. <<h, a>> \in Blocks(n)
  <2>1. a + d - 1 <= n /\ (a - 1) % d = 0
    BY <1>1, <1>2, <1>3, <1>7
  <2>2. QED
    BY <2>1, <1>1, <1>2, <1>10 DEF Blocks
<1>12. <<h, a + d>> \in Blocks(n)
  <2>1. a + d \in 1 .. n /\ (a + d) + d - 1 <= n /\ (a + d) - 1 = m + d
    BY <1>1, <1>2, <1>3
  <2>2. QED
    BY <2>1, <1>9, <1>2, <1>10 DEF Blocks
<1>13. QED
  BY <1>11, <1>12, <1>2

(* p lists the members of S from the greatest to the least.                *)
Descending(p, S) ==
  /\ p \in Seq(Nat)
  /\ {p[i] : i \in 1 .. Len(p)} = S
  /\ \A i, j \in 1 .. Len(p) : i < j => p[i] > p[j]

(* A member's place in a descending list is its rank.                      *)
LEMMA DescendingRank ==
  ASSUME NEW S, NEW p, Descending(p, S), NEW i \in 1 .. Len(p)
  PROVE  Cardinality({g \in S : g >= p[i]}) = i
<1> DEFINE A == {g \in S : g >= p[i]}
           f == [j \in 1 .. i |-> p[j]]
<1>1. p \in Seq(Nat) /\ Len(p) \in Nat /\ DOMAIN p = 1 .. Len(p) /\ \A j \in 1 .. Len(p) : p[j] \in Nat /\ p[j] \in S
  BY DEF Descending
<1>2. ASSUME NEW j \in 1 .. i PROVE j \in 1 .. Len(p) /\ p[j] \in A
  <2>1. j \in 1 .. Len(p)
    BY <1>1
  <2>2. p[j] >= p[i]
    <3>1. CASE j = i
      BY <3>1, <1>1
    <3>2. CASE j < i
      BY <3>2, <2>1, <1>1 DEF Descending
    <3>3. QED
      BY <3>1, <3>2
  <2>3. QED
    BY <2>1, <2>2, <1>1
<1>3. f \in [1 .. i -> A]
  BY <1>2
<1>4. ASSUME NEW j \in 1 .. i, NEW l \in 1 .. i, f[j] = f[l] PROVE j = l
  <2>1. j \in 1 .. Len(p) /\ l \in 1 .. Len(p) /\ p[j] = p[l]
    BY <1>2, <1>4
  <2>2. ~(j < l) /\ ~(l < j)
    BY <2>1, <1>1 DEF Descending
  <2>3. QED
    BY <2>2
<1>5. ASSUME NEW g \in A PROVE \E j \in 1 .. i : f[j] = g
  <2>1. PICK j \in 1 .. Len(p) : p[j] = g
    BY DEF Descending
  <2>2. ~(i < j)
    BY <2>1, <1>1 DEF Descending
  <2>3. j \in 1 .. i
    BY <2>2, <1>1
  <2>4. QED
    BY <2>1, <2>3
<1> HIDE DEF A, f
<1>6. f \in Bijection(1 .. i, A)
  BY <1>3, <1>4, <1>5 DEF Bijection, Injection, Surjection, IsInjective
<1>7. IsFiniteSet(1 .. i) /\ Cardinality(1 .. i) = i
  <2>1. 1 \in Int /\ i \in Int /\ i >= 1
    BY <1>1
  <2>2. QED
    BY <2>1, FS_Interval
<1>8. ExistsBijection(1 .. i, A)
  BY <1>6 DEF ExistsBijection
<1>9. Cardinality(A) = i
  BY <1>7, <1>8, FS_Bijection
<1>10. QED
  BY <1>9 DEF A

(* There is one descending list of a set.                                  *)
LEMMA DescendingUnique ==
  ASSUME NEW n \in Nat, NEW p, Descending(p, PeakHeights(n))
  PROVE  PeakSeq(n) = p
<1> DEFINE S == PeakHeights(n)
           A(h) == {g \in S : g >= h}
<1>1. p \in Seq(Nat) /\ Len(p) \in Nat /\ DOMAIN p = 1 .. Len(p) /\ p = [i \in 1 .. Len(p) |-> p[i]]
  BY DEF Descending
<1>2. \A i \in 1 .. Len(p) : Cardinality(A(p[i])) = i /\ p[i] \in S
  <2>1. \A i \in 1 .. Len(p) : p[i] \in S
    BY DEF Descending
  <2>2. QED
    BY <2>1, DescendingRank
<1>3. Cardinality(S) = Len(p)
  <2>1. CASE Len(p) = 0
    <3>1. S = {}
      BY <2>1 DEF Descending
    <3>2. QED
      BY <3>1, <2>1, FS_EmptySet
  <2>2. CASE Len(p) > 0
    <3>1. Len(p) \in 1 .. Len(p)
      BY <2>2, <1>1
    <3>2. A(p[Len(p)]) = S
      <4>1. ASSUME NEW g \in S PROVE g >= p[Len(p)]
        <5>1. PICK j \in 1 .. Len(p) : p[j] = g
          BY DEF Descending
        <5>2. p[j] \in Nat /\ p[Len(p)] \in Nat
          BY <1>1, <3>1
        <5>3. QED
          BY <5>1, <5>2, <3>1, <1>1 DEF Descending
      <4>2. QED
        BY <4>1
    <3>3. QED
      BY <1>2, <3>1, <3>2
  <2>3. QED
    BY <2>1, <2>2, <1>1
<1>4. ASSUME NEW i \in 1 .. Len(p)
      PROVE  (CHOOSE h \in S : Cardinality(A(h)) = i) = p[i]
  <2>1. p[i] \in S /\ Cardinality(A(p[i])) = i
    BY <1>2
  <2>2. ASSUME NEW h \in S, Cardinality(A(h)) = i PROVE h = p[i]
    <3>1. PICK j \in 1 .. Len(p) : p[j] = h
      BY DEF Descending
    <3>2. QED
      BY <3>1, <2>2, <1>2
  <2> HIDE DEF A, S
  <2>3. QED
    BY <2>1, <2>2
<1>5. PeakSeq(n) = [i \in 1 .. Cardinality(S) |-> CHOOSE h \in S : Cardinality(A(h)) = i]
  BY DEF PeakSeq
<1> HIDE DEF S, A
<1>6. QED
  BY <1>1, <1>3, <1>4, <1>5

(* The new leaf swallows the k lowest peaks, and no more.                  *)
Swallows(p, k) ==
  /\ k \in 0 .. Len(p)
  /\ \A j \in 0 .. k - 1 : p[Len(p) - j] = j
  /\ k < Len(p) => p[Len(p) - k] # k

(* Some number of peaks is swallowed.                                      *)
LEMMA SwallowsExists ==
  ASSUME NEW p \in Seq(Nat)
  PROVE  \E k : Swallows(p, k)
<1> DEFINE Stop == {k \in 0 .. Len(p) : k < Len(p) => p[Len(p) - k] # k}
<1>0. Len(p) \in Nat
  OBVIOUS
<1>1. Stop \subseteq Nat /\ Len(p) \in Stop
  BY <1>0
<1>2. PICK k \in Stop : \A j \in Stop : k <= j
  <2> HIDE DEF Stop
  <2>1. QED
    BY <1>1, LeastNat
<1>3. ASSUME NEW j \in 0 .. k - 1 PROVE p[Len(p) - j] = j
  <2>1. j \notin Stop
    BY <1>2
  <2>2. j \in 0 .. Len(p) /\ j < Len(p)
    BY <1>0
  <2>3. QED
    BY <2>1, <2>2
<1>4. Swallows(p, k)
  BY <1>3 DEF Swallows
<1>5. QED
  BY <1>4

(* It is the lowest digit 0 of the number of revisions.                    *)
LEMMA SwallowsLowest ==
  ASSUME NEW n \in Nat, n < MaxUint, NEW p, Descending(p, PeakHeights(n)), NEW k, Swallows(p, k)
  PROVE  k \in 0 .. Width - 1 /\ k \in Nat /\ LowestZero(n, k)
<1>1. p \in Seq(Nat) /\ Len(p) \in Nat /\ DOMAIN p = 1 .. Len(p) /\ (\A i \in 1 .. Len(p) : p[i] \in Nat)
  BY DEF Descending
<1>2. k \in Nat /\ k <= Len(p)
  BY <1>1 DEF Swallows
<1>3. ASSUME NEW j \in 0 .. k - 1
      PROVE  j \in PeakHeights(n) /\ (n \div 2 ^ j) % 2 = 1 /\ j < Width
  <2>1. p[Len(p) - j] = j /\ Len(p) - j \in 1 .. Len(p)
    BY <1>1, <1>2 DEF Swallows
  <2>2. j \in PeakHeights(n)
    BY <2>1 DEF Descending
  <2>3. QED
    BY <2>2, WidthType DEF PeakHeights
<1>4. k <= Width - 1
  <2>1. SUFFICES ASSUME k > Width - 1 PROVE FALSE
    BY <1>2, WidthType
  <2>2. Width \in Nat /\ \A j \in 0 .. Width - 1 : j \in 0 .. k - 1
    BY <2>1, <1>2, WidthType
  <2>3. n % 2 ^ Width = 2 ^ Width - 1
    BY <2>2, <1>3, LowOnes
  <2>4. PICK d \in Nat : d = 2 ^ Width /\ d > 0
    BY <2>2, Doubling
  <2>5. n = d * (n \div d) + (n % d) /\ n \div d \in Nat
    BY <2>4, Division
  <2>6. n >= d - 1
    BY <2>3, <2>4, <2>5
  <2>7. QED
    BY <2>6, <2>4, WidthType
<1>5. k \notin PeakHeights(n)
  <2>1. SUFFICES ASSUME k \in PeakHeights(n) PROVE FALSE
    OBVIOUS
  <2>2. PICK i \in 1 .. Len(p) : p[i] = k
    BY <2>1 DEF Descending
  <2>3. i <= Len(p) - k
    <3>1. SUFFICES ASSUME i > Len(p) - k PROVE FALSE
      BY <1>1, <1>2
    <3>2. Len(p) - i \in 0 .. k - 1 /\ Len(p) - (Len(p) - i) = i
      BY <3>1, <1>1, <1>2
    <3>3. p[i] = Len(p) - i
      BY <3>2 DEF Swallows
    <3>4. QED
      BY <3>3, <3>2, <2>2, <1>2
  <2>4. Len(p) - k \in 1 .. Len(p) /\ k < Len(p)
    BY <2>3, <1>1, <1>2
  <2>5. p[Len(p) - k] # k
    BY <2>4 DEF Swallows
  <2>6. i < Len(p) - k
    BY <2>3, <2>5, <2>2, <1>1, <1>2
  <2>7. p[Len(p) - k] < k
    BY <2>6, <2>4, <2>2, <1>1 DEF Descending
  <2>8. k # 0
    BY <2>7, <2>4, <1>1
  <2>9. p[Len(p) - (k - 1)] = k - 1 /\ Len(p) - (k - 1) \in 1 .. Len(p) /\ Len(p) - k < Len(p) - (k - 1)
    BY <2>8, <1>1, <1>2 DEF Swallows
  <2>10. p[Len(p) - k] > k - 1
    BY <2>9, <2>4, <1>1 DEF Descending
  <2>11. p[Len(p) - k] \in Nat
    BY <2>4, <1>1
  <2>12. QED
    BY <2>7, <2>10, <2>11, <1>2
<1>6. (n \div 2 ^ k) % 2 = 0
  <2>1. k \in 0 .. Width - 1
    BY <1>2, <1>4, WidthType
  <2>2. (n \div 2 ^ k) % 2 # 1
    BY <2>1, <1>5 DEF PeakHeights
  <2>3. 2 ^ k \in Nat /\ 2 ^ k > 0
    BY <1>2, Doubling
  <2>4. (n \div 2 ^ k) % 2 \in {0, 1}
    BY <2>3, Halve
  <2>5. QED
    BY <2>2, <2>4
<1>7. QED
  BY <1>2, <1>3, <1>4, <1>6, WidthType DEF LowestZero

(* The list that remains, with the merged peak at its end, is the new      *)
(* list.                                                                   *)
LEMMA NextHeights ==
  ASSUME NEW n \in Nat, n < MaxUint, NEW p, Descending(p, PeakHeights(n)), NEW k, Swallows(p, k)
  PROVE  Descending(Append(SubSeq(p, 1, Len(p) - k), k), PeakHeights(n + 1))
<1>0. k \in 0 .. Width - 1 /\ k \in Nat /\ LowestZero(n, k)
  BY SwallowsLowest
<1>1. p \in Seq(Nat) /\ Len(p) \in Nat /\ DOMAIN p = 1 .. Len(p) /\ (\A i \in 1 .. Len(p) : p[i] \in Nat)
  BY DEF Descending
<1>2. k <= Len(p) /\ Len(p) - k \in 0 .. Len(p)
  BY <1>0, <1>1 DEF Swallows
<1>3. PICK m \in Nat : m = Len(p) - k /\ m <= Len(p)
  <2>1. Len(p) - k \in Nat /\ Len(p) - k <= Len(p)
    BY <1>2, <1>1, <1>0
  <2>2. QED
    BY <2>1
<1> DEFINE q == Append(SubSeq(p, 1, m), k)
<1>4. q \in Seq(Nat) /\ Len(q) = m + 1 /\ q[m + 1] = k /\ \A i \in 1 .. m : q[i] = p[i] /\ i \in 1 .. Len(p)
  BY <1>0, <1>1, <1>3
<1>5. PeakHeights(n + 1) = (PeakHeights(n) \ (0 .. k - 1)) \cup {k}
  BY <1>0, PeakHeightsStep
<1>6. ASSUME NEW i \in 1 .. m PROVE p[i] > k /\ p[i] \in PeakHeights(n)
  <2>1. i \in 1 .. Len(p) /\ p[i] \in Nat
    BY <1>1, <1>3
  <2>2. p[i] \in PeakHeights(n)
    BY <2>1 DEF Descending
  <2>3. p[i] # k
    <3>1. (n \div 2 ^ k) % 2 = 0
      BY <1>0 DEF LowestZero
    <3>2. k \notin PeakHeights(n)
      BY <3>1 DEF PeakHeights
    <3>3. QED
      BY <3>2, <2>2
  <2>4. p[i] > k - 1
    <3>1. CASE k = 0
      BY <3>1, <2>1
    <3>2. CASE k > 0
      <4>1. p[Len(p) - (k - 1)] = k - 1 /\ Len(p) - (k - 1) \in 1 .. Len(p) /\ i < Len(p) - (k - 1)
        BY <3>2, <1>0, <1>1, <1>2, <1>3 DEF Swallows
      <4>2. QED
        BY <4>1, <2>1, <1>1 DEF Descending
    <3>3. QED
      BY <3>1, <3>2, <1>0
  <2>5. QED
    BY <2>1, <2>2, <2>3, <2>4, <1>0
<1>7. \A i, j \in 1 .. Len(p) : i < j => p[i] > p[j]
  BY DEF Descending
<1>8. ASSUME NEW g \in PeakHeights(n), g \notin 0 .. k - 1 PROVE \E i \in 1 .. m : p[i] = g
  <2>1. PICK i \in 1 .. Len(p) : p[i] = g
    BY DEF Descending
  <2>2. i <= m
    <3>1. SUFFICES ASSUME i > m PROVE FALSE
      BY <1>3
    <3>2. Len(p) - i \in 0 .. k - 1 /\ Len(p) - (Len(p) - i) = i
      BY <3>1, <1>1, <1>3, <1>0
    <3>3. p[i] = Len(p) - i
      BY <3>2 DEF Swallows
    <3>4. QED
      BY <3>3, <3>2, <2>1, <1>8
  <2>3. i \in 1 .. m
    BY <2>2, <1>3
  <2>4. QED
    BY <2>1, <2>3
<1> HIDE DEF q
<1>9. {q[i] : i \in 1 .. Len(q)} = PeakHeights(n + 1)
  <2>1. ASSUME NEW i \in 1 .. Len(q) PROVE q[i] \in PeakHeights(n + 1)
    <3>1. CASE i = m + 1
      BY <3>1, <1>4, <1>5
    <3>2. CASE i # m + 1
      <4>1. i \in 1 .. m
        BY <3>2, <1>4, <1>3
      <4>2. q[i] = p[i] /\ p[i] > k /\ p[i] \in PeakHeights(n)
        BY <4>1, <1>4, <1>6
      <4>3. QED
        BY <4>2, <1>5, <1>0
    <3>3. QED
      BY <3>1, <3>2
  <2>2. ASSUME NEW g \in PeakHeights(n + 1) PROVE \E i \in 1 .. Len(q) : q[i] = g
    <3>1. CASE g = k
      <4>1. m + 1 \in 1 .. Len(q)
        BY <1>4, <1>3
      <4>2. QED
        BY <4>1, <3>1, <1>4
    <3>2. CASE g # k
      <4>1. g \in PeakHeights(n) /\ g \notin 0 .. k - 1
        BY <3>2, <1>5
      <4>2. PICK i \in 1 .. m : p[i] = g
        BY <4>1, <1>8
      <4>3. i \in 1 .. Len(q) /\ q[i] = g
        BY <4>2, <1>4, <1>3
      <4>4. QED
        BY <4>3
    <3>3. QED
      BY <3>1, <3>2
  <2>3. QED
    BY <2>1, <2>2
<1>10. ASSUME NEW i \in 1 .. Len(q), NEW j \in 1 .. Len(q), i < j PROVE q[i] > q[j]
  <2>1. i \in 1 .. m
    BY <1>10, <1>4, <1>3
  <2>2. CASE j = m + 1
    BY <2>1, <2>2, <1>4, <1>6
  <2>3. CASE j # m + 1
    <3>1. j \in 1 .. m
      BY <2>3, <1>4, <1>3
    <3>2. QED
      BY <3>1, <2>1, <1>10, <1>4, <1>7
  <2>4. QED
    BY <2>2, <2>3
<1>11. Descending(q, PeakHeights(n + 1))
  BY <1>4, <1>9, <1>10 DEF Descending
<1>12. QED
  BY <1>11, <1>3 DEF q

(* No revisions, no peaks.                                                 *)
LEMMA NoHeights ==
  PeakHeights(0) = {}
<1>1. ASSUME NEW h \in PeakHeights(0) PROVE FALSE
  <2>1. h \in Nat /\ (0 \div 2 ^ h) % 2 = 1
    BY WidthType DEF PeakHeights
  <2>2. PICK d \in Nat : d = 2 ^ h /\ d > 0
    BY <2>1, Doubling
  <2>3. 0 = d * 0 + 0
    BY <2>2
  <2>4. 0 \div d = 0
    BY <2>2, <2>3, Quotient
  <2>5. QED
    BY <2>1, <2>2, <2>4
<1>2. QED
  BY <1>1

(* PeakSeq lists the peak heights from the greatest to the least.          *)
LEMMA PeakSeqDescending ==
  ASSUME NEW n \in 0 .. MaxUint
  PROVE  Descending(PeakSeq(n), PeakHeights(n))
<1> DEFINE Has(i) == \E p : Descending(p, PeakHeights(i))
           Bad == {i \in 0 .. n : ~Has(i)}
<1>0. n \in Nat /\ n <= MaxUint /\ n \in 0 .. n
  BY WidthType
<1>1. Bad = {}
  <2>1. SUFFICES ASSUME Bad # {} PROVE FALSE
    OBVIOUS
  <2>2. PICK i \in Bad : \A j \in Bad : i <= j
    <3>1. Bad \subseteq Nat
      BY <1>0
    <3> HIDE DEF Bad
    <3>2. QED
      BY <2>1, <3>1, LeastNat
  <2>3. i # 0
    <3>1. Descending(<<>>, PeakHeights(0))
      BY NoHeights DEF Descending
    <3>2. QED
      BY <3>1
  <2>4. i \in Nat /\ i <= n /\ ~Has(i)
    BY <1>0
  <2>5. PICK m \in Nat : i = m + 1
    <3>1. i - 1 \in Nat /\ i = (i - 1) + 1
      BY <2>3, <2>4
    <3>2. QED
      BY <3>1
  <2>6. m \in 0 .. n /\ m < i /\ m < MaxUint
    BY <2>5, <2>4, <1>0, WidthType
  <2>7. m \notin Bad
    BY <2>2, <2>6
  <2>8. PICK p : Descending(p, PeakHeights(m))
    BY <2>6, <2>7
  <2>9. p \in Seq(Nat)
    BY <2>8 DEF Descending
  <2>10. PICK k : Swallows(p, k)
    BY <2>9, SwallowsExists
  <2>11. Descending(Append(SubSeq(p, 1, Len(p) - k), k), PeakHeights(m + 1))
    BY <2>6, <2>8, <2>10, NextHeights
  <2>12. QED
    BY <2>11, <2>5, <2>4
<1>2. PICK p : Descending(p, PeakHeights(n))
  BY <1>0, <1>1
<1>3. QED
  BY <1>0, <1>2, DescendingUnique

-----------------------------------------------------------------------------
(* Appending a leaf: appendRevisionStreamMerkleLeaf on the peaks of n      *)
(* revisions gives the peaks of n + 1.                                     *)

(* The peaks of the first n revisions of s.                                *)
PeaksOf(s, n) ==
  [i \in DOMAIN PeakSeq(n) |-> [height |-> PeakSeq(n)[i], startRevision |-> PeakStart(n, PeakSeq(n)[i]),
                                root |-> NodeRoot(s, PeakSeq(n)[i], PeakStart(n, PeakSeq(n)[i]))]]

(* Types and fields of the peaks.                                          *)
LEMMA PeaksOfType ==
  ASSUME NEW s, NEW n \in 0 .. MaxUint
  PROVE  /\ n \in Nat /\ Descending(PeakSeq(n), PeakHeights(n))
         /\ PeakSeq(n) \in Seq(Nat) /\ Len(PeakSeq(n)) \in Nat /\ DOMAIN PeakSeq(n) = 1 .. Len(PeakSeq(n))
         /\ PeaksOf(s, n) \in Seq({PeaksOf(s, n)[i] : i \in 1 .. Len(PeakSeq(n))})
         /\ Len(PeaksOf(s, n)) = Len(PeakSeq(n)) /\ DOMAIN PeaksOf(s, n) = 1 .. Len(PeakSeq(n))
         /\ \A i \in 1 .. Len(PeakSeq(n)) :
              /\ PeakSeq(n)[i] \in PeakHeights(n)
              /\ PeaksOf(s, n)[i] =
                   [height |-> PeakSeq(n)[i], startRevision |-> PeakStart(n, PeakSeq(n)[i]),
                    root |-> NodeRoot(s, PeakSeq(n)[i], PeakStart(n, PeakSeq(n)[i]))]
<1>0. n \in Nat
  BY WidthType
<1>1. Descending(PeakSeq(n), PeakHeights(n))
  BY PeakSeqDescending
<1>2. PeakSeq(n) \in Seq(Nat) /\ Len(PeakSeq(n)) \in Nat /\ DOMAIN PeakSeq(n) = 1 .. Len(PeakSeq(n))
  BY <1>1 DEF Descending
<1>3. \A i \in 1 .. Len(PeakSeq(n)) : PeakSeq(n)[i] \in PeakHeights(n)
  BY <1>1 DEF Descending
<1>4. DOMAIN PeaksOf(s, n) = 1 .. Len(PeakSeq(n))
  BY <1>2 DEF PeaksOf
<1>5. \A i \in 1 .. Len(PeakSeq(n)) :
        PeaksOf(s, n)[i] = [height |-> PeakSeq(n)[i], startRevision |-> PeakStart(n, PeakSeq(n)[i]),
                            root |-> NodeRoot(s, PeakSeq(n)[i], PeakStart(n, PeakSeq(n)[i]))]
  BY <1>2 DEF PeaksOf
<1>6. PICK q : q = PeaksOf(s, n)
  OBVIOUS
<1>a. PICK m \in Nat : m = Len(PeakSeq(n))
  BY <1>2
<1>7. q = [i \in 1 .. m |-> q[i]]
  BY <1>2, <1>6, <1>a DEF PeaksOf
<1>8. q \in Seq({q[i] : i \in 1 .. m}) /\ Len(q) = m
  BY <1>7
<1>9. QED
  BY <1>0, <1>1, <1>2, <1>3, <1>4, <1>5, <1>6, <1>8, <1>a

(* The merge loop stops after the swallowed peaks.                         *)
LEMMA MergesSwallows ==
  ASSUME NEW s, NEW n \in 0 .. MaxUint
  PROVE  Swallows(PeakSeq(n), Merges(PeaksOf(s, n)))
<1> DEFINE p == PeakSeq(n)
           previous == PeaksOf(s, n)
<1>0. p \in Seq(Nat) /\ Len(p) \in Nat /\ Len(previous) = Len(p)
  BY PeaksOfType
<1>a. ASSUME NEW i \in 1 .. Len(p) PROVE previous[i].height = p[i]
  <2>1. previous[i] = [height |-> p[i], startRevision |-> PeakStart(n, p[i]),
                       root |-> NodeRoot(s, p[i], PeakStart(n, p[i]))]
    BY PeaksOfType
  <2>2. QED
    BY <2>1
<1>1. p \in Seq(Nat) /\ Len(p) \in Nat /\ Len(previous) = Len(p) /\ \A i \in 1 .. Len(p) : previous[i].height = p[i]
  BY <1>0, <1>a
<1> HIDE DEF p, previous
<1>2. PICK k : Swallows(p, k)
  BY <1>1, SwallowsExists
<1>3. ASSUME NEW k1 \in 0 .. Len(previous)
      PROVE  Swallows(p, k1) <=> /\ \A j \in 0 .. k1 - 1 : previous[Len(previous) - j].height = j
                                 /\ k1 < Len(previous) => previous[Len(previous) - k1].height # k1
  <2>1. \A j \in 0 .. k1 - 1 : Len(p) - j \in 1 .. Len(p)
    BY <1>1
  <2>2. k1 < Len(p) => Len(p) - k1 \in 1 .. Len(p)
    BY <1>1
  <2>3. QED
    BY <2>1, <2>2, <1>1 DEF Swallows
<1>4. k \in 0 .. Len(previous)
  BY <1>1, <1>2 DEF Swallows
<1>5. Swallows(p, Merges(previous))
  BY <1>2, <1>3, <1>4 DEF Merges
<1>6. QED
  BY <1>5 DEF p, previous

(* What each round of the merge loop creates.                              *)
LEMMA CreatedNodesStep ==
  ASSUME NEW stream, NEW previous, NEW revision, NEW leaf, Merges(previous) \in Nat
  PROVE  LET c == CreatedNodes(stream, previous, revision, leaf)
         IN  /\ DOMAIN c = 0 .. Merges(previous)
             /\ c[0] = [height |-> 0, startRevision |-> revision, root |-> leaf]
             /\ \A j \in 0 .. Merges(previous) - 1 :
                  c[j + 1] = [height |-> j + 1, startRevision |-> previous[Len(previous) - j].startRevision,
                              root |-> calculateRevisionStreamMerkleNode(
                                         stream, j + 1, previous[Len(previous) - j].startRevision,
                                         previous[Len(previous) - j].root, c[j].root)]
<1> DEFINE Left(k) == previous[Len(previous) - k + 1]
           Up(k, r) == [height |-> k, startRevision |-> Left(k).startRevision,
                        root |-> calculateRevisionStreamMerkleNode(stream, k, Left(k).startRevision, Left(k).root, r)]
           Base == [height |-> 0, startRevision |-> revision, root |-> leaf]
           m == Merges(previous)
           Grows(i) == \E g : g = [k \in 0 .. i |-> IF k = 0 THEN Base ELSE Up(k, g[k - 1].root)]
           Bad == {i \in 0 .. m : ~Grows(i)}
<1>0. m \in Nat /\ m \in 0 .. m
  OBVIOUS
<1>1. Bad = {}
  <2>1. SUFFICES ASSUME Bad # {} PROVE FALSE
    OBVIOUS
  <2>2. PICK i \in Bad : \A j \in Bad : i <= j
    <3>1. Bad \subseteq Nat
      BY <1>0
    <3> HIDE DEF Bad
    <3>2. QED
      BY <2>1, <3>1, LeastNat
  <2> HIDE DEF Up, Base, m
  <2>3. Grows(0)
    <3>1. [k \in 0 .. 0 |-> Base] = [k \in 0 .. 0 |-> IF k = 0 THEN Base ELSE Up(k, [l \in 0 .. 0 |-> Base][k - 1].root)]
      OBVIOUS
    <3>2. QED
      BY <3>1
  <2>a. ~Grows(i) /\ i \in 0 .. m
    OBVIOUS
  <2>4. i \in Nat /\ i # 0 /\ i <= m
    <3> HIDE DEF Grows
    <3>1. QED
      BY <2>a, <2>3, <1>0
  <2>5. PICK l \in Nat : i = l + 1
    <3>1. i - 1 \in Nat /\ i = (i - 1) + 1
      BY <2>4
    <3>2. QED
      BY <3>1
  <2>6. l \in 0 .. m /\ l < i
    BY <2>4, <2>5, <1>0
  <2>7. Grows(l)
    BY <2>2, <2>6
  <2>8. PICK g : g = [k \in 0 .. l |-> IF k = 0 THEN Base ELSE Up(k, g[k - 1].root)]
    BY <2>7
  <2> DEFINE f == [k \in 0 .. i |-> IF k = i THEN Up(i, g[l].root) ELSE g[k]]
  <2>9. ASSUME NEW k \in 0 .. i PROVE f[k] = IF k = 0 THEN Base ELSE Up(k, f[k - 1].root)
    <3>1. CASE k = i
      <4>1. f[k] = Up(i, g[l].root) /\ k # 0 /\ k - 1 = l /\ l \in 0 .. i /\ l # i
        BY <3>1, <2>4, <2>5
      <4>2. f[k - 1] = g[l]
        BY <4>1
      <4>3. QED
        BY <4>1, <4>2, <3>1
    <3>2. CASE k # i
      <4>1. k \in 0 .. l
        BY <3>2, <2>4, <2>5
      <4>2. f[k] = g[k]
        BY <3>2
      <4>3. CASE k = 0
        BY <4>1, <4>2, <4>3, <2>8
      <4>4. CASE k # 0
        <5>1. k - 1 \in 0 .. i /\ k - 1 # i
          BY <4>1, <4>4, <2>5
        <5>2. f[k - 1] = g[k - 1]
          BY <5>1
        <5>3. g[k] = Up(k, g[k - 1].root)
          BY <4>1, <4>4, <2>8
        <5>4. QED
          BY <4>2, <4>4, <5>2, <5>3
      <4>5. QED
        BY <4>3, <4>4
    <3>3. QED
      BY <3>1, <3>2
  <2>10. f = [k \in 0 .. i |-> IF k = 0 THEN Base ELSE Up(k, f[k - 1].root)]
    <3>1. f = [k \in 0 .. i |-> f[k]]
      OBVIOUS
    <3> HIDE DEF f
    <3>2. QED
      BY <3>1, <2>9
  <2>11. Grows(i)
    <3> HIDE DEF f
    <3>1. QED
      BY <2>10
  <2>12. QED
    BY <2>11
<1>2. PICK g : g = [k \in 0 .. m |-> IF k = 0 THEN Base ELSE Up(k, g[k - 1].root)]
  BY <1>0, <1>1
<1>3. PICK c : c = CreatedNodes(stream, previous, revision, leaf)
  OBVIOUS
<1>4. c = [k \in 0 .. m |-> IF k = 0 THEN Base ELSE Up(k, c[k - 1].root)]
  BY <1>2, <1>3 DEF CreatedNodes
<1>5. DOMAIN c = 0 .. m /\ c[0] = Base
  <2> HIDE DEF m, Base, Up
  <2>1. QED
    BY <1>4, <1>0
<1>6. ASSUME NEW j \in 0 .. m - 1 PROVE c[j + 1] = Up(j + 1, c[j].root) /\ Left(j + 1) = previous[Len(previous) - j]
  <2>1. j + 1 \in 0 .. m /\ j + 1 # 0 /\ (j + 1) - 1 = j
    BY <1>0
  <2>2. c[j + 1] = Up(j + 1, c[j].root)
    <3> HIDE DEF m, Base, Up
    <3>1. QED
      BY <1>4, <2>1
  <2>3. Len(previous) - (j + 1) + 1 = Len(previous) - j
    OBVIOUS
  <2>4. QED
    BY <2>2, <2>3
<1>7. QED
  BY <1>3, <1>5, <1>6

(* What a new leaf makes of the peaks of the first n revisions of s: the   *)
(* peaks of n + 1 revisions and the nodes that are created on the way.     *)
LeafAppended(s, n, leaf, t) ==
  LET k == Merges(PeaksOf(s, n))
  IN  /\ k \in 0 .. Width - 1 /\ k \in Nat /\ LowestZero(n, k)
      /\ DOMAIN t.created = 0 .. k
      /\ \A j \in 0 .. k : t.created[j].height = j /\ t.created[j].startRevision = n + 2 - 2 ^ j
      /\ t.created[0].root = leaf
      /\ \A j \in 0 .. k - 1 :
           t.created[j + 1].root = calculateRevisionStreamMerkleNode(
                                     Stream, j + 1, n + 2 - 2 ^ (j + 1), NodeRoot(s, j, n + 2 - 2 ^ (j + 1)),
                                     t.created[j].root)
      /\ t.ok
      /\ t.peaks = [i \in DOMAIN PeakSeq(n + 1) |->
                      [height |-> PeakSeq(n + 1)[i], startRevision |-> PeakStart(n + 1, PeakSeq(n + 1)[i]),
                       root |-> IF PeakSeq(n + 1)[i] = k THEN t.created[k].root
                                ELSE NodeRoot(s, PeakSeq(n + 1)[i], PeakStart(n + 1, PeakSeq(n + 1)[i]))]]

(* The peaks of a history have the layout the code checks for.             *)
LEMMA PeaksLayout ==
  ASSUME NEW s, NEW n \in 0 .. MaxUint
  PROVE  CanonicalLayout(n, PeaksOf(s, n))
<1>1. /\ Descending(PeakSeq(n), PeakHeights(n)) /\ DOMAIN PeaksOf(s, n) = 1 .. Len(PeakSeq(n))
      /\ \A i \in 1 .. Len(PeakSeq(n)) :
           /\ PeakSeq(n)[i] \in PeakHeights(n)
           /\ PeaksOf(s, n)[i] =
                   [height |-> PeakSeq(n)[i], startRevision |-> PeakStart(n, PeakSeq(n)[i]),
                    root |-> NodeRoot(s, PeakSeq(n)[i], PeakStart(n, PeakSeq(n)[i]))]
  BY PeaksOfType
<1>2. \A i \in 1 .. Len(PeakSeq(n)) : /\ PeaksOf(s, n)[i].height = PeakSeq(n)[i]
                                      /\ PeaksOf(s, n)[i].startRevision = PeakStart(n, PeakSeq(n)[i])
  BY <1>1
<1>3. PICK f, g, H : f = PeaksOf(s, n) /\ g = PeakSeq(n) /\ H = PeakHeights(n)
  OBVIOUS
<1>4. {g[i] : i \in 1 .. Len(g)} = H /\ \A i, j \in 1 .. Len(g) : i < j => g[i] > g[j]
  BY <1>1, <1>3 DEF Descending
<1>5. DOMAIN f = 1 .. Len(g) /\ \A i \in DOMAIN f : f[i].height = g[i] /\ f[i].startRevision = PeakStart(n, g[i])
  BY <1>1, <1>2, <1>3
<1>6. {f[i].height : i \in DOMAIN f} = H
  BY <1>4, <1>5
<1>7. CanonicalLayout(n, f)
  BY <1>3, <1>4, <1>5, <1>6 DEF CanonicalLayout
<1>8. QED
  BY <1>3, <1>7

(* So has every list of peaks with those heights and starts.               *)
LEMMA LayoutOf ==
  ASSUME NEW n, NEW q, DOMAIN q = DOMAIN PeakSeq(n), Descending(PeakSeq(n), PeakHeights(n)),
         \A i \in DOMAIN q : q[i].height = PeakSeq(n)[i] /\ q[i].startRevision = PeakStart(n, PeakSeq(n)[i])
  PROVE  CanonicalLayout(n, q)
<1>1. DOMAIN PeakSeq(n) = 1 .. Len(PeakSeq(n))
  BY DEF Descending
<1>2. QED
  BY <1>1 DEF CanonicalLayout, Descending

(* appendRevisionStreamMerkleLeaf by its parts.                            *)
LEMMA AppendParts ==
  ASSUME NEW stream, NEW previous, NEW revision, NEW leaf, NEW k, k = Merges(previous),
         NEW c, c = CreatedNodes(stream, previous, revision, leaf),
         NEW q, q = Append(SubSeq(previous, 1, Len(previous) - k), c[k])
  PROVE  /\ appendRevisionStreamMerkleLeaf(stream, previous, revision, leaf).peaks = q
         /\ appendRevisionStreamMerkleLeaf(stream, previous, revision, leaf).created = c
BY DEF appendRevisionStreamMerkleLeaf

(* It succeeds on peaks of the right layout.                               *)
LEMMA AppendOk ==
  ASSUME NEW stream, NEW previous, NEW revision, NEW leaf, NEW k, k = Merges(previous),
         NEW c, c = CreatedNodes(stream, previous, revision, leaf),
         NEW q, q = Append(SubSeq(previous, 1, Len(previous) - k), c[k]),
         IF revision = 1 THEN previous = <<>> ELSE CanonicalLayout(revision - 1, previous),
         \A j \in 0 .. k - 1 : previous[Len(previous) - j].startRevision + 2 ^ j = c[j].startRevision /\ j # Width - 1,
         CanonicalLayout(revision, q)
  PROVE  appendRevisionStreamMerkleLeaf(stream, previous, revision, leaf).ok
BY DEF appendRevisionStreamMerkleLeaf

(* A prefix with one element behind it.                                    *)
LEMMA SeqStep ==
  ASSUME NEW p \in Seq(Nat), NEW m \in Nat, m <= Len(p), NEW e \in Nat, NEW q, q = Append(SubSeq(p, 1, m), e)
  PROVE  /\ DOMAIN q = 1 .. m + 1 /\ Len(q) = m + 1 /\ q[m + 1] = e
         /\ \A i \in 1 .. m : q[i] = p[i]
OBVIOUS

(* A leaf appended to the peaks of n revisions gives those of n + 1.       *)
LEMMA AppendLeaf ==
  ASSUME NEW s, NEW n \in 0 .. MaxUint, n # MaxUint, NEW leaf
  PROVE  LeafAppended(s, n, leaf, appendRevisionStreamMerkleLeaf(Stream, PeaksOf(s, n), n + 1, leaf))
<1> DEFINE p == PeakSeq(n)
           previous == PeaksOf(s, n)
           k == Merges(previous)
           c == CreatedNodes(Stream, previous, n + 1, leaf)
           q == Append(SubSeq(previous, 1, Len(previous) - k), c[k])
           R == {previous[i] : i \in 1 .. Len(p)}
           t == appendRevisionStreamMerkleLeaf(Stream, previous, n + 1, leaf)
<1>1. n \in Nat /\ n < MaxUint /\ n + 1 \in 0 .. MaxUint /\ n + 1 \in Nat /\ MaxUint \in Nat
  BY WidthType
<1>2. /\ Descending(p, PeakHeights(n))
      /\ p \in Seq(Nat) /\ Len(p) \in Nat /\ DOMAIN p = 1 .. Len(p)
      /\ previous \in Seq(R) /\ Len(previous) = Len(p) /\ DOMAIN previous = 1 .. Len(p)
  BY PeaksOfType
<1>3. ASSUME NEW i \in 1 .. Len(p)
      PROVE  /\ p[i] \in PeakHeights(n) /\ p[i] \in Nat
             /\ previous[i] = [height |-> p[i], startRevision |-> PeakStart(n, p[i]),
                               root |-> NodeRoot(s, p[i], PeakStart(n, p[i]))]
             /\ previous[i].height = p[i] /\ previous[i].startRevision = PeakStart(n, p[i])
             /\ previous[i].root = NodeRoot(s, p[i], PeakStart(n, p[i]))
  <2>1. p[i] \in PeakHeights(n) /\ previous[i] = [height |-> p[i], startRevision |-> PeakStart(n, p[i]),
                               root |-> NodeRoot(s, p[i], PeakStart(n, p[i]))]
    BY PeaksOfType
  <2>2. p[i] \in Nat
    BY <1>2
  <2> HIDE DEF p, previous
  <2>3. QED
    BY <2>1, <2>2
<1>4. Swallows(p, k)
  BY MergesSwallows
<1>l. CanonicalLayout(n, previous)
  BY PeaksLayout
<1>t. t.peaks = q /\ t.created = c
  <2> HIDE DEF previous
  <2>1. QED
    BY AppendParts
<1>o. k = Merges(previous) /\ c = CreatedNodes(Stream, previous, n + 1, leaf)
        /\ q = Append(SubSeq(previous, 1, Len(previous) - k), c[k])
  OBVIOUS
<1>5. k \in 0 .. Width - 1 /\ k \in Nat /\ LowestZero(n, k)
  <2> HIDE DEF p, k
  <2>1. QED
    BY <1>1, <1>2, <1>4, SwallowsLowest
<1>6. /\ DOMAIN c = 0 .. k
      /\ c[0] = [height |-> 0, startRevision |-> n + 1, root |-> leaf]
      /\ \A j \in 0 .. k - 1 :
           c[j + 1] = [height |-> j + 1, startRevision |-> previous[Len(previous) - j].startRevision,
                       root |-> calculateRevisionStreamMerkleNode(
                                  Stream, j + 1, previous[Len(previous) - j].startRevision,
                                  previous[Len(previous) - j].root, c[j].root)]
  BY <1>5, CreatedNodesStep
<1>7. Descending(Append(SubSeq(p, 1, Len(p) - k), k), PeakHeights(n + 1))
  <2> HIDE DEF p, k
  <2>1. QED
    BY <1>1, <1>2, <1>4, NextHeights
<1>8. PeakSeq(n + 1) = Append(SubSeq(p, 1, Len(p) - k), k)
  <2> HIDE DEF p, k
  <2>1. QED
    BY <1>1, <1>7, DescendingUnique
<1>9. /\ \A h \in Nat : h >= k => PeakStart(n + 1, h) = PeakStart(n, h)
      /\ PeakStart(n + 1, k) = n + 2 - 2 ^ k
      /\ \A j \in 0 .. k - 1 : /\ PeakStart(n, j) = n + 2 - 2 ^ (j + 1)
                               /\ PeakStart(n, j) + 2 ^ j = n + 2 - 2 ^ j
  <2> HIDE DEF k
  <2>1. QED
    BY <1>1, <1>5, PeakStartStep
<1>z. \A h \in PeakHeights(n) : h # k
  <2>1. (n \div 2 ^ k) % 2 = 0
    BY <1>5 DEF LowestZero
  <2>2. ASSUME NEW h \in PeakHeights(n) PROVE h # k
    <3>1. (n \div 2 ^ h) % 2 = 1
      BY DEF PeakHeights
    <3> HIDE DEF k
    <3>2. QED
      BY <3>1, <2>1
  <2>3. QED
    BY <2>2
<1> HIDE DEF p, previous, k, c, R
<1>10. k <= Len(p) /\ \A j \in 0 .. k - 1 : p[Len(p) - j] = j /\ Len(p) - j \in 1 .. Len(p)
  BY <1>4, <1>2, <1>5 DEF Swallows
<1>11. ASSUME NEW j \in 0 .. k - 1
       PROVE  /\ c[j + 1].height = j + 1 /\ c[j + 1].startRevision = n + 2 - 2 ^ (j + 1)
              /\ c[j + 1].root = calculateRevisionStreamMerkleNode(
                                  Stream, j + 1, n + 2 - 2 ^ (j + 1), NodeRoot(s, j, n + 2 - 2 ^ (j + 1)), c[j].root)
              /\ previous[Len(previous) - j].startRevision + 2 ^ j = n + 2 - 2 ^ j
              /\ c[j + 1] = [height |-> j + 1, startRevision |-> n + 2 - 2 ^ (j + 1), root |-> c[j + 1].root]
  <2>1. p[Len(p) - j] = j /\ Len(p) - j \in 1 .. Len(p)
    BY <1>10
  <2>2. PICK l \in 1 .. Len(p) : l = Len(p) - j /\ p[l] = j
    BY <2>1
  <2>3. previous[l].startRevision = n + 2 - 2 ^ (j + 1) /\ previous[l].root = NodeRoot(s, j, n + 2 - 2 ^ (j + 1))
        /\ previous[l].startRevision + 2 ^ j = n + 2 - 2 ^ j
    BY <2>2, <1>3, <1>9
  <2>4. l = Len(previous) - j
    BY <2>2, <1>2
  <2>5. c[j + 1] = [height |-> j + 1, startRevision |-> n + 2 - 2 ^ (j + 1),
                    root |-> calculateRevisionStreamMerkleNode(
                               Stream, j + 1, n + 2 - 2 ^ (j + 1), NodeRoot(s, j, n + 2 - 2 ^ (j + 1)), c[j].root)]
    BY <2>3, <2>4, <1>6
  <2>6. QED
    BY <2>5, <2>3, <2>4
<1>12. ASSUME NEW j \in 0 .. k PROVE c[j].height = j /\ c[j].startRevision = n + 2 - 2 ^ j
  <2>1. CASE j = 0
    BY <2>1, <1>6, <1>1, Pow0
  <2>2. CASE j # 0
    <3>1. PICK i \in 0 .. k - 1 : j = i + 1
      <4>1. j - 1 \in 0 .. k - 1 /\ j = (j - 1) + 1
        BY <2>2, <1>5
      <4>2. QED
        BY <4>1
    <3>2. QED
      BY <3>1, <1>11
  <2>3. QED
    BY <2>1, <2>2
<1>13. c[0].root = leaf
  BY <1>6
<1>14. PICK m \in Nat : m = Len(p) - k /\ m <= Len(p)
  <2>1. Len(p) - k \in Nat /\ Len(p) - k <= Len(p)
    BY <1>10, <1>2, <1>5
  <2>2. QED
    BY <2>1
<1>15. /\ q = [i \in 1 .. m + 1 |-> IF i = m + 1 THEN c[k] ELSE previous[i]]
       /\ DOMAIN q = 1 .. m + 1
  BY <1>2, <1>14
<1>b. PeakSeq(n + 1) = Append(SubSeq(p, 1, m), k)
  BY <1>8, <1>14
<1>16. /\ DOMAIN PeakSeq(n + 1) = 1 .. m + 1 /\ PeakSeq(n + 1)[m + 1] = k
       /\ \A i \in 1 .. m : PeakSeq(n + 1)[i] = p[i]
  <2>1. PICK z : z = PeakSeq(n + 1)
    OBVIOUS
  <2>2. z = Append(SubSeq(p, 1, m), k)
    BY <2>1, <1>b
  <2>3. DOMAIN z = 1 .. m + 1 /\ z[m + 1] = k /\ \A i \in 1 .. m : z[i] = p[i]
    BY <2>2, <1>2, <1>14, <1>5, SeqStep
  <2>4. QED
    BY <2>1, <2>3
<1>17. ASSUME NEW i \in 1 .. m PROVE i \in 1 .. Len(p) /\ p[i] > k /\ p[i] # k /\ PeakStart(n + 1, p[i]) = PeakStart(n, p[i])
  <2>1. i \in 1 .. Len(p)
    BY <1>14, <1>2
  <2>2. PeakSeq(n + 1)[i] > PeakSeq(n + 1)[m + 1]
    <3>1. i \in 1 .. m + 1 /\ m + 1 \in 1 .. m + 1 /\ i < m + 1 /\ Len(PeakSeq(n + 1)) = m + 1
      BY <1>14, <1>2, <1>b, <1>5, SeqStep
    <3>2. QED
      BY <3>1, <1>7, <1>8 DEF Descending
  <2>3. p[i] > k /\ p[i] \in Nat
    BY <2>1, <2>2, <1>16, <1>3
  <2>4. QED
    BY <2>1, <2>3, <1>9, <1>5
<1>18. ASSUME NEW i \in 1 .. m + 1
       PROVE  /\ q[i] = [height |-> PeakSeq(n + 1)[i], startRevision |-> PeakStart(n + 1, PeakSeq(n + 1)[i]),
                          root |-> IF PeakSeq(n + 1)[i] = k THEN c[k].root
                                   ELSE NodeRoot(s, PeakSeq(n + 1)[i], PeakStart(n + 1, PeakSeq(n + 1)[i]))]
              /\ q[i].height = PeakSeq(n + 1)[i]
              /\ q[i].startRevision = PeakStart(n + 1, PeakSeq(n + 1)[i])
  <2>1. CASE i = m + 1
    <3>1. c[k] = [height |-> k, startRevision |-> n + 2 - 2 ^ k, root |-> c[k].root]
      <4>1. CASE k = 0
        BY <4>1, <1>6, <1>1, Pow0
      <4>2. CASE k # 0
        <5>1. PICK j \in 0 .. k - 1 : k = j + 1
          <6>1. k - 1 \in 0 .. k - 1 /\ k = (k - 1) + 1
            BY <4>2, <1>5
          <6>2. QED
            BY <6>1
        <5>2. c[k] = [height |-> k, startRevision |-> c[k].startRevision, root |-> c[k].root]
          BY <5>1, <1>11
        <5>3. k \in 0 .. k
          BY <1>5
        <5>4. QED
          BY <5>2, <5>3, <1>12
      <4>3. QED
        BY <4>1, <4>2
    <3>2. q[i] = c[k] /\ PeakSeq(n + 1)[i] = k
      BY <2>1, <1>15, <1>16
    <3> HIDE DEF q
    <3>3. QED
      BY <3>1, <3>2, <1>9
  <2>2. CASE i # m + 1
    <3>1. i \in 1 .. m
      BY <2>2, <1>14
    <3>2. q[i] = previous[i] /\ PeakSeq(n + 1)[i] = p[i]
      BY <2>2, <3>1, <1>15, <1>16
    <3> HIDE DEF q
    <3>3. QED
      BY <3>1, <3>2, <1>3, <1>17
  <2>3. QED
    BY <2>1, <2>2
<1> HIDE DEF q
<1>19. CanonicalLayout(n + 1, q)
  <2>1. \A i \in DOMAIN q : q[i].height = PeakSeq(n + 1)[i] /\ q[i].startRevision = PeakStart(n + 1, PeakSeq(n + 1)[i])
    <3>1. ASSUME NEW i \in 1 .. m + 1
          PROVE  q[i].height = PeakSeq(n + 1)[i] /\ q[i].startRevision = PeakStart(n + 1, PeakSeq(n + 1)[i])
      BY <1>18
    <3>2. QED
      BY <3>1, <1>15
  <2>2. DOMAIN q = DOMAIN PeakSeq(n + 1) /\ Descending(PeakSeq(n + 1), PeakHeights(n + 1))
    BY <1>15, <1>16, <1>7, <1>8
  <2>3. QED
    BY <2>1, <2>2, LayoutOf
<1>20. n + 1 = 1 => previous = <<>>
  <2>1. SUFFICES ASSUME n = 0 PROVE Len(p) = 0
    BY <1>1, <1>2
  <2>3. ~(1 \in 1 .. Len(p))
    BY <2>1, NoHeights, <1>2 DEF Descending
  <2>4. QED
    BY <2>3, <1>2
<1>21. t.ok
  <2>1. n + 1 - 1 = n
    BY <1>1
  <2>2. \A j \in 0 .. k - 1 : previous[Len(previous) - j].startRevision + 2 ^ j = c[j].startRevision /\ j # Width - 1
    <3>1. \A j \in 0 .. k - 1 : j \in 0 .. k /\ j # Width - 1
      BY <1>5, WidthType
    <3>2. QED
      BY <3>1, <1>11, <1>12
  <2>3. IF n + 1 = 1 THEN previous = <<>> ELSE CanonicalLayout(n + 1 - 1, previous)
    BY <2>1, <1>l, <1>20
  <2>4. PICK r : r = n + 1
    OBVIOUS
  <2>5. /\ c = CreatedNodes(Stream, previous, r, leaf) /\ CanonicalLayout(r, q)
        /\ IF r = 1 THEN previous = <<>> ELSE CanonicalLayout(r - 1, previous)
    BY <1>o, <2>3, <2>4, <1>19
  <2>6. appendRevisionStreamMerkleLeaf(Stream, previous, r, leaf).ok
    BY <1>o, <2>2, <2>5, AppendOk
  <2>7. QED
    BY <2>6, <2>4
<1>22. t.created = c /\ t.peaks = q
  <2> HIDE DEF t
  <2>1. QED
    BY <1>t
<1>23. q = [i \in DOMAIN PeakSeq(n + 1) |->
                      [height |-> PeakSeq(n + 1)[i], startRevision |-> PeakStart(n + 1, PeakSeq(n + 1)[i]),
                       root |-> IF PeakSeq(n + 1)[i] = k THEN c[k].root
                                ELSE NodeRoot(s, PeakSeq(n + 1)[i], PeakStart(n + 1, PeakSeq(n + 1)[i]))]]
  <2>1. q = [i \in 1 .. m + 1 |-> q[i]]
    BY <1>15
  <2>2. QED
    BY <2>1, <1>16, <1>18
<1>24. k = Merges(PeaksOf(s, n)) /\ t = appendRevisionStreamMerkleLeaf(Stream, PeaksOf(s, n), n + 1, leaf)
  BY DEF k, previous
<1> HIDE DEF t
<1>25. QED
  <2>1. /\ DOMAIN t.created = 0 .. k
        /\ \A j \in 0 .. k : t.created[j].height = j /\ t.created[j].startRevision = n + 2 - 2 ^ j
        /\ t.created[0].root = leaf
        /\ \A j \in 0 .. k - 1 :
             t.created[j + 1].root = calculateRevisionStreamMerkleNode(
                                     Stream, j + 1, n + 2 - 2 ^ (j + 1), NodeRoot(s, j, n + 2 - 2 ^ (j + 1)),
                                     t.created[j].root)
    BY <1>6, <1>11, <1>12, <1>13, <1>22
  <2>2. t.peaks = [i \in DOMAIN PeakSeq(n + 1) |->
                      [height |-> PeakSeq(n + 1)[i], startRevision |-> PeakStart(n + 1, PeakSeq(n + 1)[i]),
                       root |-> IF PeakSeq(n + 1)[i] = k THEN t.created[k].root
                                ELSE NodeRoot(s, PeakSeq(n + 1)[i], PeakStart(n + 1, PeakSeq(n + 1)[i]))]]
    BY <1>22, <1>23
  <2>3. LeafAppended(s, n, leaf, t)
    BY <2>1, <2>2, <1>5, <1>21, <1>24 DEF LeafAppended
  <2>4. QED
    BY <2>3, <1>24

-----------------------------------------------------------------------------
(* One append: what it writes, and which history the keyspace then holds.  *)

(* The head of a prefix, its fields spelled out.                           *)
LEMMA HeadFields ==
  ASSUME NEW s, NEW n
  PROVE  /\ HeadAt(s, n) = [revision |-> n, lastOccurredAt |-> EventAt(s, n).occurredAt, root |-> EventAt(s, n).root,
                            proof |-> [leafCount |-> n, root |-> EventAt(s, n).proofRoot,
                                       lastContent |-> EventAt(s, n).content, peaks |-> PeaksOf(s, n)]]
         /\ HeadAt(s, n).revision = n
         /\ HeadAt(s, n).lastOccurredAt = EventAt(s, n).occurredAt
         /\ HeadAt(s, n).root = EventAt(s, n).root
         /\ HeadAt(s, n).proof.leafCount = n
         /\ HeadAt(s, n).proof.root = EventAt(s, n).proofRoot
         /\ HeadAt(s, n).proof.lastContent = EventAt(s, n).content
         /\ HeadAt(s, n).proof.peaks = PeaksOf(s, n)
         /\ n # 0 => HeadAt(s, n) # NoHead
<1>1. HeadAt(s, n) = [revision |-> n, lastOccurredAt |-> EventAt(s, n).occurredAt, root |-> EventAt(s, n).root,
                            proof |-> [leafCount |-> n, root |-> EventAt(s, n).proofRoot,
                                       lastContent |-> EventAt(s, n).content, peaks |-> PeaksOf(s, n)]]
  BY DEF HeadAt, PeaksOf
<1>2. NoHead.revision = 0
  BY DEF NoHead
<1>3. QED
  BY <1>1, <1>2

(* What an append writes for revision rv after root pr over the peaks pk.  *)
Content(rv, pr, o, x) == calculateRevisionStreamContent(Stream, pr, rv, o, PayloadSHA(x))
Tree(rv, pr, pk, o, x) ==
  appendRevisionStreamMerkleLeaf(Stream, pk, rv, calculateRevisionStreamMerkleLeaf(Stream, rv, Content(rv, pr, o, x)))
ProofRoot(rv, pr, pk, o, x) == calculateRevisionStreamMerkleRoot(Stream, rv, Tree(rv, pr, pk, o, x).peaks)
Root(rv, pr, pk, o, x) ==
  calculateRevisionStreamHeadRoot(Stream, rv, o, Content(rv, pr, o, x), ProofRoot(rv, pr, pk, o, x))
EventOf(rv, pr, pk, o, x) ==
  [revision |-> rv, occurredAt |-> o, previousRoot |-> pr, payloadSHA |-> PayloadSHA(x),
   content |-> Content(rv, pr, o, x), proofRoot |-> ProofRoot(rv, pr, pk, o, x),
   root |-> Root(rv, pr, pk, o, x), payload |-> x]
HeadFor(rv, pr, pk, o, x) ==
  [revision |-> rv, lastOccurredAt |-> o, root |-> Root(rv, pr, pk, o, x),
   proof |-> [leafCount |-> rv, root |-> ProofRoot(rv, pr, pk, o, x), lastContent |-> Content(rv, pr, o, x),
              peaks |-> Tree(rv, pr, pk, o, x).peaks]]
NodeKey(c) == revisionStreamMerkleKey(Stream, c.height, c.startRevision)
KeysOf(rv, o, t) ==
  {EventKey(Stream, rv), TimeKey(Stream, o, rv)} \cup {NodeKey(t.created[k]) : k \in DOMAIN t.created}
NodeAt(t, key) == CHOOSE k \in DOMAIN t.created : NodeKey(t.created[k]) = key
PutsOf(rv, o, t, head, event, root) ==
  [key \in KeysOf(rv, o, t) \cup {HeadKey(Stream)} |->
     CASE key = HeadKey(Stream) -> <<"head", head>>
       [] key = EventKey(Stream, rv) -> <<"event", event>>
       [] key = TimeKey(Stream, o, rv) -> <<"digest", root>>
       [] OTHER -> <<"digest", t.created[NodeAt(t, key)].root>>]

(* The same for an append to the first n revisions of s.                   *)
PreviousRoot(s, n) == IF n = 0 THEN ZeroRoot ELSE EventAt(s, n).root
NewContent(s, n, o, x) == Content(n + 1, PreviousRoot(s, n), o, x)
NewTree(s, n, o, x) == Tree(n + 1, PreviousRoot(s, n), PeaksOf(s, n), o, x)
NewProofRoot(s, n, o, x) == ProofRoot(n + 1, PreviousRoot(s, n), PeaksOf(s, n), o, x)
NewRoot(s, n, o, x) == Root(n + 1, PreviousRoot(s, n), PeaksOf(s, n), o, x)
NewEvent(s, n, o, x) == EventOf(n + 1, PreviousRoot(s, n), PeaksOf(s, n), o, x)
NewHead(s, n, o, x) == HeadFor(n + 1, PreviousRoot(s, n), PeaksOf(s, n), o, x)
NewKeys(s, n, o, x) == KeysOf(n + 1, o, NewTree(s, n, o, x))

(* The keys of a write set and the values under them.                      *)
PutsFacts(f, rv, o, t, head, event) ==
  /\ DOMAIN f = KeysOf(rv, o, t) \cup {HeadKey(Stream)}
  /\ f[HeadKey(Stream)] = <<"head", head>>
  /\ f[EventKey(Stream, rv)] = <<"event", event>>
  /\ (\A j \in DOMAIN t.created : t.created[j].height = j) =>
        \A k \in DOMAIN t.created : f[NodeKey(t.created[k])][2] = t.created[k].root

(* The values an append writes under its keys.                             *)
LEMMA PutsValues ==
  ASSUME NEW rv, NEW o, NEW t, NEW head, NEW event, NEW root, NEW f, f = PutsOf(rv, o, t, head, event, root)
  PROVE  PutsFacts(f, rv, o, t, head, event)
<1>1. DOMAIN f = KeysOf(rv, o, t) \cup {HeadKey(Stream)}
  BY DEF PutsOf
<1>2. f[HeadKey(Stream)] = <<"head", head>>
  <2>1. HeadKey(Stream) # EventKey(Stream, rv) /\ HeadKey(Stream) # TimeKey(Stream, o, rv)
    BY DEF EventKey, HeadKey, TimeKey
  <2>2. QED
    BY <2>1 DEF PutsOf
<1>3. f[EventKey(Stream, rv)] = <<"event", event>>
  <2>1. EventKey(Stream, rv) # HeadKey(Stream) /\ EventKey(Stream, rv) # TimeKey(Stream, o, rv)
    BY DEF EventKey, HeadKey, TimeKey
  <2>2. EventKey(Stream, rv) \in KeysOf(rv, o, t)
    BY DEF KeysOf
  <2>3. QED
    BY <2>1, <2>2 DEF PutsOf
<1>4. ASSUME \A j \in DOMAIN t.created : t.created[j].height = j, NEW k \in DOMAIN t.created
      PROVE  f[NodeKey(t.created[k])][2] = t.created[k].root
  <2>2. /\ NodeKey(t.created[k]) # HeadKey(Stream)
        /\ NodeKey(t.created[k]) # EventKey(Stream, rv)
        /\ NodeKey(t.created[k]) # TimeKey(Stream, o, rv)
    BY DEF NodeKey, HeadKey, EventKey, TimeKey, revisionStreamMerkleKey
  <2>3. \A j \in DOMAIN t.created : NodeKey(t.created[j]) = NodeKey(t.created[k]) => j = k
    BY <1>4 DEF NodeKey, revisionStreamMerkleKey
  <2>4. PICK key : key = NodeKey(t.created[k])
    OBVIOUS
  <2>5. key \in KeysOf(rv, o, t)
    BY <2>4 DEF KeysOf
  <2>6. f[key] = <<"digest", t.created[NodeAt(t, key)].root>>
    BY <2>2, <2>4, <2>5 DEF PutsOf
  <2>7. NodeAt(t, key) = k
    BY <2>3, <2>4 DEF NodeAt
  <2>8. QED
    BY <2>4, <2>6, <2>7
<1>5. QED
  BY <1>1, <1>2, <1>3, <1>4 DEF PutsFacts

(* The write set of an append to the first n revisions of s.               *)
BuiltFacts(b, s, n, o, x, h) ==
  LET t == NewTree(s, n, o, x)
  IN  /\ b.expected = h
      /\ b.absent = NewKeys(s, n, o, x)
      /\ b.ok <=> /\ n # 0 => /\ validateRevisionStreamHead(Stream, h)
                              /\ n # MaxUint
                              /\ o >= EventAt(s, n).occurredAt
                  /\ t.ok
      /\ DOMAIN b.puts = NewKeys(s, n, o, x) \cup {HeadKey(Stream)}
      /\ b.puts[HeadKey(Stream)] = <<"head", NewHead(s, n, o, x)>>
      /\ b.puts[EventKey(Stream, n + 1)] = <<"event", NewEvent(s, n, o, x)>>
      /\ n # MaxUint => \A k \in DOMAIN t.created : b.puts[NodeKey(t.created[k])][2] = t.created[k].root

(* The write set an append builds over a head of the stream.               *)
LEMMA Built ==
  ASSUME NEW s, NEW n \in 0 .. MaxUint, NEW o, NEW x, NEW h, h = IF n = 0 THEN NoHead ELSE HeadAt(s, n)
  PROVE  BuiltFacts(buildRevisionStreamAppend(Stream, h, o, x), s, n, o, x, h)
<1>0. n \in Nat
  BY WidthType
<1>1. h = NoHead <=> n = 0
  <2>1. CASE n = 0
    BY <2>1
  <2>2. CASE n # 0
    BY <2>2, HeadFields
  <2>3. QED
    BY <2>1, <2>2
<1>2. h.revision = n
  <2>1. CASE n = 0
    BY <2>1 DEF NoHead
  <2>2. CASE n # 0
    BY <2>2, HeadFields
  <2>3. QED
    BY <2>1, <2>2
<1>3. (IF h = NoHead THEN ZeroRoot ELSE h.root) = PreviousRoot(s, n)
  BY <1>1, HeadFields DEF PreviousRoot
<1>4. (IF h = NoHead THEN <<>> ELSE h.proof.peaks) = PeaksOf(s, n)
  <2>1. CASE n = 0
    <3>1. Descending(<<>>, PeakHeights(0))
      BY NoHeights DEF Descending
    <3>2. PeakSeq(0) = <<>>
      BY <3>1, DescendingUnique
    <3>3. PeaksOf(s, 0) = <<>>
      BY <3>2 DEF PeaksOf
    <3>4. QED
      BY <2>1, <1>1, <3>3
  <2>2. CASE n # 0
    BY <2>2, <1>1, HeadFields
  <2>3. QED
    BY <2>1, <2>2
<1>5. n # 0 => h.lastOccurredAt = EventAt(s, n).occurredAt
  BY HeadFields
<1> DEFINE b == buildRevisionStreamAppend(Stream, h, o, x)
           t == NewTree(s, n, o, x)
<1>6. b.expected = h
  BY DEF buildRevisionStreamAppend
<1> DEFINE g == h = NoHead
           rv == h.revision + 1
           pr == IF g THEN ZeroRoot ELSE h.root
           pk == IF g THEN <<>> ELSE h.proof.peaks
<1>e. rv = n + 1 /\ pr = PreviousRoot(s, n) /\ pk = PeaksOf(s, n)
  BY <1>2, <1>3, <1>4
<1>7. b.absent = NewKeys(s, n, o, x)
  <2>1. b.absent = KeysOf(rv, o, Tree(rv, pr, pk, o, x))
    BY DEF buildRevisionStreamAppend, KeysOf, Tree, Content, NodeKey
  <2> HIDE DEF b, rv, pr, pk
  <2>2. QED
    BY <2>1, <1>e DEF NewKeys, NewTree
<1>8. b.ok <=> /\ n # 0 => /\ validateRevisionStreamHead(Stream, h)
                           /\ n # MaxUint
                           /\ o >= EventAt(s, n).occurredAt
               /\ t.ok
  <2>1. b.ok <=> /\ ~g => /\ validateRevisionStreamHead(Stream, h)
                          /\ h.revision # MaxUint
                          /\ o >= h.lastOccurredAt
                 /\ Tree(rv, pr, pk, o, x).ok
    BY DEF buildRevisionStreamAppend, Tree, Content
  <2> HIDE DEF b, rv, pr, pk
  <2>2. QED
    BY <2>1, <1>e, <1>1, <1>2, <1>5 DEF NewTree
<1>9. b.puts = PutsOf(rv, o, Tree(rv, pr, pk, o, x), HeadFor(rv, pr, pk, o, x), EventOf(rv, pr, pk, o, x),
                      Root(rv, pr, pk, o, x))
  BY DEF buildRevisionStreamAppend, PutsOf, NodeAt, KeysOf, Tree, Content, NodeKey, HeadFor, EventOf, Root, ProofRoot
<1>10. b.puts = PutsOf(n + 1, o, t, NewHead(s, n, o, x), NewEvent(s, n, o, x), NewRoot(s, n, o, x))
  <2> HIDE DEF b, rv, pr, pk
  <2>1. QED
    BY <1>9, <1>e DEF NewTree, NewHead, NewEvent, NewRoot
<1> HIDE DEF b, t
<1>11. /\ DOMAIN b.puts = NewKeys(s, n, o, x) \cup {HeadKey(Stream)}
       /\ b.puts[HeadKey(Stream)] = <<"head", NewHead(s, n, o, x)>>
       /\ b.puts[EventKey(Stream, n + 1)] = <<"event", NewEvent(s, n, o, x)>>
       /\ (\A j \in DOMAIN t.created : t.created[j].height = j) =>
               \A k \in DOMAIN t.created : b.puts[NodeKey(t.created[k])][2] = t.created[k].root
  <2>1. NewKeys(s, n, o, x) = KeysOf(n + 1, o, t)
    BY DEF NewKeys, t
  <2>2. PICK f : f = b.puts
    OBVIOUS
  <2>3. f = PutsOf(n + 1, o, t, NewHead(s, n, o, x), NewEvent(s, n, o, x), NewRoot(s, n, o, x))
    BY <2>2, <1>10
  <2>4. PutsFacts(f, n + 1, o, t, NewHead(s, n, o, x), NewEvent(s, n, o, x))
    BY <2>3, PutsValues
  <2>5. QED
    BY <2>1, <2>2, <2>4 DEF PutsFacts
<1>12. ASSUME n # MaxUint PROVE \A j \in DOMAIN t.created : t.created[j].height = j
  <2>1. LeafAppended(s, n, calculateRevisionStreamMerkleLeaf(Stream, n + 1, NewContent(s, n, o, x)), t)
    BY <1>12, AppendLeaf DEF NewTree, Tree, NewContent, t
  <2>2. QED
    BY <2>1 DEF LeafAppended
<1>13. QED
  <2>1. BuiltFacts(b, s, n, o, x, h)
    BY <1>6, <1>7, <1>8, <1>11, <1>12 DEF BuiltFacts, t
  <2>2. QED
    BY <2>1 DEF b

(* Two stores hold the same events and nodes for the first n revisions.    *)
Agree(s, t, n) ==
  /\ \A r \in 1 .. n : EventAt(t, r) = EventAt(s, r)
  /\ \A b \in Blocks(n) : NodeRoot(t, b[1], b[2]) = NodeRoot(s, b[1], b[2])

(* A stored event is bound by its digests to its predecessor, payload and  *)
(* peaks.                                                                  *)
EventFacts(s, r) ==
  LET e == EventAt(s, r)
  IN  /\ e = [revision |-> r, occurredAt |-> e.occurredAt, previousRoot |-> e.previousRoot,
              payloadSHA |-> e.payloadSHA, content |-> e.content, proofRoot |-> e.proofRoot, root |-> e.root,
              payload |-> e.payload]
      /\ e.occurredAt \in Times
      /\ e.previousRoot = PreviousRoot(s, r - 1)
      /\ e.payloadSHA = PayloadSHA(e.payload)
      /\ e.content = calculateRevisionStreamContent(Stream, e.previousRoot, r, e.occurredAt, e.payloadSHA)
      /\ e.root = calculateRevisionStreamHeadRoot(Stream, r, e.occurredAt, e.content, e.proofRoot)
      /\ e.proofRoot = calculateRevisionStreamMerkleRoot(Stream, r, PeaksOf(s, r))

(* A stored node is the hash of its leaf or of its two children.           *)
NodeFacts(s, h, a) ==
  NodeRoot(s, h, a) =
    IF h = 0 THEN calculateRevisionStreamMerkleLeaf(Stream, a, EventAt(s, a).content)
    ELSE calculateRevisionStreamMerkleNode(Stream, h, a, NodeRoot(s, h - 1, a), NodeRoot(s, h - 1, a + 2 ^ (h - 1)))

(* The first n revisions of s: digests bind, times do not go back, nodes   *)
(* are hashed.                                                             *)
History(s, n) ==
  /\ \A r \in 1 .. n : EventFacts(s, r)
  /\ \A r \in 2 .. n : EventAt(s, r - 1).occurredAt <= EventAt(s, r).occurredAt
  /\ \A b \in Blocks(n) : NodeFacts(s, b[1], b[2])

(* Peaks and heads depend on the events and nodes of the prefix only.      *)
LEMMA PeaksFrame ==
  ASSUME NEW s, NEW t, NEW n \in 0 .. MaxUint, Agree(s, t, n), NEW r \in 0 .. n
  PROVE  PeaksOf(t, r) = PeaksOf(s, r) /\ (r > 0 => HeadAt(t, r) = HeadAt(s, r))
<1>1. n \in Nat /\ r \in Nat /\ r <= n /\ r \in 0 .. MaxUint
  BY WidthType
<1>2. /\ DOMAIN PeakSeq(r) = 1 .. Len(PeakSeq(r))
      /\ \A i \in 1 .. Len(PeakSeq(r)) : PeakSeq(r)[i] \in PeakHeights(r)
  BY <1>1, PeaksOfType
<1>3. ASSUME NEW i \in DOMAIN PeakSeq(r)
      PROVE  NodeRoot(t, PeakSeq(r)[i], PeakStart(r, PeakSeq(r)[i])) = NodeRoot(s, PeakSeq(r)[i], PeakStart(r, PeakSeq(r)[i]))
  <2>1. PICK h \in PeakHeights(r) : h = PeakSeq(r)[i]
    BY <1>2
  <2>2. <<h, PeakStart(r, h)>> \in Blocks(n)
    BY <1>1, PeakBlock, BlocksGrow
  <2>3. NodeRoot(t, h, PeakStart(r, h)) = NodeRoot(s, h, PeakStart(r, h))
    BY <2>2 DEF Agree
  <2>4. QED
    BY <2>1, <2>3
<1>4. PeaksOf(t, r) = PeaksOf(s, r)
  BY <1>3 DEF PeaksOf
<1>5. ASSUME r > 0 PROVE HeadAt(t, r) = HeadAt(s, r)
  <2>1. EventAt(t, r) = EventAt(s, r)
    BY <1>1, <1>5 DEF Agree
  <2>2. QED
    BY <2>1, <1>4, HeadFields
<1>6. QED
  BY <1>4, <1>5

(* So do an event's facts.                                                 *)
LEMMA EventFrame ==
  ASSUME NEW s, NEW t, NEW n \in 0 .. MaxUint, Agree(s, t, n), NEW r \in 1 .. n, EventFacts(s, r)
  PROVE  EventFacts(t, r)
<1>1. r - 1 \in 0 .. n /\ r \in 0 .. n /\ n \in Nat
  BY WidthType
<1>2. EventAt(t, r) = EventAt(s, r)
  BY DEF Agree
<1>3. PreviousRoot(t, r - 1) = PreviousRoot(s, r - 1)
  <2>1. CASE r - 1 = 0
    BY <2>1 DEF PreviousRoot
  <2>2. CASE r - 1 # 0
    <3>1. r - 1 \in 1 .. n
      BY <2>2, <1>1
    <3>2. QED
      BY <3>1 DEF PreviousRoot, Agree
  <2>3. QED
    BY <2>1, <2>2
<1>4. PeaksOf(t, r) = PeaksOf(s, r)
  BY <1>1, PeaksFrame
<1>5. QED
  BY <1>2, <1>3, <1>4 DEF EventFacts

(* So do a node's.                                                         *)
LEMMA NodeFrame ==
  ASSUME NEW s, NEW t, NEW n \in 0 .. MaxUint, Agree(s, t, n), NEW b \in Blocks(n), NodeFacts(s, b[1], b[2])
  PROVE  NodeFacts(t, b[1], b[2])
<1>0. n \in Nat
  BY WidthType
<1>1. b = <<b[1], b[2]>> /\ b[1] \in Nat /\ b[2] \in 1 .. n
  BY <1>0, BlockBounds
<1>2. PICK h \in Nat, a \in 1 .. n : h = b[1] /\ a = b[2] /\ <<h, a>> \in Blocks(n)
  BY <1>1
<1>3. NodeRoot(t, h, a) = NodeRoot(s, h, a) /\ EventAt(t, a) = EventAt(s, a)
  BY <1>2 DEF Agree
<1>4. CASE h = 0
  BY <1>2, <1>3, <1>4 DEF NodeFacts
<1>5. CASE h # 0
  <2>1. h - 1 \in Nat /\ (h - 1) + 1 = h
    BY <1>5
  <2>2. <<h - 1, a>> \in Blocks(n) /\ <<h - 1, a + 2 ^ (h - 1)>> \in Blocks(n)
    BY <2>1, <1>0, <1>2, ChildBlocks
  <2>3. /\ NodeRoot(t, h - 1, a) = NodeRoot(s, h - 1, a)
        /\ NodeRoot(t, h - 1, a + 2 ^ (h - 1)) = NodeRoot(s, h - 1, a + 2 ^ (h - 1))
    BY <2>2 DEF Agree
  <2>4. QED
    BY <1>2, <1>3, <1>5, <2>3 DEF NodeFacts
<1>6. QED
  BY <1>4, <1>5

(* A prefix of a history is one, in every store that agrees on it.         *)
LEMMA HistoryFrame ==
  ASSUME NEW s, NEW t, NEW n \in 0 .. MaxUint, History(s, n), NEW m \in 0 .. n, Agree(s, t, m)
  PROVE  History(t, m)
<1>1. m \in 0 .. MaxUint /\ m \in Nat /\ n \in Nat /\ m <= n
  BY WidthType
<1>2. ASSUME NEW r \in 1 .. m PROVE EventFacts(t, r)
  <2>1. EventFacts(s, r)
    BY <1>1 DEF History
  <2>2. QED
    BY <1>1, <2>1, EventFrame
<1>3. ASSUME NEW r \in 2 .. m PROVE EventAt(t, r - 1).occurredAt <= EventAt(t, r).occurredAt
  <2>1. EventAt(s, r - 1).occurredAt <= EventAt(s, r).occurredAt
    BY <1>1 DEF History
  <2>2. r - 1 \in 1 .. m /\ r \in 1 .. m
    BY <1>1
  <2>3. QED
    BY <2>1, <2>2 DEF Agree
<1>4. ASSUME NEW b \in Blocks(m) PROVE NodeFacts(t, b[1], b[2])
  <2>1. b \in Blocks(n)
    BY <1>1, BlocksGrow
  <2>2. NodeFacts(s, b[1], b[2])
    BY <2>1 DEF History
  <2>3. QED
    BY <1>1, <2>2, NodeFrame
<1>5. QED
  BY <1>2, <1>3, <1>4 DEF History

(* t is s with one more revision.                                          *)
Extends(s, t, n, o, x) ==
  /\ Agree(s, t, n)
  /\ EventAt(t, n + 1) = NewEvent(s, n, o, x)
  /\ \A k \in DOMAIN NewTree(s, n, o, x).created :
       NodeRoot(t, k, n + 2 - 2 ^ k) = NewTree(s, n, o, x).created[k].root

(* The tree an append builds over the peaks of the stream.                 *)
LEMMA TreeGrown ==
  ASSUME NEW s, NEW n \in 0 .. MaxUint, n # MaxUint, NEW o, NEW x
  PROVE  LeafAppended(s, n, calculateRevisionStreamMerkleLeaf(Stream, n + 1, NewContent(s, n, o, x)), NewTree(s, n, o, x))
BY AppendLeaf DEF NewTree, Tree, NewContent

(* The peaks of the extended store are those of that tree.                 *)
LEMMA PeaksGrown ==
  ASSUME NEW s, NEW t, NEW n \in 0 .. MaxUint, n # MaxUint, NEW o, NEW x, Extends(s, t, n, o, x)
  PROVE  PeaksOf(t, n + 1) = NewTree(s, n, o, x).peaks
<1> DEFINE tree == NewTree(s, n, o, x)
           k == Merges(PeaksOf(s, n))
           p == PeakSeq(n + 1)
<1>0. n \in Nat /\ n + 1 \in 0 .. MaxUint /\ n + 1 \in Nat
  BY WidthType
<1>1. LeafAppended(s, n, calculateRevisionStreamMerkleLeaf(Stream, n + 1, NewContent(s, n, o, x)), tree)
  BY TreeGrown
<1> HIDE DEF tree
<1>2. /\ k \in 0 .. Width - 1 /\ k \in Nat /\ LowestZero(n, k) /\ DOMAIN tree.created = 0 .. k
      /\ tree.peaks = [i \in DOMAIN p |->
                      [height |-> p[i], startRevision |-> PeakStart(n + 1, p[i]),
                       root |-> IF p[i] = k THEN tree.created[k].root
                                ELSE NodeRoot(s, p[i], PeakStart(n + 1, p[i]))]]
  BY <1>1 DEF LeafAppended
<1>3. \A i \in DOMAIN p : p[i] \in PeakHeights(n + 1)
  BY <1>0, PeaksOfType
<1> HIDE DEF k, p
<1>4. PeakHeights(n + 1) = (PeakHeights(n) \ (0 .. k - 1)) \cup {k}
  BY <1>0, <1>2, PeakHeightsStep
<1>5. /\ \A h \in Nat : h >= k => PeakStart(n + 1, h) = PeakStart(n, h)
      /\ PeakStart(n + 1, k) = n + 2 - 2 ^ k
  BY <1>0, <1>2, PeakStartStep
<1>6. ASSUME NEW i \in DOMAIN p
      PROVE  NodeRoot(t, p[i], PeakStart(n + 1, p[i])) = IF p[i] = k THEN tree.created[k].root
                                                        ELSE NodeRoot(s, p[i], PeakStart(n + 1, p[i]))
  <2>1. PICK h \in PeakHeights(n + 1) : h = p[i]
    BY <1>3
  <2>2. CASE h = k
    <3>1. k \in DOMAIN tree.created
      BY <1>2
    <3>2. NodeRoot(t, k, n + 2 - 2 ^ k) = tree.created[k].root
      BY <3>1 DEF Extends, tree
    <3>3. QED
      BY <2>1, <2>2, <3>2, <1>5
  <2>3. CASE h # k
    <3>1. h \in PeakHeights(n) /\ h \notin 0 .. k - 1
      BY <2>3, <1>4
    <3>2. h \in Nat
      BY <3>1, WidthType DEF PeakHeights
    <3>3. h >= k
      BY <3>1, <3>2, <1>2
    <3>4. PeakStart(n + 1, h) = PeakStart(n, h)
      BY <3>2, <3>3, <1>5
    <3>5. <<h, PeakStart(n, h)>> \in Blocks(n)
      BY <3>1, <1>0, PeakBlock
    <3>6. NodeRoot(t, h, PeakStart(n, h)) = NodeRoot(s, h, PeakStart(n, h))
      BY <3>5 DEF Extends, Agree
    <3>7. QED
      BY <2>1, <2>3, <3>4, <3>6
  <2>4. QED
    BY <2>2, <2>3
<1>7. PeaksOf(t, n + 1) = [i \in DOMAIN p |->
                      [height |-> p[i], startRevision |-> PeakStart(n + 1, p[i]),
                       root |-> NodeRoot(t, p[i], PeakStart(n + 1, p[i]))]]
  BY DEF PeaksOf, p
<1>8. PeaksOf(t, n + 1) = tree.peaks
  BY <1>2, <1>6, <1>7
<1>9. QED
  BY <1>8 DEF tree

(* Its nodes are hashed.                                                   *)
LEMMA NodesGrown ==
  ASSUME NEW s, NEW t, NEW n \in 0 .. MaxUint, n # MaxUint, NEW o, NEW x, Extends(s, t, n, o, x), History(s, n),
         NEW b \in Blocks(n + 1)
  PROVE  NodeFacts(t, b[1], b[2])
<1> DEFINE tree == NewTree(s, n, o, x)
           k == Merges(PeaksOf(s, n))
           leaf == calculateRevisionStreamMerkleLeaf(Stream, n + 1, NewContent(s, n, o, x))
<1>0. n \in Nat /\ n + 1 \in 0 .. MaxUint /\ n + 1 \in Nat
  BY WidthType
<1>1. LeafAppended(s, n, leaf, tree)
  BY TreeGrown
<1>c. EventAt(t, n + 1).content = NewContent(s, n, o, x)
  <2>1. NewEvent(s, n, o, x).content = NewContent(s, n, o, x)
    BY DEF NewEvent, NewContent, EventOf
  <2>2. QED
    BY <2>1 DEF Extends
<1> HIDE DEF tree, leaf
<1>2. /\ k \in 0 .. Width - 1 /\ k \in Nat /\ LowestZero(n, k) /\ DOMAIN tree.created = 0 .. k
      /\ tree.created[0].root = leaf
      /\ \A j \in 0 .. k - 1 :
           tree.created[j + 1].root = calculateRevisionStreamMerkleNode(
                                     Stream, j + 1, n + 2 - 2 ^ (j + 1), NodeRoot(s, j, n + 2 - 2 ^ (j + 1)),
                                     tree.created[j].root)
  BY <1>1 DEF LeafAppended
<1> HIDE DEF k
<1>3. \A j \in 0 .. k : NodeRoot(t, j, n + 2 - 2 ^ j) = tree.created[j].root
  BY <1>2 DEF Extends, tree
<1>4. CASE b \in Blocks(n)
  <2>1. NodeFacts(s, b[1], b[2])
    BY <1>4 DEF History
  <2>2. Agree(s, t, n)
    BY DEF Extends
  <2>3. QED
    BY <1>4, <2>1, <2>2, NodeFrame
<1>5. ASSUME NEW j \in 0 .. k, b = <<j, n + 2 - 2 ^ j>> PROVE NodeFacts(t, j, n + 2 - 2 ^ j)
  <2>1. CASE j = 0
    <3>1. n + 2 - 2 ^ j = n + 1
      BY <2>1, <1>0, Pow0
    <3>2. NodeRoot(t, 0, n + 1) = leaf
      BY <2>1, <3>1, <1>3, <1>2
    <3>3. QED
      BY <2>1, <3>1, <3>2, <1>c DEF NodeFacts, leaf
  <2>2. CASE j # 0
    <3>1. PICK i \in 0 .. k - 1 : j = i + 1 /\ i = j - 1 /\ i \in Nat /\ i \in 0 .. k
      <4>1. j - 1 \in 0 .. k - 1 /\ j = (j - 1) + 1 /\ j - 1 \in Nat /\ j - 1 \in 0 .. k
        BY <2>2, <1>2
      <4>2. QED
        BY <4>1
    <3>2. PICK d \in Nat : d = 2 ^ i /\ 2 ^ (i + 1) = 2 * d
      BY <3>1, Doubling
    <3>3. NodeRoot(t, j, n + 2 - 2 ^ j) = calculateRevisionStreamMerkleNode(
                                     Stream, j, n + 2 - 2 ^ j, NodeRoot(s, i, n + 2 - 2 ^ j), tree.created[i].root)
      BY <3>1, <1>2, <1>3
    <3>4. tree.created[i].root = NodeRoot(t, i, n + 2 - 2 ^ i)
      BY <3>1, <1>3
    <3>5. n + 2 - 2 ^ i = (n + 2 - 2 ^ j) + 2 ^ i
      BY <3>1, <3>2, <1>0
    <3>6. NodeRoot(s, i, n + 2 - 2 ^ j) = NodeRoot(t, i, n + 2 - 2 ^ j)
      <4>1. PeakStart(n, i) = n + 2 - 2 ^ j
        BY <3>1, <1>0, <1>2, PeakStartStep
      <4>2. i \in 0 .. Width - 1 /\ (n \div 2 ^ i) % 2 = 1
        BY <3>1, <1>2, WidthType DEF LowestZero
      <4>3. i \in PeakHeights(n)
        BY <4>2 DEF PeakHeights
      <4>4. <<i, n + 2 - 2 ^ j>> \in Blocks(n)
        BY <4>1, <4>3, <1>0, PeakBlock
      <4>5. QED
        BY <4>4 DEF Extends, Agree
    <3>7. NodeRoot(t, j, n + 2 - 2 ^ j) = calculateRevisionStreamMerkleNode(
               Stream, j, n + 2 - 2 ^ j, NodeRoot(t, j - 1, n + 2 - 2 ^ j), NodeRoot(t, j - 1, (n + 2 - 2 ^ j) + 2 ^ (j - 1)))
      BY <3>1, <3>3, <3>4, <3>5, <3>6
    <3>8. QED
      BY <3>7, <2>2 DEF NodeFacts
  <2>3. QED
    BY <2>1, <2>2
<1>6. Blocks(n + 1) = Blocks(n) \cup {<<j, n + 2 - 2 ^ j>> : j \in 0 .. k}
  BY <1>0, <1>2, BlocksStep
<1>7. CASE b \notin Blocks(n)
  <2>1. PICK j \in 0 .. k : b = <<j, n + 2 - 2 ^ j>>
    BY <1>6, <1>7
  <2>2. b[1] = j /\ b[2] = n + 2 - 2 ^ j
    BY <2>1
  <2>3. QED
    BY <2>1, <2>2, <1>5
<1>8. QED
  BY <1>4, <1>7

(* An append extends a history by one revision.                            *)
LEMMA HistoryGrown ==
  ASSUME NEW s, NEW t, NEW n \in 0 .. MaxUint, n # MaxUint, NEW o \in Times, NEW x, Extends(s, t, n, o, x), History(s, n),
         n > 0 => EventAt(s, n).occurredAt <= o
  PROVE  History(t, n + 1) /\ HeadAt(t, n + 1) = NewHead(s, n, o, x)
<1>0. n \in Nat /\ n + 1 \in 0 .. MaxUint /\ n + 1 \in Nat /\ n \in 0 .. n
  BY WidthType
<1>1. Agree(s, t, n) /\ EventAt(t, n + 1) = NewEvent(s, n, o, x)
  BY DEF Extends
<1>2. PeaksOf(t, n + 1) = NewTree(s, n, o, x).peaks
  BY PeaksGrown
<1>3. History(t, n)
  BY <1>0, <1>1, HistoryFrame
<1>4. /\ NewEvent(s, n, o, x) =
           [revision |-> n + 1, occurredAt |-> o, previousRoot |-> PreviousRoot(s, n), payloadSHA |-> PayloadSHA(x),
            content |-> NewContent(s, n, o, x), proofRoot |-> NewProofRoot(s, n, o, x), root |-> NewRoot(s, n, o, x),
            payload |-> x]
      /\ NewContent(s, n, o, x) = calculateRevisionStreamContent(Stream, PreviousRoot(s, n), n + 1, o, PayloadSHA(x))
      /\ NewProofRoot(s, n, o, x) = calculateRevisionStreamMerkleRoot(Stream, n + 1, NewTree(s, n, o, x).peaks)
      /\ NewRoot(s, n, o, x) = calculateRevisionStreamHeadRoot(Stream, n + 1, o, NewContent(s, n, o, x), NewProofRoot(s, n, o, x))
      /\ NewHead(s, n, o, x) =
           [revision |-> n + 1, lastOccurredAt |-> o, root |-> NewRoot(s, n, o, x),
            proof |-> [leafCount |-> n + 1, root |-> NewProofRoot(s, n, o, x), lastContent |-> NewContent(s, n, o, x),
                       peaks |-> NewTree(s, n, o, x).peaks]]
  BY DEF NewEvent, EventOf, NewContent, Content, NewProofRoot, ProofRoot, NewRoot, Root, NewHead, HeadFor, NewTree
<1>5. PreviousRoot(t, n) = PreviousRoot(s, n)
  <2>1. CASE n = 0
    BY <2>1 DEF PreviousRoot
  <2>2. CASE n # 0
    <3>1. n \in 1 .. n
      BY <2>2, <1>0
    <3>2. QED
      BY <3>1, <1>1 DEF PreviousRoot, Agree
  <2>3. QED
    BY <2>1, <2>2
<1>6. EventFacts(t, n + 1)
  <2>1. (n + 1) - 1 = n
    BY <1>0
  <2>2. PICK e : e = EventAt(t, n + 1)
    OBVIOUS
  <2>3. /\ e = [revision |-> n + 1, occurredAt |-> o, previousRoot |-> PreviousRoot(s, n), payloadSHA |-> PayloadSHA(x),
                content |-> NewContent(s, n, o, x), proofRoot |-> NewProofRoot(s, n, o, x), root |-> NewRoot(s, n, o, x),
                payload |-> x]
        /\ e.occurredAt = o /\ e.previousRoot = PreviousRoot(s, n) /\ e.payloadSHA = PayloadSHA(x) /\ e.payload = x
        /\ e.content = NewContent(s, n, o, x) /\ e.proofRoot = NewProofRoot(s, n, o, x) /\ e.root = NewRoot(s, n, o, x)
    BY <2>2, <1>1, <1>4
  <2>4. QED
    BY <2>1, <2>2, <2>3, <1>2, <1>4, <1>5 DEF EventFacts
<1>7. ASSUME NEW r \in 1 .. n + 1 PROVE EventFacts(t, r)
  <2>1. CASE r = n + 1
    BY <2>1, <1>6
  <2>2. CASE r # n + 1
    <3>1. r \in 1 .. n
      BY <2>2, <1>0
    <3>2. QED
      BY <3>1, <1>3 DEF History
  <2>3. QED
    BY <2>1, <2>2
<1>8. ASSUME NEW r \in 2 .. n + 1 PROVE EventAt(t, r - 1).occurredAt <= EventAt(t, r).occurredAt
  <2>1. CASE r = n + 1
    <3>1. r - 1 = n /\ n > 0 /\ n \in 1 .. n
      BY <2>1, <1>0
    <3>2. EventAt(t, n) = EventAt(s, n)
      BY <3>1, <1>1 DEF Agree
    <3>3. EventAt(t, n + 1).occurredAt = o
      BY <1>1, <1>4
    <3>4. QED
      BY <2>1, <3>1, <3>2, <3>3
  <2>2. CASE r # n + 1
    <3>1. r \in 2 .. n
      BY <2>2, <1>0
    <3>2. QED
      BY <3>1, <1>3 DEF History
  <2>3. QED
    BY <2>1, <2>2
<1>9. \A b \in Blocks(n + 1) : NodeFacts(t, b[1], b[2])
  BY NodesGrown
<1>10. History(t, n + 1)
  BY <1>7, <1>8, <1>9 DEF History
<1>11. HeadAt(t, n + 1) = NewHead(s, n, o, x)
  <2>1. PICK e : e = EventAt(t, n + 1)
    OBVIOUS
  <2>2. e.occurredAt = o /\ e.content = NewContent(s, n, o, x) /\ e.proofRoot = NewProofRoot(s, n, o, x) /\ e.root = NewRoot(s, n, o, x)
    BY <2>1, <1>1, <1>4
  <2>3. HeadAt(t, n + 1) = [revision |-> n + 1, lastOccurredAt |-> e.occurredAt, root |-> e.root,
                            proof |-> [leafCount |-> n + 1, root |-> e.proofRoot,
                                       lastContent |-> e.content, peaks |-> PeaksOf(t, n + 1)]]
    BY <2>1, HeadFields
  <2>4. QED
    BY <2>2, <2>3, <1>2, <1>4
<1>12. QED
  BY <1>10, <1>11

-----------------------------------------------------------------------------
(* The keyspace of a stream: what every append, restore and abandoned      *)
(* branch keeps.                                                           *)

(* A keyspace as appends leave it: the head, events, time keys and nodes   *)
(* of one history and nothing else.                                        *)
Canonical(s) ==
  LET n == HeadOf(s).revision
  IN  /\ n \in 0 .. MaxRevision
      /\ DOMAIN s = Keyspace(s, n)
      /\ History(s, n)
      /\ n > 0 => s[HeadKey(Stream)] = <<"head", HeadAt(s, n)>>

(* The inductive invariant of the stream: both branches are canonical.     *)
StreamInv == Canonical(store) /\ Canonical(lost)

(* The head of n revisions, or none.                                       *)
HeadFor0(s, n) == IF n = 0 THEN NoHead ELSE HeadAt(s, n)

(* The key families do not overlap.                                        *)
LEMMA Keys ==
  /\ \A r : EventKey(Stream, r) # HeadKey(Stream)
  /\ \A u, r : TimeKey(Stream, u, r) # HeadKey(Stream)
  /\ \A h, a : revisionStreamMerkleKey(Stream, h, a) # HeadKey(Stream)
  /\ \A r, u, q : TimeKey(Stream, u, q) # EventKey(Stream, r)
  /\ \A r, h, a : revisionStreamMerkleKey(Stream, h, a) # EventKey(Stream, r)
  /\ \A u, r, h, a : revisionStreamMerkleKey(Stream, h, a) # TimeKey(Stream, u, r)
  /\ \A r, q : EventKey(Stream, r) = EventKey(Stream, q) => r = q
  /\ \A u, r, v, q : TimeKey(Stream, u, r) = TimeKey(Stream, v, q) => u = v /\ r = q
  /\ \A h, a, g, b : revisionStreamMerkleKey(Stream, h, a) = revisionStreamMerkleKey(Stream, g, b) => h = g /\ a = b
BY DEF EventKey, HeadKey, TimeKey, revisionStreamMerkleKey

(* Membership in the keyspace, by family.                                  *)
LEMMA KeyspaceKeys ==
  ASSUME NEW s, NEW n \in Nat
  PROVE  /\ HeadKey(Stream) \in Keyspace(s, n) <=> n > 0
         /\ \A r : EventKey(Stream, r) \in Keyspace(s, n) <=> r \in 1 .. n
         /\ \A h, a : revisionStreamMerkleKey(Stream, h, a) \in Keyspace(s, n) <=> <<h, a>> \in Blocks(n)
         /\ \A u, r : TimeKey(Stream, u, r) \in Keyspace(s, n) <=> r \in 1 .. n /\ EventAt(s, r).occurredAt = u
<1>1. HeadKey(Stream) \in Keyspace(s, n) <=> n > 0
  <2>1. n > 0 <=> \E r \in 1 .. n : TRUE
    <3>1. n > 0 => 1 \in 1 .. n
      OBVIOUS
    <3>2. QED
      BY <3>1
  <2>2. QED
    BY <2>1, Keys DEF Keyspace
<1>2. ASSUME NEW r PROVE EventKey(Stream, r) \in Keyspace(s, n) <=> r \in 1 .. n
  BY Keys DEF Keyspace
<1>3. ASSUME NEW h, NEW a PROVE revisionStreamMerkleKey(Stream, h, a) \in Keyspace(s, n) <=> <<h, a>> \in Blocks(n)
  <2>1. \A b \in Blocks(n) : b = <<b[1], b[2]>>
    BY BlockBounds
  <2>2. ASSUME revisionStreamMerkleKey(Stream, h, a) \in Keyspace(s, n) PROVE <<h, a>> \in Blocks(n)
    <3>1. PICK b \in Blocks(n) : revisionStreamMerkleKey(Stream, h, a) = revisionStreamMerkleKey(Stream, b[1], b[2])
      BY <2>2, Keys DEF Keyspace
    <3>2. h = b[1] /\ a = b[2]
      BY <3>1, Keys
    <3>3. QED
      BY <3>2, <2>1
  <2>3. ASSUME <<h, a>> \in Blocks(n) PROVE revisionStreamMerkleKey(Stream, h, a) \in Keyspace(s, n)
    <3>1. PICK b \in Blocks(n) : b = <<h, a>>
      BY <2>3
    <3>2. b[1] = h /\ b[2] = a
      BY <3>1
    <3>3. revisionStreamMerkleKey(Stream, b[1], b[2]) \in Keyspace(s, n)
      BY DEF Keyspace
    <3>4. QED
      BY <3>2, <3>3
  <2>4. QED
    BY <2>2, <2>3
<1>4. ASSUME NEW u, NEW r PROVE TimeKey(Stream, u, r) \in Keyspace(s, n) <=> r \in 1 .. n /\ EventAt(s, r).occurredAt = u
  BY Keys DEF Keyspace
<1>5. QED
  BY <1>1, <1>2, <1>3, <1>4

(* What the head of a canonical keyspace says.                             *)
LEMMA CanonicalHead ==
  ASSUME NEW s, Canonical(s), NEW n, n = HeadOf(s).revision
  PROVE  /\ n \in Nat /\ n \in 0 .. MaxUint /\ n <= MaxRevision /\ MaxRevision \in Nat /\ MaxRevision <= MaxUint
         /\ History(s, n) /\ DOMAIN s = Keyspace(s, n)
         /\ HeadOf(s) = HeadFor0(s, n)
         /\ Value(s, HeadKey(Stream)) = HeadValue(HeadOf(s))
<1>1. n \in 0 .. MaxRevision /\ MaxRevision \in 1 .. MaxUint /\ MaxUint \in Nat
  BY BoundAssumption, WidthType DEF Canonical
<1>2. n \in Nat /\ n \in 0 .. MaxUint /\ n <= MaxRevision /\ MaxRevision \in Nat /\ MaxRevision <= MaxUint
  BY <1>1
<1>3. History(s, n) /\ DOMAIN s = Keyspace(s, n) /\ (n > 0 => s[HeadKey(Stream)] = <<"head", HeadAt(s, n)>>)
  BY DEF Canonical
<1>4. HeadKey(Stream) \in DOMAIN s <=> n > 0
  BY <1>2, <1>3, KeyspaceKeys
<1>5. CASE n = 0
  <2>1. HeadOf(s) = NoHead /\ HeadFor0(s, n) = NoHead
    BY <1>4, <1>5, <1>2 DEF HeadOf, HeadFor0
  <2>2. Value(s, HeadKey(Stream)) = <<>>
    BY <1>4, <1>5, <1>2 DEF Value
  <2>3. QED
    BY <1>2, <1>3, <2>1, <2>2 DEF HeadValue
<1>6. CASE n # 0
  <2>1. n > 0
    BY <1>2, <1>6
  <2>2. s[HeadKey(Stream)] = <<"head", HeadAt(s, n)>> /\ HeadKey(Stream) \in DOMAIN s
    BY <2>1, <1>3, <1>4
  <2>3. HeadOf(s) = HeadAt(s, n) /\ HeadFor0(s, n) = HeadAt(s, n)
    BY <2>2, <1>6 DEF HeadOf, HeadFor0
  <2>4. HeadAt(s, n) # NoHead
    BY <1>6, HeadFields
  <2>5. Value(s, HeadKey(Stream)) = HeadValue(HeadOf(s))
    BY <2>2, <2>3, <2>4 DEF Value, HeadValue
  <2>6. QED
    BY <1>2, <1>3, <2>3, <2>5
<1>7. QED
  BY <1>5, <1>6

(* A head is determined by its stored value.                               *)
LEMMA HeadValueInjective ==
  ASSUME NEW g, NEW h, HeadValue(g) = HeadValue(h)
  PROVE  g = h
<1>1. \A e : <<>> # <<"head", e>>
  OBVIOUS
<1>2. \A e, f : <<"head", e>> = <<"head", f>> => e = f
  OBVIOUS
<1>3. QED
  BY <1>1, <1>2 DEF HeadValue

(* A committed append: the keyspace of one more revision.                  *)
AppendFacts(s, t, n, o, x) ==
  /\ Extends(s, t, n, o, x)
  /\ DOMAIN t = Keyspace(t, n + 1)
  /\ t[HeadKey(Stream)] = <<"head", NewHead(s, n, o, x)>>

(* A commit whose conditions hold extends the history it was built over.   *)
LEMMA AppendExtends ==
  ASSUME NEW s, Canonical(s), NEW n, n = HeadOf(s).revision, n # MaxUint, NEW o, NEW x,
         NEW b, b = buildRevisionStreamAppend(Stream, HeadOf(s), o, x),
         b.absent \cap DOMAIN s = {}, NEW t, t = Written(b.puts, s)
  PROVE  AppendFacts(s, t, n, o, x)
<1> DEFINE tree == NewTree(s, n, o, x)
           new == NewKeys(s, n, o, x)
           k == Merges(PeaksOf(s, n))
<1>0. /\ n \in Nat /\ n \in 0 .. MaxUint /\ n + 1 \in Nat
      /\ DOMAIN s = Keyspace(s, n) /\ HeadOf(s) = HeadFor0(s, n)
  BY CanonicalHead
<1>1. /\ b.absent = new
      /\ DOMAIN b.puts = new \cup {HeadKey(Stream)}
      /\ b.puts[HeadKey(Stream)] = <<"head", NewHead(s, n, o, x)>>
      /\ b.puts[EventKey(Stream, n + 1)] = <<"event", NewEvent(s, n, o, x)>>
      /\ \A j \in DOMAIN tree.created : b.puts[NodeKey(tree.created[j])][2] = tree.created[j].root
  <2>1. BuiltFacts(b, s, n, o, x, HeadOf(s))
    BY <1>0, Built DEF HeadFor0
  <2>2. QED
    BY <2>1 DEF BuiltFacts
<1>2. LeafAppended(s, n, calculateRevisionStreamMerkleLeaf(Stream, n + 1, NewContent(s, n, o, x)), tree)
  BY <1>0, TreeGrown
<1>n. new = {EventKey(Stream, n + 1), TimeKey(Stream, o, n + 1)} \cup {NodeKey(tree.created[j]) : j \in DOMAIN tree.created}
  BY DEF NewKeys, KeysOf
<1> HIDE DEF tree, new
<1>3. /\ k \in 0 .. Width - 1 /\ k \in Nat /\ LowestZero(n, k) /\ DOMAIN tree.created = 0 .. k
      /\ \A j \in 0 .. k : tree.created[j].height = j /\ tree.created[j].startRevision = n + 2 - 2 ^ j
  BY <1>2 DEF LeafAppended
<1> HIDE DEF k
<1>4. \A j \in 0 .. k : NodeKey(tree.created[j]) = revisionStreamMerkleKey(Stream, j, n + 2 - 2 ^ j)
  BY <1>3 DEF NodeKey
<1>5. /\ DOMAIN t = new \cup {HeadKey(Stream)} \cup DOMAIN s
      /\ \A key \in new \cup {HeadKey(Stream)} : t[key] = b.puts[key]
      /\ \A key \in DOMAIN s : key \notin new \cup {HeadKey(Stream)} => t[key] = s[key]
  <2>1. PICK f : f = b.puts
    OBVIOUS
  <2>2. t = Written(f, s) /\ DOMAIN f = new \cup {HeadKey(Stream)}
    BY <2>1, <1>1
  <2>3. /\ DOMAIN t = DOMAIN f \cup DOMAIN s
        /\ \A key \in DOMAIN f : t[key] = f[key]
        /\ \A key \in DOMAIN s : key \notin DOMAIN f => t[key] = s[key]
    BY <2>2 DEF Written
  <2>4. QED
    BY <2>1, <2>2, <2>3
<1>6. t[HeadKey(Stream)] = <<"head", NewHead(s, n, o, x)>>
  BY <1>1, <1>5
<1>7. ASSUME NEW r \in 1 .. n PROVE EventAt(t, r) = EventAt(s, r)
  <2>1. EventKey(Stream, r) \in DOMAIN s
    BY <1>0, KeyspaceKeys
  <2>2. EventKey(Stream, r) \notin new /\ EventKey(Stream, r) # HeadKey(Stream)
    BY <2>1, <1>1, Keys
  <2>3. QED
    BY <2>1, <2>2, <1>5 DEF EventAt
<1>8. ASSUME NEW c \in Blocks(n) PROVE NodeRoot(t, c[1], c[2]) = NodeRoot(s, c[1], c[2])
  <2>0. c = <<c[1], c[2]>>
    BY <1>0, BlockBounds
  <2>1. revisionStreamMerkleKey(Stream, c[1], c[2]) \in DOMAIN s
    BY <2>0, <1>0, KeyspaceKeys
  <2>2. revisionStreamMerkleKey(Stream, c[1], c[2]) \notin new /\ revisionStreamMerkleKey(Stream, c[1], c[2]) # HeadKey(Stream)
    BY <2>1, <1>1, Keys
  <2>3. QED
    BY <2>1, <2>2, <1>5 DEF NodeRoot
<1>9. EventAt(t, n + 1) = NewEvent(s, n, o, x)
  <2>1. EventKey(Stream, n + 1) \in new
    BY <1>n
  <2>2. t[EventKey(Stream, n + 1)] = <<"event", NewEvent(s, n, o, x)>>
    BY <2>1, <1>1, <1>5
  <2>3. QED
    BY <2>2 DEF EventAt
<1>10. ASSUME NEW j \in DOMAIN tree.created PROVE NodeRoot(t, j, n + 2 - 2 ^ j) = tree.created[j].root
  <2>1. NodeKey(tree.created[j]) \in new
    BY <1>n
  <2>2. t[NodeKey(tree.created[j])][2] = tree.created[j].root
    BY <2>1, <1>1, <1>5
  <2>3. QED
    BY <2>2, <1>3, <1>4 DEF NodeRoot
<1>11. Extends(s, t, n, o, x)
  BY <1>7, <1>8, <1>9, <1>10 DEF Extends, Agree, tree
<1>12. Blocks(n + 1) = Blocks(n) \cup {<<j, n + 2 - 2 ^ j>> : j \in 0 .. k}
  BY <1>0, <1>3, BlocksStep
<1>o. EventAt(t, n + 1).occurredAt = o
  BY <1>9 DEF NewEvent, EventOf
<1>13. ASSUME NEW key \in DOMAIN t PROVE key \in Keyspace(t, n + 1)
  <2>1. CASE key = HeadKey(Stream)
    <3>1. n + 1 > 0
      BY <1>0
    <3>2. QED
      BY <2>1, <3>1, <1>0, KeyspaceKeys
  <2>2. CASE key = EventKey(Stream, n + 1)
    <3>1. n + 1 \in 1 .. n + 1
      BY <1>0
    <3>2. QED
      BY <2>2, <3>1, <1>0, KeyspaceKeys
  <2>3. CASE key = TimeKey(Stream, o, n + 1)
    <3>1. n + 1 \in 1 .. n + 1
      BY <1>0
    <3>2. QED
      BY <2>3, <3>1, <1>0, <1>o, KeyspaceKeys
  <2>4. CASE \E j \in 0 .. k : key = revisionStreamMerkleKey(Stream, j, n + 2 - 2 ^ j)
    <3>1. PICK j \in 0 .. k : key = revisionStreamMerkleKey(Stream, j, n + 2 - 2 ^ j)
      BY <2>4
    <3>2. <<j, n + 2 - 2 ^ j>> \in Blocks(n + 1)
      BY <1>12
    <3>3. QED
      BY <3>1, <3>2, <1>0, KeyspaceKeys
  <2>5. CASE key \in Keyspace(s, n)
    <3>1. \A r \in 1 .. n : r \in 1 .. n + 1
      BY <1>0
    <3>2. CASE \E r \in 1 .. n : key = EventKey(Stream, r)
      BY <3>1, <3>2, <1>0, KeyspaceKeys
    <3>3. CASE \E r \in 1 .. n : key = TimeKey(Stream, EventAt(s, r).occurredAt, r)
      <4>1. PICK r \in 1 .. n : key = TimeKey(Stream, EventAt(s, r).occurredAt, r)
        BY <3>3
      <4>2. r \in 1 .. n + 1 /\ EventAt(t, r).occurredAt = EventAt(s, r).occurredAt
        BY <3>1, <1>7
      <4>3. QED
        BY <4>1, <4>2, <1>0, KeyspaceKeys
    <3>4. CASE \E c \in Blocks(n) : key = revisionStreamMerkleKey(Stream, c[1], c[2])
      <4>1. PICK c \in Blocks(n) : key = revisionStreamMerkleKey(Stream, c[1], c[2])
        BY <3>4
      <4>2. c = <<c[1], c[2]>> /\ c \in Blocks(n + 1)
        BY <1>0, <1>12, BlockBounds
      <4>3. QED
        BY <4>1, <4>2, <1>0, KeyspaceKeys
    <3>5. QED
      BY <2>5, <2>1, <3>2, <3>3, <3>4 DEF Keyspace
  <2>6. QED
    <3>1. key \in new \/ key = HeadKey(Stream) \/ key \in Keyspace(s, n)
      BY <1>0, <1>5
    <3>2. CASE key \in new
      <4>1. CASE \E j \in DOMAIN tree.created : key = NodeKey(tree.created[j])
        BY <4>1, <2>4, <1>3, <1>4
      <4>2. QED
        BY <3>2, <4>1, <2>2, <2>3, <1>n
    <3>3. QED
      BY <3>1, <3>2, <2>1, <2>5
<1>14. ASSUME NEW key \in Keyspace(t, n + 1) PROVE key \in DOMAIN t
  <2>1. CASE key = HeadKey(Stream)
    BY <2>1, <1>5
  <2>2. CASE \E r \in 1 .. n + 1 : key = EventKey(Stream, r)
    <3>1. PICK r \in 1 .. n + 1 : key = EventKey(Stream, r)
      BY <2>2
    <3>2. CASE r = n + 1
      BY <3>1, <3>2, <1>5, <1>n
    <3>3. CASE r # n + 1
      <4>1. r \in 1 .. n
        BY <3>3, <1>0
      <4>2. QED
        BY <3>1, <4>1, <1>0, <1>5, KeyspaceKeys
    <3>4. QED
      BY <3>2, <3>3
  <2>3. CASE \E r \in 1 .. n + 1 : key = TimeKey(Stream, EventAt(t, r).occurredAt, r)
    <3>1. PICK r \in 1 .. n + 1 : key = TimeKey(Stream, EventAt(t, r).occurredAt, r)
      BY <2>3
    <3>2. CASE r = n + 1
      BY <3>1, <3>2, <1>5, <1>n, <1>o
    <3>3. CASE r # n + 1
      <4>1. r \in 1 .. n
        BY <3>3, <1>0
      <4>2. EventAt(t, r).occurredAt = EventAt(s, r).occurredAt
        BY <4>1, <1>7
      <4>3. QED
        BY <3>1, <4>1, <4>2, <1>0, <1>5, KeyspaceKeys
    <3>4. QED
      BY <3>2, <3>3
  <2>4. CASE \E c \in Blocks(n + 1) : key = revisionStreamMerkleKey(Stream, c[1], c[2])
    <3>1. PICK c \in Blocks(n + 1) : key = revisionStreamMerkleKey(Stream, c[1], c[2])
      BY <2>4
    <3>2. CASE c \in Blocks(n)
      <4>1. c = <<c[1], c[2]>>
        BY <3>2, <1>0, BlockBounds
      <4>2. QED
        BY <3>1, <3>2, <4>1, <1>0, <1>5, KeyspaceKeys
    <3>3. CASE c \notin Blocks(n)
      <4>1. PICK j \in 0 .. k : c = <<j, n + 2 - 2 ^ j>>
        BY <3>3, <1>12
      <4>2. key = NodeKey(tree.created[j])
        BY <3>1, <4>1, <1>4
      <4>3. QED
        BY <4>2, <1>3, <1>5, <1>n
    <3>4. QED
      BY <3>2, <3>3
  <2>5. QED
    BY <2>1, <2>2, <2>3, <2>4 DEF Keyspace
<1>15. QED
  BY <1>6, <1>11, <1>13, <1>14 DEF AppendFacts

(* The keyspace depends on the events of the prefix only.                  *)
LEMMA KeyspaceFrame ==
  ASSUME NEW s, NEW t, NEW n, Agree(s, t, n)
  PROVE  Keyspace(t, n) = Keyspace(s, n)
BY DEF Keyspace, Agree

(* Appends keep a keyspace canonical.                                      *)
LEMMA AppendCanonical ==
  ASSUME NEW s, Canonical(s), NEW n, n = HeadOf(s).revision, n < MaxRevision, NEW o \in Times, NEW x,
         NEW b, b = buildRevisionStreamAppend(Stream, HeadOf(s), o, x),
         b.ok, b.absent \cap DOMAIN s = {}, NEW t, t = Written(b.puts, s)
  PROVE  Canonical(t)
<1>1. /\ n \in Nat /\ n \in 0 .. MaxUint /\ MaxRevision \in Nat /\ MaxRevision <= MaxUint /\ MaxUint \in Nat
      /\ History(s, n) /\ HeadOf(s) = HeadFor0(s, n)
  BY CanonicalHead, WidthType
<1>2. n # MaxUint /\ n + 1 \in 0 .. MaxRevision /\ n + 1 \in Nat /\ n + 1 > 0
  BY <1>1
<1>3. BuiltFacts(b, s, n, o, x, HeadOf(s))
  BY <1>1, Built DEF HeadFor0
<1>4. n # 0 => o >= EventAt(s, n).occurredAt
  BY <1>3 DEF BuiltFacts
<1>5. n > 0 => EventAt(s, n).occurredAt <= o
  <2>1. ASSUME n > 0 PROVE EventAt(s, n).occurredAt <= o
    <3>1. EventFacts(s, n)
      BY <2>1, <1>1 DEF History
    <3>2. EventAt(s, n).occurredAt \in Int /\ o \in Int
      BY <3>1, TimesAssumption DEF EventFacts
    <3>3. QED
      BY <3>2, <2>1, <1>1, <1>4
  <2>2. QED
    BY <2>1
<1>6. /\ Extends(s, t, n, o, x) /\ DOMAIN t = Keyspace(t, n + 1)
      /\ t[HeadKey(Stream)] = <<"head", NewHead(s, n, o, x)>>
  <2>1. AppendFacts(s, t, n, o, x)
    BY <1>2, AppendExtends
  <2>2. QED
    BY <2>1 DEF AppendFacts
<1>7. History(t, n + 1) /\ HeadAt(t, n + 1) = NewHead(s, n, o, x)
  BY <1>1, <1>2, <1>5, <1>6, HistoryGrown
<1>8. HeadKey(Stream) \in DOMAIN t
  BY <1>2, <1>6, KeyspaceKeys
<1>9. HeadOf(t) = HeadAt(t, n + 1) /\ HeadAt(t, n + 1).revision = n + 1
  BY <1>6, <1>7, <1>8, HeadFields DEF HeadOf
<1>10. QED
  BY <1>2, <1>6, <1>7, <1>9 DEF Canonical

(* A restored prefix is canonical.                                         *)
LEMMA OlderCanonical ==
  ASSUME NEW s, Canonical(s), NEW n \in 0 .. HeadOf(s).revision, NEW t, t = OlderCopy(s, n)
  PROVE  Canonical(t)
<1> DEFINE N == HeadOf(s).revision
<1>1. /\ N \in Nat /\ N \in 0 .. MaxUint /\ N <= MaxRevision /\ MaxRevision \in Nat /\ MaxRevision <= MaxUint
      /\ History(s, N)
  BY CanonicalHead
<1>2. n \in Nat /\ n <= N /\ n \in 0 .. MaxRevision /\ n \in 0 .. MaxUint /\ n \in 0 .. N
  BY <1>1, WidthType
<1> HIDE DEF N
<1>3. /\ DOMAIN t = Keyspace(s, n)
      /\ \A key \in Keyspace(s, n) : key # HeadKey(Stream) => t[key] = s[key]
      /\ HeadKey(Stream) \in Keyspace(s, n) => t[HeadKey(Stream)] = HeadValue(HeadAt(s, n))
  BY DEF OlderCopy
<1>4. Agree(s, t, n)
  <2>1. ASSUME NEW r \in 1 .. n PROVE EventAt(t, r) = EventAt(s, r)
    <3>1. EventKey(Stream, r) \in Keyspace(s, n) /\ EventKey(Stream, r) # HeadKey(Stream)
      BY <1>2, KeyspaceKeys, Keys
    <3>2. QED
      BY <3>1, <1>3 DEF EventAt
  <2>2. ASSUME NEW c \in Blocks(n) PROVE NodeRoot(t, c[1], c[2]) = NodeRoot(s, c[1], c[2])
    <3>1. c = <<c[1], c[2]>>
      BY <1>2, BlockBounds
    <3>2. /\ revisionStreamMerkleKey(Stream, c[1], c[2]) \in Keyspace(s, n)
          /\ revisionStreamMerkleKey(Stream, c[1], c[2]) # HeadKey(Stream)
      BY <3>1, <1>2, KeyspaceKeys, Keys
    <3>3. QED
      BY <3>2, <1>3 DEF NodeRoot
  <2>3. QED
    BY <2>1, <2>2 DEF Agree
<1>5. History(t, n) /\ Keyspace(t, n) = Keyspace(s, n)
  BY <1>1, <1>2, <1>4, HistoryFrame, KeyspaceFrame
<1>6. CASE n = 0
  <2>1. HeadKey(Stream) \notin DOMAIN t
    BY <1>6, <1>2, <1>3, KeyspaceKeys
  <2>2. HeadOf(t).revision = 0
    BY <2>1 DEF HeadOf, NoHead
  <2>3. QED
    BY <2>2, <1>6, <1>2, <1>3, <1>5 DEF Canonical
<1>7. CASE n # 0
  <2>1. n > 0 /\ n \in 0 .. n
    BY <1>2, <1>7
  <2>2. HeadKey(Stream) \in DOMAIN t /\ t[HeadKey(Stream)] = HeadValue(HeadAt(s, n))
    BY <2>1, <1>2, <1>3, KeyspaceKeys
  <2>3. HeadAt(t, n) = HeadAt(s, n) /\ HeadAt(s, n) # NoHead
    BY <1>2, <1>4, <1>7, <2>1, PeaksFrame, HeadFields
  <2>4. t[HeadKey(Stream)] = <<"head", HeadAt(t, n)>>
    BY <2>2, <2>3 DEF HeadValue
  <2>5. HeadOf(t) = HeadAt(t, n) /\ HeadAt(t, n).revision = n
    BY <2>2, <2>4, HeadFields DEF HeadOf
  <2>6. QED
    BY <2>4, <2>5, <1>2, <1>3, <1>5 DEF Canonical
<1>8. QED
  BY <1>6, <1>7

(* The empty store is canonical.                                           *)
LEMMA EmptyCanonical ==
  ASSUME NEW s, DOMAIN s = {}
  PROVE  Canonical(s)
<1>1. HeadOf(s).revision = 0
  BY DEF HeadOf, NoHead
<1>2. \A r \in 1 .. 0 : FALSE
  OBVIOUS
<1>3. \A b : b \notin Blocks(0)
  BY <1>2 DEF Blocks
<1>4. Keyspace(s, 0) = {}
  BY <1>2, <1>3 DEF Keyspace
<1>5. History(s, 0)
  BY <1>2, <1>3 DEF History
<1>6. 0 \in 0 .. MaxRevision /\ ~(0 > 0)
  BY BoundAssumption, WidthType
<1>7. QED
  BY <1>1, <1>4, <1>5, <1>6 DEF Canonical

(* Streams start canonical.                                                *)
LEMMA StreamInvInit == StreamInit => StreamInv
<1>1. DOMAIN << >> = {}
  OBVIOUS
<1>2. QED
  BY <1>1, EmptyCanonical DEF StreamInit, StreamInv

(* Every step of the stream keeps both branches canonical.                 *)
LEMMA StreamInvStep ==
  ASSUME StreamInv, StreamNext
  PROVE  StreamInv'
<1>1. ASSUME NEW head \in IssuedHeads, NEW o \in Times, NEW x \in Payloads, RevisionStreamAppend(head, o, x)
      PROVE  Canonical(store') /\ Canonical(lost')
  <2> DEFINE b == buildRevisionStreamAppend(Stream, head, o, x)
  <2>1. /\ head.revision < MaxRevision /\ b.ok
        /\ store' = IF Applies(b, store) THEN Written(b.puts, store) ELSE store
        /\ lost' = lost
    BY <1>1 DEF RevisionStreamAppend
  <2>2. Canonical(store) /\ Canonical(lost)
    BY DEF StreamInv
  <2>3. b.expected = head
    BY DEF buildRevisionStreamAppend
  <2> HIDE DEF b
  <2>4. CASE Applies(b, store)
    <3>1. Value(store, HeadKey(Stream)) = HeadValue(head) /\ b.absent \cap DOMAIN store = {}
      BY <2>3, <2>4 DEF Applies
    <3>2. head = HeadOf(store)
      BY <2>2, <3>1, CanonicalHead, HeadValueInjective
    <3>3. PICK t : t = Written(b.puts, store)
      OBVIOUS
    <3>4. b = buildRevisionStreamAppend(Stream, HeadOf(store), o, x)
      BY <3>2 DEF b
    <3>5. Canonical(t)
      BY <2>1, <2>2, <3>1, <3>2, <3>3, <3>4, AppendCanonical
    <3>6. store' = t
      BY <2>1, <2>4, <3>3
    <3>7. QED
      BY <2>1, <2>2, <3>5, <3>6
  <2>5. CASE ~Applies(b, store)
    BY <2>1, <2>2, <2>5
  <2>6. QED
    BY <2>4, <2>5
<1>2. ASSUME NEW n \in 0 .. HeadOf(store).revision - 1, Restore(n)
      PROVE  Canonical(store') /\ Canonical(lost')
  <2>1. Canonical(store)
    BY DEF StreamInv
  <2>2. HeadOf(store).revision \in Nat
    BY <2>1, CanonicalHead
  <2>3. n \in 0 .. HeadOf(store).revision
    BY <2>2
  <2>4. lost' = store /\ store' = OlderCopy(store, n)
    BY <1>2 DEF Restore
  <2>5. PICK t : t = OlderCopy(store, n)
    OBVIOUS
  <2>6. Canonical(t)
    BY <2>1, <2>3, <2>5, OlderCanonical
  <2>7. QED
    BY <2>1, <2>4, <2>5, <2>6
<1>3. Canonical(store') /\ Canonical(lost')
  BY <1>1, <1>2 DEF StreamNext
<1>4. QED
  BY <1>3 DEF StreamInv, Canonical

(* The reference tree of a block, from those of its halves.                *)
LEMMA MerkleTreesStep ==
  ASSUME NEW s
  PROVE  \A h \in 0 .. Width - 1 :
           MerkleTrees(s)[h] =
             [a \in 1 .. HeadOf(s).revision |->
               IF h = 0 THEN calculateRevisionStreamMerkleLeaf(Stream, a, EventAt(s, a).content)
               ELSE IF a + 2 ^ (h - 1) > HeadOf(s).revision THEN <<>>
               ELSE calculateRevisionStreamMerkleNode(Stream, h, a, MerkleTrees(s)[h - 1][a],
                                                      MerkleTrees(s)[h - 1][a + 2 ^ (h - 1)])]
<1> DEFINE n == HeadOf(s).revision
           Row(h, below) ==
             [a \in 1 .. n |->
               IF h = 0 THEN calculateRevisionStreamMerkleLeaf(Stream, a, EventAt(s, a).content)
               ELSE IF a + 2 ^ (h - 1) > n THEN <<>>
               ELSE calculateRevisionStreamMerkleNode(Stream, h, a, below[a], below[a + 2 ^ (h - 1)])]
           m == Width - 1
           Grows(i) == \E g : g = [h \in 0 .. i |-> Row(h, g[h - 1])]
           Bad == {i \in 0 .. m : ~Grows(i)}
<1>0. m \in Nat /\ m \in 0 .. m
  BY WidthType
<1>r. ASSUME NEW f, NEW g PROVE Row(0, f) = Row(0, g)
  OBVIOUS
<1>1. Bad = {}
  <2>1. SUFFICES ASSUME Bad # {} PROVE FALSE
    OBVIOUS
  <2>2. PICK i \in Bad : \A j \in Bad : i <= j
    <3>1. Bad \subseteq Nat
      BY <1>0
    <3> HIDE DEF Bad
    <3>2. QED
      BY <2>1, <3>1, LeastNat
  <2> HIDE DEF Row, m
  <2>3. Grows(0)
    <3> DEFINE g == [h \in 0 .. 0 |-> Row(0, 0)]
    <3>1. \A h \in 0 .. 0 : Row(h, g[h - 1]) = Row(0, 0)
      BY <1>r
    <3>2. g = [h \in 0 .. 0 |-> Row(h, g[h - 1])]
      BY <3>1
    <3> HIDE DEF g
    <3>3. QED
      BY <3>2
  <2>a. ~Grows(i) /\ i \in 0 .. m
    OBVIOUS
  <2>4. i \in Nat /\ i # 0 /\ i <= m
    <3> HIDE DEF Grows
    <3>1. QED
      BY <2>a, <2>3, <1>0
  <2>5. PICK l \in Nat : i = l + 1
    <3>1. i - 1 \in Nat /\ i = (i - 1) + 1
      BY <2>4
    <3>2. QED
      BY <3>1
  <2>6. l \in 0 .. m /\ l < i
    BY <2>4, <2>5, <1>0
  <2>7. Grows(l)
    BY <2>2, <2>6
  <2>8. PICK g : g = [h \in 0 .. l |-> Row(h, g[h - 1])]
    BY <2>7
  <2> DEFINE f == [h \in 0 .. i |-> IF h = i THEN Row(i, g[l]) ELSE g[h]]
  <2>9. ASSUME NEW h \in 0 .. i PROVE f[h] = Row(h, f[h - 1])
    <3>1. CASE h = i
      <4>1. f[h] = Row(i, g[l]) /\ h - 1 = l /\ l \in 0 .. i /\ l # i
        BY <3>1, <2>4, <2>5
      <4>2. f[h - 1] = g[l]
        BY <4>1
      <4>3. QED
        BY <4>1, <4>2, <3>1
    <3>2. CASE h # i
      <4>1. h \in 0 .. l
        BY <3>2, <2>4, <2>5
      <4>2. f[h] = g[h] /\ g[h] = Row(h, g[h - 1])
        BY <3>2, <4>1, <2>8
      <4>3. CASE h = 0
        <5>1. Row(0, g[0 - 1]) = Row(0, f[0 - 1])
          BY <1>r
        <5> HIDE DEF f
        <5>2. QED
          BY <4>2, <4>3, <5>1
      <4>4. CASE h # 0
        <5>1. h - 1 \in 0 .. i /\ h - 1 # i
          BY <4>1, <4>4, <2>5
        <5>2. f[h - 1] = g[h - 1]
          BY <5>1
        <5>3. QED
          BY <4>2, <5>2
      <4>5. QED
        BY <4>3, <4>4
    <3>3. QED
      BY <3>1, <3>2
  <2>10. f = [h \in 0 .. i |-> Row(h, f[h - 1])]
    <3>1. f = [h \in 0 .. i |-> f[h]]
      OBVIOUS
    <3> HIDE DEF f
    <3>2. QED
      BY <3>1, <2>9
  <2>11. Grows(i)
    <3> HIDE DEF f
    <3>1. QED
      BY <2>10
  <2>12. QED
    BY <2>11
<1>2. PICK g : g = [h \in 0 .. m |-> Row(h, g[h - 1])]
  BY <1>0, <1>1
<1>3. PICK c : c = MerkleTrees(s)
  OBVIOUS
<1>4. c = [h \in 0 .. m |-> Row(h, c[h - 1])]
  BY <1>2, <1>3 DEF MerkleTrees
<1>5. ASSUME NEW h \in 0 .. m PROVE c[h] = Row(h, c[h - 1])
  <2> HIDE DEF m, Row
  <2>1. QED
    BY <1>4
<1>6. QED
  BY <1>3, <1>5

(* Every stored node is the root of the reference tree over its block.     *)
LEMMA TreesAreNodes ==
  ASSUME NEW s, NEW n \in Nat, n = HeadOf(s).revision, History(s, n), NEW b \in Blocks(n)
  PROVE  NodeRoot(s, b[1], b[2]) = TreeRoot(s, b)
<1> DEFINE T == MerkleTrees(s)
           Bad == {h \in 0 .. Width - 1 : \E a \in 1 .. n : <<h, a>> \in Blocks(n) /\ NodeRoot(s, h, a) # T[h][a]}
<1>1. Bad = {}
  <2>1. SUFFICES ASSUME Bad # {} PROVE FALSE
    OBVIOUS
  <2>2. PICK h \in Bad : \A j \in Bad : h <= j
    <3>1. Bad \subseteq Nat
      BY WidthType
    <3> HIDE DEF Bad
    <3>2. QED
      BY <2>1, <3>1, LeastNat
  <2>3. PICK a \in 1 .. n : <<h, a>> \in Blocks(n) /\ NodeRoot(s, h, a) # T[h][a]
    OBVIOUS
  <2>4. h \in 0 .. Width - 1 /\ h \in Nat
    BY WidthType
  <2>5. T[h] = [x \in 1 .. n |->
               IF h = 0 THEN calculateRevisionStreamMerkleLeaf(Stream, x, EventAt(s, x).content)
               ELSE IF x + 2 ^ (h - 1) > n THEN <<>>
               ELSE calculateRevisionStreamMerkleNode(Stream, h, x, T[h - 1][x], T[h - 1][x + 2 ^ (h - 1)])]
    BY <2>4, MerkleTreesStep
  <2>6. NodeFacts(s, h, a)
    <3>1. PICK c \in Blocks(n) : c = <<h, a>>
      BY <2>3
    <3>2. NodeFacts(s, c[1], c[2])
      BY DEF History
    <3>3. QED
      BY <3>1, <3>2
  <2> HIDE DEF T
  <2>7. CASE h = 0
    BY <2>3, <2>5, <2>6, <2>7 DEF NodeFacts
  <2>8. CASE h # 0
    <3>1. PICK g \in Nat : h = g + 1 /\ g = h - 1
      <4>1. h - 1 \in Nat /\ h = (h - 1) + 1
        BY <2>4, <2>8
      <4>2. QED
        BY <4>1
    <3>2. <<g, a>> \in Blocks(n) /\ <<g, a + 2 ^ g>> \in Blocks(n)
      BY <2>3, <3>1, ChildBlocks
    <3>3. PICK d \in Nat : d = 2 ^ g /\ d > 0
      BY Doubling
    <3>4. a + d \in 1 .. n /\ g \in 0 .. Width - 1
      BY <3>2, <3>3 DEF Blocks
    <3>5. g \notin Bad
      BY <2>2, <2>4, <3>1
    <3>6. NodeRoot(s, g, a) = T[g][a] /\ NodeRoot(s, g, a + d) = T[g][a + d]
      BY <3>2, <3>3, <3>4, <3>5
    <3>7. ~(a + d > n)
      BY <3>4
    <3>8. T[h][a] = calculateRevisionStreamMerkleNode(Stream, h, a, T[g][a], T[g][a + d])
      BY <2>5, <2>8, <3>1, <3>3, <3>7
    <3>9. NodeRoot(s, h, a) = calculateRevisionStreamMerkleNode(Stream, h, a, NodeRoot(s, g, a), NodeRoot(s, g, a + d))
      BY <2>6, <2>8, <3>1, <3>3 DEF NodeFacts
    <3>10. QED
      BY <2>3, <3>6, <3>8, <3>9
  <2>9. QED
    BY <2>7, <2>8
<1>2. b = <<b[1], b[2]>> /\ b[1] \in 0 .. Width - 1 /\ b[2] \in 1 .. n
  BY BlockBounds
<1>3. QED
  BY <1>1, <1>2 DEF TreeRoot

(* A canonical keyspace satisfies the property.                            *)
LEMMA CanonicalStore ==
  ASSUME StreamInv
  PROVE  StoreIsCanonical
<1> DEFINE n == HeadOf(store).revision
<1>1. /\ n \in Nat /\ History(store, n) /\ DOMAIN store = Keyspace(store, n)
      /\ HeadOf(store) = HeadFor0(store, n)
  BY CanonicalHead DEF StreamInv
<1> HIDE DEF n
<1>2. ASSUME NEW r \in 1 .. n
      PROVE  EventAt(store, r).previousRoot = IF r = 1 THEN ZeroRoot ELSE EventAt(store, r - 1).root
  <2>1. EventFacts(store, r)
    BY <1>1 DEF History
  <2>2. r - 1 = 0 <=> r = 1
    BY <1>1
  <2>3. QED
    BY <2>1, <2>2 DEF EventFacts, PreviousRoot
<1>3. \A r \in 2 .. n : EventAt(store, r - 1).occurredAt <= EventAt(store, r).occurredAt
  BY <1>1 DEF History
<1>4. \A b \in Blocks(n) : NodeRoot(store, b[1], b[2]) = TreeRoot(store, b)
  BY <1>1, TreesAreNodes DEF n
<1>5. n > 0 => HeadOf(store) = HeadAt(store, n)
  BY <1>1 DEF HeadFor0
<1>6. QED
  BY <1>1, <1>2, <1>3, <1>4, <1>5 DEF StoreIsCanonical, n

(* Whatever heads the racing writers extend and wherever a restore falls   *)
(* back to, the keyspace is that of one history: the events of revisions 1 *)
(* to n chained by their roots and ordered in time, their time keys, the   *)
(* Merkle tree of every complete block and the head of the last event,     *)
(* nothing else (buildRevisionStreamAppend and the merge loop of           *)
(* appendRevisionStreamMerkleLeaf, revision_stream.go:247-402, 642-685),   *)
(* for every integer width and every number of revisions.                  *)
THEOREM CanonicalKeyspace == StreamSpec => []StoreIsCanonical
<1>1. StreamInit => StreamInv
  BY StreamInvInit
<1>2. StreamInv /\ [StreamNext]_streamVars => StreamInv'
  <2>1. CASE UNCHANGED streamVars
    BY <2>1 DEF streamVars, StreamInv, Canonical
  <2>2. QED
    BY <2>1, StreamInvStep
<1>3. StreamInv => StoreIsCanonical
  BY CanonicalStore
<1>4. QED
  BY <1>1, <1>2, <1>3, PTL DEF StreamSpec

(* Every head of a history passes validateRevisionStreamHead.              *)
LEMMA HeadValid ==
  ASSUME NEW s, NEW n \in 0 .. MaxUint, History(s, n), NEW r \in 1 .. n
  PROVE  validateRevisionStreamHead(Stream, HeadAt(s, r))
<1>1. r \in Nat /\ r # 0 /\ r \in 0 .. MaxUint
  BY WidthType
<1>2. EventFacts(s, r)
  BY DEF History
<1>3. CanonicalLayout(r, PeaksOf(s, r))
  BY <1>1, PeaksLayout
<1>4. PICK h : h = HeadAt(s, r)
  OBVIOUS
<1>5. /\ h.revision = r /\ h.lastOccurredAt = EventAt(s, r).occurredAt /\ h.root = EventAt(s, r).root
      /\ h.proof.leafCount = r /\ h.proof.root = EventAt(s, r).proofRoot
      /\ h.proof.lastContent = EventAt(s, r).content /\ h.proof.peaks = PeaksOf(s, r)
  BY <1>4, HeadFields
<1>6. validateRevisionStreamHead(Stream, h)
  BY <1>1, <1>2, <1>3, <1>5 DEF validateRevisionStreamHead, validateRevisionStreamPeaks, EventFacts
<1>7. QED
  BY <1>4, <1>6

(* An append can be built over it.                                         *)
LEMMA HeadExtends ==
  ASSUME NEW s, Canonical(s), NEW n \in 0 .. HeadOf(s).revision, NEW o, NEW x, NEW head, head = HeadFor0(s, n)
  PROVE  LET b == buildRevisionStreamAppend(Stream, head, o, x)
         IN  b.ok <=> head.revision # MaxUint /\ (head = NoHead \/ o >= head.lastOccurredAt)
<1> DEFINE N == HeadOf(s).revision
           b == buildRevisionStreamAppend(Stream, head, o, x)
<1>1. N \in Nat /\ N \in 0 .. MaxUint /\ History(s, N) /\ MaxUint \in Nat /\ MaxUint > 0
  BY CanonicalHead, WidthType
<1> HIDE DEF N
<1>2. n \in 0 .. N /\ n \in 0 .. MaxUint /\ n \in Nat
  BY <1>1 DEF N
<1>3. BuiltFacts(b, s, n, o, x, head)
  BY <1>2, Built DEF HeadFor0
<1>4. b.ok <=> /\ n # 0 => /\ validateRevisionStreamHead(Stream, head)
                           /\ n # MaxUint
                           /\ o >= EventAt(s, n).occurredAt
               /\ NewTree(s, n, o, x).ok
  BY <1>3 DEF BuiltFacts
<1>5. n # MaxUint => NewTree(s, n, o, x).ok
  BY <1>2, TreeGrown DEF LeafAppended
<1> HIDE DEF b
<1>6. CASE n = 0
  <2>1. head = NoHead /\ head.revision = 0
    BY <1>6 DEF HeadFor0, NoHead
  <2>2. n # MaxUint
    BY <1>6, <1>1
  <2>3. QED
    BY <2>1, <2>2, <1>4, <1>5, <1>6, <1>1 DEF b
<1>7. CASE n # 0
  <2>1. n \in 1 .. N
    BY <1>2, <1>7, <1>1
  <2>2. head = HeadAt(s, n)
    BY <1>7 DEF HeadFor0
  <2>3. validateRevisionStreamHead(Stream, head)
    BY <2>1, <2>2, <1>1, HeadValid
  <2>4. head.revision = n /\ head.lastOccurredAt = EventAt(s, n).occurredAt /\ head # NoHead
    BY <2>2, <1>7, HeadFields
  <2>5. QED
    BY <2>3, <2>4, <1>4, <1>5, <1>7 DEF b
<1>8. QED
  BY <1>6, <1>7

(* The keys of the next revision are not in the keyspace.                  *)
LEMMA FreshKeys ==
  ASSUME NEW s, Canonical(s), NEW n, n = HeadOf(s).revision, n # MaxUint, NEW o, NEW x
  PROVE  NewKeys(s, n, o, x) \cap DOMAIN s = {}
<1> DEFINE tree == NewTree(s, n, o, x)
<1>1. n \in Nat /\ n \in 0 .. MaxUint /\ DOMAIN s = Keyspace(s, n)
  BY CanonicalHead
<1>2. LeafAppended(s, n, calculateRevisionStreamMerkleLeaf(Stream, n + 1, NewContent(s, n, o, x)), tree)
  BY <1>1, TreeGrown
<1>3. NewKeys(s, n, o, x) = {EventKey(Stream, n + 1), TimeKey(Stream, o, n + 1)}
                              \cup {NodeKey(tree.created[j]) : j \in DOMAIN tree.created}
  BY DEF NewKeys, KeysOf
<1> HIDE DEF tree
<1>4. \A j \in DOMAIN tree.created : /\ NodeKey(tree.created[j]) = revisionStreamMerkleKey(Stream, j, n + 2 - 2 ^ j)
                                     /\ j \in Nat
  BY <1>2 DEF LeafAppended, NodeKey
<1>5. n + 1 \notin 1 .. n
  BY <1>1
<1>6. ASSUME NEW j \in Nat PROVE <<j, n + 2 - 2 ^ j>> \notin Blocks(n)
  <2>1. SUFFICES ASSUME <<j, n + 2 - 2 ^ j>> \in Blocks(n) PROVE FALSE
    OBVIOUS
  <2>2. PICK d \in Nat : d = 2 ^ j /\ d > 0
    BY Doubling
  <2>3. (n + 2 - d) + d - 1 <= n
    BY <2>1, <2>2 DEF Blocks
  <2>4. QED
    BY <2>2, <2>3, <1>1
<1>7. EventKey(Stream, n + 1) \notin DOMAIN s /\ TimeKey(Stream, o, n + 1) \notin DOMAIN s
  BY <1>1, <1>5, KeyspaceKeys
<1>8. ASSUME NEW k \in DOMAIN tree.created PROVE NodeKey(tree.created[k]) \notin DOMAIN s
  <2>1. PICK j \in Nat : NodeKey(tree.created[k]) = revisionStreamMerkleKey(Stream, j, n + 2 - 2 ^ j)
    BY <1>4
  <2>2. <<j, n + 2 - 2 ^ j>> \notin Blocks(n)
    BY <1>6
  <2>3. revisionStreamMerkleKey(Stream, j, n + 2 - 2 ^ j) \notin Keyspace(s, n)
    BY <2>2, <1>1, KeyspaceKeys
  <2>4. QED
    BY <2>1, <2>3, <1>1
<1>9. QED
  BY <1>3, <1>7, <1>8

(* A head the reader was shown is one of a branch.                         *)
LEMMA IssuedHead ==
  ASSUME StreamInv, NEW head \in IssuedHeads
  PROVE  \E s \in {store, lost} : \E n \in 0 .. HeadOf(s).revision : Canonical(s) /\ head = HeadFor0(s, n)
<1>1. Canonical(store) /\ Canonical(lost)
  BY DEF StreamInv
<1>2. HeadOf(store).revision \in Nat /\ HeadOf(lost).revision \in Nat
  BY <1>1, CanonicalHead
<1>3. CASE head = NoHead
  <2>1. 0 \in 0 .. HeadOf(store).revision /\ head = HeadFor0(store, 0)
    BY <1>2, <1>3 DEF HeadFor0
  <2>2. QED
    BY <1>1, <2>1
<1>4. ASSUME NEW s \in {store, lost}, NEW n \in 1 .. HeadOf(s).revision, head = HeadAt(s, n)
      PROVE  \E t \in {store, lost} : \E m \in 0 .. HeadOf(t).revision : Canonical(t) /\ head = HeadFor0(t, m)
  <2>1. n \in 0 .. HeadOf(s).revision /\ n # 0
    BY <1>2
  <2>2. head = HeadFor0(s, n)
    BY <2>1, <1>4 DEF HeadFor0
  <2>3. QED
    BY <1>1, <2>1, <2>2
<1>5. head = NoHead \/ \E s \in {store, lost} : \E n \in 1 .. HeadOf(s).revision : head = HeadAt(s, n)
  BY DEF IssuedHeads
<1>6. QED
  BY <1>3, <1>4, <1>5

(* The heads of canonical branches satisfy the property.                   *)
LEMMA ExtendableHeads ==
  ASSUME StreamInv
  PROVE  HeadsCanBeExtended
<1>1. SUFFICES ASSUME NEW head \in IssuedHeads, NEW o \in Times, NEW x \in Payloads, NEW b,
                      b = buildRevisionStreamAppend(Stream, head, o, x)
               PROVE  /\ b.ok <=> /\ head.revision # MaxUint
                                  /\ head = NoHead \/ o >= head.lastOccurredAt
                      /\ head = HeadOf(store) /\ b.ok => Applies(b, store)
  BY DEF HeadsCanBeExtended
<1>2. b.ok <=> head.revision # MaxUint /\ (head = NoHead \/ o >= head.lastOccurredAt)
  <2>0. PICK s \in {store, lost} : \E n \in 0 .. HeadOf(s).revision : Canonical(s) /\ head = HeadFor0(s, n)
    BY IssuedHead
  <2>1. PICK n \in 0 .. HeadOf(s).revision : Canonical(s) /\ head = HeadFor0(s, n)
    BY <2>0
  <2>2. QED
    BY <2>1, <1>1, HeadExtends
<1>3. ASSUME head = HeadOf(store), b.ok PROVE Applies(b, store)
  <2> DEFINE n == HeadOf(store).revision
  <2>1. /\ n \in Nat /\ n \in 0 .. MaxUint /\ HeadOf(store) = HeadFor0(store, n)
        /\ Value(store, HeadKey(Stream)) = HeadValue(HeadOf(store)) /\ Canonical(store)
    BY CanonicalHead DEF StreamInv
  <2> HIDE DEF n
  <2>2. BuiltFacts(b, store, n, o, x, head)
    BY <2>1, <1>1, <1>3, Built DEF HeadFor0
  <2>3. n # MaxUint
    BY <1>2, <1>3 DEF n
  <2>4. b.expected = head /\ b.absent = NewKeys(store, n, o, x)
    BY <2>2 DEF BuiltFacts
  <2>5. NewKeys(store, n, o, x) \cap DOMAIN store = {}
    BY <2>1, <2>3, FreshKeys DEF n
  <2>6. QED
    BY <2>1, <2>4, <2>5, <1>3 DEF Applies
<1>4. QED
  BY <1>2, <1>3

(* Both branches are always canonical.                                     *)
LEMMA StreamInvariant == StreamSpec => []StreamInv
<1>1. StreamInit => StreamInv
  BY StreamInvInit
<1>2. StreamInv /\ [StreamNext]_streamVars => StreamInv'
  <2>1. CASE UNCHANGED streamVars
    BY <2>1 DEF streamVars, StreamInv, Canonical
  <2>2. QED
    BY <2>1, StreamInvStep
<1>3. QED
  BY <1>1, <1>2, PTL DEF StreamSpec

(* Every head the SDK issued, of either branch, can be extended exactly up *)
(* to the largest revision and not back in time, and an append that finds  *)
(* the head it expects meets none of its other keys                        *)
(* (buildRevisionStreamAppend, revision_stream.go:247-402).                *)
THEOREM HeadsExtendable == StreamSpec => []HeadsCanBeExtended
BY StreamInvariant, ExtendableHeads, PTL

-----------------------------------------------------------------------------
(* Inclusion proofs: one peak holds a revision, one path leads to it, and  *)
(* only the genuine siblings climb it.                                     *)

(* Peak i of n revisions holds revision r.                                 *)
Holds(n, r, i) ==
  /\ i \in DOMAIN PeakSeq(n)
  /\ r - PeakStart(n, PeakSeq(n)[i]) \in 0 .. 2 ^ PeakSeq(n)[i] - 1

(* Division is monotone.                                                   *)
LEMMA QuotientGrows ==
  ASSUME NEW m \in Nat, NEW n \in Nat, m <= n, NEW d \in Nat, d > 0
  PROVE  m \div d <= n \div d
<1>1. /\ m = d * (m \div d) + (m % d) /\ m % d \in Nat /\ m % d < d /\ m \div d \in Nat
      /\ n = d * (n \div d) + (n % d) /\ n % d \in Nat /\ n % d < d /\ n \div d \in Nat
  BY Division
<1>2. PICK p \in Nat, q \in Nat : p = m \div d /\ q = n \div d
  BY <1>1
<1>3. SUFFICES ASSUME p > q PROVE FALSE
  BY <1>2
<1>4. p >= q + 1
  BY <1>3
<1>5. d * p >= d * (q + 1)
  BY <1>4
<1>6. d * (q + 1) = d * q + d
  OBVIOUS
<1>7. QED
  BY <1>1, <1>2, <1>5, <1>6

(* Two numbers agree from binary digit h on.                               *)
Shares(m, n, h) == m \div 2 ^ h = n \div 2 ^ h

(* Where two numbers share a quotient they share all higher ones.          *)
LEMMA SharedAbove ==
  ASSUME NEW m \in Nat, NEW n \in Nat, NEW e \in Nat, NEW h \in Nat, e <= h, Shares(m, n, e)
  PROVE  Shares(m, n, h)
<1> USE DEF Shares
<1> DEFINE Bad == {i \in e .. h : m \div 2 ^ i # n \div 2 ^ i}
<1>1. Bad = {}
  <2>1. SUFFICES ASSUME Bad # {} PROVE FALSE
    OBVIOUS
  <2>2. PICK i \in Bad : \A j \in Bad : i <= j
    <3>1. Bad \subseteq Nat
      OBVIOUS
    <3> HIDE DEF Bad
    <3>2. QED
      BY <2>1, <3>1, LeastNat
  <2>3. i \in Nat /\ i >= e /\ i <= h /\ i # e
    OBVIOUS
  <2>4. PICK j \in Nat : i = j + 1
    <3>1. i - 1 \in Nat /\ i = (i - 1) + 1
      BY <2>3
    <3>2. QED
      BY <3>1
  <2>5. j \in e .. h /\ j < i
    BY <2>3, <2>4
  <2>6. m \div 2 ^ j = n \div 2 ^ j
    BY <2>2, <2>5
  <2>7. PICK d \in Nat : d = 2 ^ j /\ d > 0 /\ 2 ^ (j + 1) = 2 * d
    BY Doubling
  <2>8. m \div (2 * d) = (m \div d) \div 2 /\ n \div (2 * d) = (n \div d) \div 2
    BY <2>7, Halve
  <2>9. QED
    BY <2>4, <2>6, <2>7, <2>8
<1>2. h \in e .. h
  OBVIOUS
<1>3. QED
  BY <1>1, <1>2

(* A revision lies in peak h exactly when the number before it and the     *)
(* number of revisions part at digit h.                                    *)
LEMMA PeakParts ==
  ASSUME NEW n \in Nat, NEW r \in 1 .. n, NEW h \in Nat
  PROVE  /\ (n \div 2 ^ h) % 2 = 1 /\ r - PeakStart(n, h) \in 0 .. 2 ^ h - 1
         <=> /\ (r - 1) \div 2 ^ (h + 1) = n \div 2 ^ (h + 1)
             /\ (r - 1) \div 2 ^ h # n \div 2 ^ h
<1>1. PICK m \in Nat : m = r - 1 /\ m <= n /\ r = m + 1
  OBVIOUS
<1>2. PICK d \in Nat : d = 2 ^ h /\ d > 0 /\ 2 ^ (h + 1) = 2 * d
  BY Doubling
<1>3. /\ m \div d = 2 * (m \div (2 * d)) + ((m \div d) % 2) /\ (m \div d) % 2 \in {0, 1}
      /\ n \div d = 2 * (n \div (2 * d)) + ((n \div d) % 2) /\ (n \div d) % 2 \in {0, 1}
  BY <1>2, Halve
<1>4. /\ m = d * (m \div d) + (m % d) /\ m % d \in Nat /\ m % d < d /\ m \div d \in Nat
      /\ m \div (2 * d) \in Nat /\ n \div (2 * d) \in Nat /\ n \div d \in Nat
  BY <1>2, Division
<1>5. PICK mq \in Nat, mp \in Nat, nq \in Nat, np \in Nat, x \in Nat :
         mq = m \div (2 * d) /\ mp = m \div d /\ nq = n \div (2 * d) /\ np = n \div d /\ x = m % d
  BY <1>4
<1>6. mp <= np
  BY <1>1, <1>2, <1>5, QuotientGrows
<1>7. PeakStart(n, h) = 1 + nq * (2 * d)
  BY <1>2, <1>5 DEF PeakStart
<1>8. r - PeakStart(n, h) = m - nq * (2 * d)
  BY <1>1, <1>2, <1>5, <1>7
<1>9. ASSUME np % 2 = 1, m - nq * (2 * d) \in 0 .. d - 1 PROVE mq = nq /\ mp # np
  <2>1. PICK y \in Nat : y = m - nq * (2 * d) /\ y < d
    BY <1>9, <1>2, <1>5
  <2>0. d * (2 * nq) = nq * (2 * d)
    BY <1>2, <1>5
  <2>2. m = d * (2 * nq) + y /\ 2 * nq \in Nat
    BY <2>0, <2>1, <1>1, <1>2, <1>5
  <2>3. m \div d = 2 * nq
    BY <2>1, <2>2, <1>2, Quotient
  <2>4. np = 2 * nq + 1
    BY <1>3, <1>5, <1>9
  <2>5. mq = nq
    BY <2>3, <1>3, <1>5
  <2>6. QED
    BY <2>3, <2>4, <2>5, <1>5
<1>10. ASSUME mq = nq, mp # np PROVE np % 2 = 1 /\ m - nq * (2 * d) \in 0 .. d - 1
  <2>1. np % 2 = 1 /\ mp = 2 * nq
    BY <1>3, <1>5, <1>6, <1>10
  <2>2. m = d * (2 * nq) + x /\ x < d
    BY <2>1, <1>4, <1>5
  <2>3. d * (2 * nq) = nq * (2 * d)
    BY <1>2, <1>5
  <2>4. m - nq * (2 * d) = x
    BY <2>2, <2>3, <1>2, <1>5
  <2>5. QED
    BY <2>1, <2>2, <2>4, <1>2, <1>5
<1>11. QED
  BY <1>1, <1>2, <1>5, <1>8, <1>9, <1>10

(* A revision is in exactly one peak.                                      *)
LEMMA OnePeak ==
  ASSUME NEW n \in 0 .. MaxUint, NEW r \in 1 .. n
  PROVE  /\ \E i : Holds(n, r, i)
         /\ \A i, j : Holds(n, r, i) /\ Holds(n, r, j) => i = j
<1> DEFINE m == r - 1
           Same == {h \in 0 .. Width : m \div 2 ^ h = n \div 2 ^ h}
           p == PeakSeq(n)
<1>1. n \in Nat /\ n <= MaxUint /\ m \in Nat /\ m < n /\ m <= n
  BY WidthType
<1>2. /\ Descending(p, PeakHeights(n)) /\ p \in Seq(Nat) /\ DOMAIN p = 1 .. Len(p)
      /\ \A i \in 1 .. Len(p) : p[i] \in PeakHeights(n)
  BY PeaksOfType
<1>3. ASSUME NEW h \in PeakHeights(n) PROVE h \in Nat /\ h \in 0 .. Width - 1 /\ (n \div 2 ^ h) % 2 = 1
  BY WidthType DEF PeakHeights
<1>s. Width \in Nat /\ 0 \in 0 .. Width /\ Width \in 0 .. Width
  BY WidthType
<1>4. Width \in Same
  <2>1. PICK d \in Nat : d = 2 ^ Width /\ d > 0 /\ MaxUint = d - 1
    BY WidthType, Doubling
  <2>2. /\ n = d * 0 + n /\ m = d * 0 + m /\ n < d /\ m < d
        /\ n \in Nat /\ m \in Nat /\ 0 \in Nat /\ d > 0
    BY <2>1, <1>1
  <2> HIDE DEF m
  <2>3. n \div d = 0
    BY <2>1, <2>2, Quotient
  <2>5. m \div d = 0
    BY <2>1, <2>2, Quotient
  <2>4. QED
    BY <2>1, <2>3, <2>5, <1>s
<1>5. PICK e \in Same : \A j \in Same : e <= j
  <2>1. Same \subseteq Nat
    BY <1>s
  <2> HIDE DEF Same
  <2>2. QED
    BY <2>1, <1>4, LeastNat
<1>6. e \in Nat /\ e <= Width /\ m \div 2 ^ e = n \div 2 ^ e
  BY <1>s
<1>7. e # 0
  <2>1. m \div 1 = m /\ n \div 1 = n
    BY <1>1
  <2>2. m \div 2 ^ 0 # n \div 2 ^ 0
    BY <2>1, <1>1, Pow0
  <2>3. QED
    BY <2>2, <1>6
<1>8. PICK h \in Nat : e = h + 1 /\ h \in 0 .. Width - 1 /\ h \in 0 .. Width
  <2>1. e - 1 \in Nat /\ e = (e - 1) + 1 /\ e - 1 \in 0 .. Width - 1 /\ e - 1 \in 0 .. Width
    BY <1>6, <1>7, <1>s
  <2>2. QED
    BY <2>1
<1>9. m \div 2 ^ h # n \div 2 ^ h
  <2>1. h \notin Same
    BY <1>5, <1>6, <1>8
  <2>2. QED
    BY <2>1, <1>8
<1>10. (n \div 2 ^ h) % 2 = 1 /\ r - PeakStart(n, h) \in 0 .. 2 ^ h - 1
  BY <1>1, <1>6, <1>8, <1>9, PeakParts
<1>11. h \in PeakHeights(n)
  BY <1>8, <1>10 DEF PeakHeights
<1>12. PICK i \in 1 .. Len(p) : p[i] = h
  BY <1>11, <1>2 DEF Descending
<1>13. Holds(n, r, i)
  BY <1>10, <1>12, <1>2 DEF Holds
<1>14. ASSUME NEW j, Holds(n, r, j) PROVE j \in 1 .. Len(p) /\ p[j] = h
  <2>1. j \in 1 .. Len(p)
    BY <1>14, <1>2 DEF Holds
  <2>2. PICK g \in PeakHeights(n) : g = p[j]
    BY <2>1, <1>2
  <2>3. g \in Nat /\ (n \div 2 ^ g) % 2 = 1 /\ g \in 0 .. Width - 1
    BY <1>3
  <2>4. r - PeakStart(n, g) \in 0 .. 2 ^ g - 1
    BY <1>14, <2>2 DEF Holds
  <2>5. m \div 2 ^ (g + 1) = n \div 2 ^ (g + 1) /\ m \div 2 ^ g # n \div 2 ^ g
    BY <1>1, <2>3, <2>4, PeakParts
  <2>6. g + 1 \in Same
    BY <2>3, <2>5, <1>s
  <2>7. g + 1 >= e
    BY <2>6, <1>5, <1>6, <2>3
  <2>8. g < e
    <3>1. SUFFICES ASSUME e <= g PROVE FALSE
      BY <2>3, <1>6
    <3>0. m \in Nat /\ n \in Nat /\ e \in Nat /\ g \in Nat /\ Shares(m, n, e)
      BY <1>1, <1>6, <2>3 DEF Shares
    <3> HIDE DEF m
    <3>2. Shares(m, n, g)
      BY <3>0, <3>1, SharedAbove
    <3>3. QED
      BY <3>2, <2>5 DEF Shares
  <2>9. g = h
    BY <2>7, <2>8, <2>3, <1>8
  <2>10. QED
    BY <2>1, <2>2, <2>9
<1>15. ASSUME NEW j, NEW l, Holds(n, r, j), Holds(n, r, l) PROVE j = l
  <2>1. j \in 1 .. Len(p) /\ l \in 1 .. Len(p) /\ p[j] = p[l] /\ p[j] \in Nat
    BY <1>14, <1>15, <1>8
  <2>2. ~(j < l) /\ ~(l < j)
    BY <2>1, <1>2 DEF Descending
  <2>3. Len(p) \in Nat
    BY <1>2
  <2>4. QED
    BY <2>1, <2>2, <2>3
<1>16. QED
  BY <1>13, <1>15

(* The block of height h on the way from leaf l up to the peak that starts *)
(* at a, and its sibling.                                                  *)
PathStart(a, l, h) == a + (l \div 2 ^ h) * 2 ^ h
OtherStart(a, l, h) == IF IsRight(l, h) THEN PathStart(a, l, h) - 2 ^ h ELSE PathStart(a, l, h) + 2 ^ h

(* The start of the parent, as the code computes it.                       *)
ParentStart(a, l, h) == a + (l \div 2 ^ h) * 2 ^ h - (IF IsRight(l, h) THEN 2 ^ h ELSE 0)

(* Where the path's block, its sibling and their parent start.             *)
PathSides(a, l, h) ==
  LET b == PathStart(a, l, h + 1)
  IN  IF IsRight(l, h) THEN b = OtherStart(a, l, h) /\ b + 2 ^ h = PathStart(a, l, h)
      ELSE b = PathStart(a, l, h) /\ b + 2 ^ h = OtherStart(a, l, h)

(* Block and sibling are the two halves of the next block on the path.     *)
LEMMA PathUp ==
  ASSUME NEW a \in Nat, NEW l \in Nat, NEW h \in Nat
  PROVE  /\ PathStart(a, l, h) \in Nat /\ PathStart(a, l, h + 1) \in Nat /\ 2 ^ h \in Nat
         /\ ParentStart(a, l, h) = PathStart(a, l, h + 1)
         /\ PathSides(a, l, h)
<1>1. PICK d \in Nat : d = 2 ^ h /\ d > 0 /\ 2 ^ (h + 1) = 2 * d
  BY Doubling
<1>2. /\ l \div d = 2 * (l \div (2 * d)) + ((l \div d) % 2) /\ (l \div d) % 2 \in {0, 1}
  BY <1>1, Halve
<1>3. l \div d \in Nat /\ l \div (2 * d) \in Nat
  BY <1>1, Division
<1>4. PICK p \in Nat, q \in Nat : p = l \div d /\ q = l \div (2 * d)
  BY <1>3
<1>5. PathStart(a, l, h) = a + p * d /\ PathStart(a, l, h + 1) = a + q * (2 * d)
  BY <1>1, <1>4 DEF PathStart
<1>p. ParentStart(a, l, h) = a + p * d - (IF IsRight(l, h) THEN d ELSE 0)
  BY <1>1, <1>4 DEF ParentStart
<1>6. p * d \in Nat /\ q * (2 * d) \in Nat
  BY <1>1, <1>4
<1>7. CASE p % 2 = 1
  <2>1. IsRight(l, h)
    BY <1>1, <1>4, <1>7 DEF IsRight
  <2>2. p = 2 * q + 1
    BY <1>2, <1>4, <1>7
  <2>3. p * d = q * (2 * d) + d
    BY <2>2, <1>1, <1>4
  <2>4. QED
    BY <2>1, <2>3, <1>1, <1>5, <1>6, <1>p DEF OtherStart, PathSides
<1>8. CASE p % 2 # 1
  <2>1. ~IsRight(l, h)
    BY <1>1, <1>4, <1>8 DEF IsRight
  <2>2. p = 2 * q
    BY <1>2, <1>4, <1>8
  <2>3. p * d = q * (2 * d)
    BY <2>2, <1>1, <1>4
  <2>4. QED
    BY <2>1, <2>3, <1>1, <1>5, <1>6, <1>p DEF OtherStart, PathSides
<1>9. QED
  BY <1>7, <1>8

(* The blocks on the path and their siblings are complete.                 *)
LEMMA PathBlocks ==
  ASSUME NEW n \in Nat, NEW H \in Nat, NEW a, <<H, a>> \in Blocks(n), NEW l \in 0 .. 2 ^ H - 1
  PROVE  /\ a \in Nat /\ l \in Nat /\ PathStart(a, l, H) = a /\ PathStart(a, l, 0) = a + l
         /\ \A h \in 0 .. H : <<h, PathStart(a, l, h)>> \in Blocks(n)
         /\ \A h \in 0 .. H - 1 : <<h, OtherStart(a, l, h)>> \in Blocks(n)
<1>1. a \in Nat /\ H \in Nat
  BY BlockBounds DEF Blocks
<1>2. PICK e \in Nat : e = 2 ^ H /\ e > 0
  BY Doubling
<1>3. l \in Nat /\ l < e
  BY <1>2
<1>4. PathStart(a, l, H) = a
  <2>1. l = e * 0 + l /\ 0 \in Nat
    BY <1>2, <1>3
  <2>2. l \div e = 0
    BY <2>1, <1>2, <1>3, Quotient
  <2>3. QED
    BY <2>2, <1>1, <1>2 DEF PathStart
<1>5. PathStart(a, l, 0) = a + l
  <2>1. l \div 1 = l
    BY <1>3
  <2>2. QED
    BY <2>1, <1>1, <1>3, Pow0 DEF PathStart
<1>6. \A h \in 0 .. H : <<h, PathStart(a, l, h)>> \in Blocks(n)
  <2> DEFINE Bad == {j \in 0 .. H : <<H - j, PathStart(a, l, H - j)>> \notin Blocks(n)}
  <2>1. Bad = {}
    <3>1. SUFFICES ASSUME Bad # {} PROVE FALSE
      OBVIOUS
    <3>2. PICK i \in Bad : \A j \in Bad : i <= j
      <4>1. Bad \subseteq Nat
        OBVIOUS
      <4> HIDE DEF Bad
      <4>2. QED
        BY <3>1, <4>1, LeastNat
    <3>3. i \in 0 .. H /\ i # 0
      <4>1. i = 0 => H - i = H
        OBVIOUS
      <4>2. QED
        BY <4>1, <1>4
    <3>4. PICK h \in Nat : h = H - i
      BY <3>3
    <3>5. i - 1 \in 0 .. H /\ i - 1 < i /\ H - (i - 1) = h + 1
      BY <3>3, <3>4
    <3>6. i - 1 \notin Bad
      BY <3>2, <3>3, <3>5
    <3>7. <<h + 1, PathStart(a, l, h + 1)>> \in Blocks(n)
      BY <3>5, <3>6
    <3>8. PICK b : b = PathStart(a, l, h + 1) /\ <<h + 1, b>> \in Blocks(n)
      BY <3>7
    <3>9. <<h, b>> \in Blocks(n) /\ <<h, b + 2 ^ h>> \in Blocks(n)
      BY <3>8, ChildBlocks
    <3>10. PathStart(a, l, h) \in {b, b + 2 ^ h}
      BY <3>8, <1>1, <1>3, PathUp DEF PathSides
    <3>11. <<h, PathStart(a, l, h)>> \in Blocks(n)
      BY <3>9, <3>10
    <3>12. QED
      BY <3>4, <3>11
  <2>2. ASSUME NEW h \in 0 .. H PROVE <<h, PathStart(a, l, h)>> \in Blocks(n)
    <3>1. H - h \in 0 .. H /\ H - (H - h) = h
      BY <1>1
    <3>2. H - h \notin Bad
      BY <2>1
    <3>3. QED
      BY <3>1, <3>2
  <2>3. QED
    BY <2>2
<1>7. ASSUME NEW h \in 0 .. H - 1 PROVE <<h, OtherStart(a, l, h)>> \in Blocks(n)
  <2>1. h \in Nat /\ h + 1 \in 0 .. H
    BY <1>1
  <2>2. PICK b : b = PathStart(a, l, h + 1) /\ <<h + 1, b>> \in Blocks(n)
    BY <2>1, <1>6
  <2>3. <<h, b>> \in Blocks(n) /\ <<h, b + 2 ^ h>> \in Blocks(n)
    BY <2>1, <2>2, ChildBlocks
  <2>4. OtherStart(a, l, h) \in {b, b + 2 ^ h}
    BY <2>1, <2>2, <1>1, <1>3, PathUp DEF PathSides
  <2>5. QED
    BY <2>3, <2>4
<1>8. QED
  BY <1>1, <1>3, <1>4, <1>5, <1>6, <1>7

(* A node from one child, the other child and the side of the first.       *)
NodeAbove(h, a, right, own, other) ==
  IF right THEN calculateRevisionStreamMerkleNode(Stream, h, a, other, own)
  ELSE calculateRevisionStreamMerkleNode(Stream, h, a, own, other)

(* A node's hash determines both children.                                 *)
LEMMA NodeInjective ==
  ASSUME NEW h, NEW a, NEW b, NEW right, NEW own, NEW other, NEW x, NEW y,
         NodeAbove(h, a, right, own, other) = NodeAbove(h, b, right, x, y)
  PROVE  own = x /\ other = y
BY DEF NodeAbove, calculateRevisionStreamMerkleNode, revisionStreamHash

(* The nodes on the path are hashed from path and sibling.                 *)
LEMMA PathNodes ==
  ASSUME NEW s, NEW n \in Nat, History(s, n), NEW H \in Nat, NEW a, <<H, a>> \in Blocks(n), NEW l \in 0 .. 2 ^ H - 1,
         NEW h \in 0 .. H - 1
  PROVE  NodeRoot(s, h + 1, PathStart(a, l, h + 1)) =
           NodeAbove(h + 1, PathStart(a, l, h + 1), IsRight(l, h),
                     NodeRoot(s, h, PathStart(a, l, h)), NodeRoot(s, h, OtherStart(a, l, h)))
<1>1. a \in Nat /\ l \in Nat /\ h \in Nat /\ h + 1 \in 0 .. H /\ (h + 1) - 1 = h /\ h + 1 # 0
  BY PathBlocks
<1>2. PICK b : b = PathStart(a, l, h + 1) /\ <<h + 1, b>> \in Blocks(n)
  BY <1>1, PathBlocks
<1>3. NodeFacts(s, h + 1, b)
  BY <1>2 DEF History
<1>4. NodeRoot(s, h + 1, b) = calculateRevisionStreamMerkleNode(Stream, h + 1, b, NodeRoot(s, h, b), NodeRoot(s, h, b + 2 ^ h))
  BY <1>1, <1>3 DEF NodeFacts
<1>5. /\ IsRight(l, h) => b = OtherStart(a, l, h) /\ b + 2 ^ h = PathStart(a, l, h)
      /\ ~IsRight(l, h) => b = PathStart(a, l, h) /\ b + 2 ^ h = OtherStart(a, l, h)
  <2>1. PathSides(a, l, h)
    BY <1>1, PathUp
  <2>2. QED
    BY <2>1, <1>2 DEF PathSides
<1>6. QED
  BY <1>2, <1>4, <1>5 DEF NodeAbove

(* The climb of an inclusion proof, spelled out.                           *)
ClimbFacts(peak, r, content, inc, c) ==
  LET l == r - peak.startRevision
  IN  /\ c[0] = calculateRevisionStreamMerkleLeaf(Stream, r, content)
      /\ \A h \in 1 .. Len(inc.siblings) :
           c[h] = NodeAbove(h, ParentStart(peak.startRevision, l, h - 1),
                            IsRight(l, h - 1), c[h - 1], inc.siblings[h].root)

(* The recursive climb of the code exists and is what its equations say.   *)
LEMMA Climb ==
  ASSUME NEW peak, NEW r, NEW content, NEW inc, Len(inc.siblings) \in Nat
  PROVE  ClimbFacts(peak, r, content, inc, ClimbedRoots(Stream, peak, r, content, inc))
<1> DEFINE m == Len(inc.siblings)
           local == r - peak.startRevision
           Parent(h) == peak.startRevision + (local \div 2 ^ h) * 2 ^ h - (IF IsRight(local, h) THEN 2 ^ h ELSE 0)
           Row(h, below) ==
             IF h = 0 THEN calculateRevisionStreamMerkleLeaf(Stream, r, content)
             ELSE LET sibling == inc.siblings[h].root
                  IN  IF IsRight(local, h - 1)
                      THEN calculateRevisionStreamMerkleNode(Stream, h, Parent(h - 1), sibling, below)
                      ELSE calculateRevisionStreamMerkleNode(Stream, h, Parent(h - 1), below, sibling)
           Grows(i) == \E g : g = [h \in 0 .. i |-> Row(h, g[h - 1])]
           Bad == {i \in 0 .. m : ~Grows(i)}
<1>0. m \in Nat /\ m \in 0 .. m
  OBVIOUS
<1>r. ASSUME NEW f, NEW g PROVE Row(0, f) = Row(0, g)
  OBVIOUS
<1>1. Bad = {}
  <2>1. SUFFICES ASSUME Bad # {} PROVE FALSE
    OBVIOUS
  <2>2. PICK i \in Bad : \A j \in Bad : i <= j
    <3>1. Bad \subseteq Nat
      BY <1>0
    <3> HIDE DEF Bad
    <3>2. QED
      BY <2>1, <3>1, LeastNat
  <2> HIDE DEF Row, m
  <2>3. Grows(0)
    <3> DEFINE g == [h \in 0 .. 0 |-> Row(0, 0)]
    <3>1. \A h \in 0 .. 0 : Row(h, g[h - 1]) = Row(0, 0)
      BY <1>r
    <3>2. g = [h \in 0 .. 0 |-> Row(h, g[h - 1])]
      BY <3>1
    <3> HIDE DEF g
    <3>3. QED
      BY <3>2
  <2>a. ~Grows(i) /\ i \in 0 .. m
    OBVIOUS
  <2>4. i \in Nat /\ i # 0 /\ i <= m
    <3> HIDE DEF Grows
    <3>1. QED
      BY <2>a, <2>3, <1>0
  <2>5. PICK k \in Nat : i = k + 1
    <3>1. i - 1 \in Nat /\ i = (i - 1) + 1
      BY <2>4
    <3>2. QED
      BY <3>1
  <2>6. k \in 0 .. m /\ k < i
    BY <2>4, <2>5, <1>0
  <2>7. Grows(k)
    BY <2>2, <2>6
  <2>8. PICK g : g = [h \in 0 .. k |-> Row(h, g[h - 1])]
    BY <2>7
  <2> DEFINE f == [h \in 0 .. i |-> IF h = i THEN Row(i, g[k]) ELSE g[h]]
  <2>9. ASSUME NEW h \in 0 .. i PROVE f[h] = Row(h, f[h - 1])
    <3>1. CASE h = i
      <4>1. f[h] = Row(i, g[k]) /\ h - 1 = k /\ k \in 0 .. i /\ k # i
        BY <3>1, <2>4, <2>5
      <4>2. f[h - 1] = g[k]
        BY <4>1
      <4>3. QED
        BY <4>1, <4>2, <3>1
    <3>2. CASE h # i
      <4>1. h \in 0 .. k
        BY <3>2, <2>4, <2>5
      <4>2. f[h] = g[h] /\ g[h] = Row(h, g[h - 1])
        BY <3>2, <4>1, <2>8
      <4>3. CASE h = 0
        <5>1. Row(0, g[0 - 1]) = Row(0, f[0 - 1])
          BY <1>r
        <5> HIDE DEF f
        <5>2. QED
          BY <4>2, <4>3, <5>1
      <4>4. CASE h # 0
        <5>1. h - 1 \in 0 .. i /\ h - 1 # i
          BY <4>1, <4>4, <2>5
        <5>2. f[h - 1] = g[h - 1]
          BY <5>1
        <5>3. QED
          BY <4>2, <5>2
      <4>5. QED
        BY <4>3, <4>4
    <3>3. QED
      BY <3>1, <3>2
  <2>10. f = [h \in 0 .. i |-> Row(h, f[h - 1])]
    <3>1. f = [h \in 0 .. i |-> f[h]]
      OBVIOUS
    <3> HIDE DEF f
    <3>2. QED
      BY <3>1, <2>9
  <2>11. Grows(i)
    <3> HIDE DEF f
    <3>1. QED
      BY <2>10
  <2>12. QED
    BY <2>11, <2>a
<1>2. PICK g : g = [h \in 0 .. m |-> Row(h, g[h - 1])]
  BY <1>0, <1>1
<1>3. PICK c : c = ClimbedRoots(Stream, peak, r, content, inc)
  OBVIOUS
<1>4. c = [h \in 0 .. m |-> Row(h, c[h - 1])]
  BY <1>2, <1>3 DEF ClimbedRoots
<1>5. c[0] = calculateRevisionStreamMerkleLeaf(Stream, r, content)
  <2>1. 0 \in 0 .. m
    BY <1>0
  <2>2. QED
    BY <2>1, <1>4
<1>6. ASSUME NEW h \in 1 .. m
      PROVE  c[h] = NodeAbove(h, ParentStart(peak.startRevision, local, h - 1),
                              IsRight(local, h - 1), c[h - 1], inc.siblings[h].root)
  <2>1. h \in 0 .. m /\ h # 0
    BY <1>0
  <2>2. c[h] = Row(h, c[h - 1])
    <3> HIDE DEF Row
    <3>1. QED
      BY <2>1, <1>4
  <2>3. Parent(h - 1) = ParentStart(peak.startRevision, local, h - 1)
    BY DEF ParentStart
  <2>4. c[h] = NodeAbove(h, Parent(h - 1), IsRight(local, h - 1), c[h - 1], inc.siblings[h].root)
    <3> HIDE DEF Parent, local, m
    <3>1. CASE IsRight(local, h - 1)
      BY <2>1, <2>2, <3>1 DEF NodeAbove
    <3>2. CASE ~IsRight(local, h - 1)
      BY <2>1, <2>2, <3>2 DEF NodeAbove
    <3>3. QED
      BY <3>1, <3>2
  <2>5. QED
    BY <2>3, <2>4
<1>7. QED
  BY <1>3, <1>5, <1>6 DEF ClimbFacts

(* c climbs from the leaf of content at offset l of the peak at a.         *)
ClimbedBy(c, H, a, l, content, sib) ==
  /\ c[0] = calculateRevisionStreamMerkleLeaf(Stream, a + l, content)
  /\ \A h \in 1 .. H : c[h] = NodeAbove(h, ParentStart(a, l, h - 1), IsRight(l, h - 1), c[h - 1], sib[h].root)

(* The content and the sibling roots are those of the keyspace.            *)
PathRoots(s, H, a, l, content, sib) ==
  /\ content = EventAt(s, a + l).content
  /\ \A h \in 1 .. H : sib[h].root = NodeRoot(s, h - 1, OtherStart(a, l, h - 1))

(* The climb ends at the root of the peak for the genuine content and      *)
(* sibling roots and for no others.                                        *)
LEMMA ClimbExact ==
  ASSUME NEW s, NEW n \in Nat, History(s, n), NEW H \in Nat, NEW a, <<H, a>> \in Blocks(n), NEW l \in 0 .. 2 ^ H - 1,
         NEW content, NEW sib, NEW c, ClimbedBy(c, H, a, l, content, sib)
  PROVE  c[H] = NodeRoot(s, H, a) <=> PathRoots(s, H, a, l, content, sib)
<1> DEFINE Right(h) == c[h] = NodeRoot(s, h, PathStart(a, l, h))
<1>0. /\ a \in Nat /\ l \in Nat /\ PathStart(a, l, H) = a /\ PathStart(a, l, 0) = a + l
      /\ \A h \in 0 .. H : <<h, PathStart(a, l, h)>> \in Blocks(n)
  BY PathBlocks
<1>1. ASSUME NEW h \in 0 .. H - 1
      PROVE  Right(h + 1) <=> Right(h) /\ sib[h + 1].root = NodeRoot(s, h, OtherStart(a, l, h))
  <2>1. h \in Nat /\ h + 1 \in 1 .. H /\ (h + 1) - 1 = h
    OBVIOUS
  <2>2. ParentStart(a, l, h) = PathStart(a, l, h + 1)
    BY <2>1, <1>0, PathUp
  <2>3. c[h + 1] = NodeAbove(h + 1, PathStart(a, l, h + 1), IsRight(l, h), c[h], sib[h + 1].root)
    BY <2>1, <2>2 DEF ClimbedBy
  <2>4. NodeRoot(s, h + 1, PathStart(a, l, h + 1)) =
          NodeAbove(h + 1, PathStart(a, l, h + 1), IsRight(l, h),
                    NodeRoot(s, h, PathStart(a, l, h)), NodeRoot(s, h, OtherStart(a, l, h)))
    BY PathNodes
  <2>5. QED
    BY <2>3, <2>4, NodeInjective
<1>2. Right(0) <=> content = EventAt(s, a + l).content
  <2>1. PICK b : b = a + l /\ <<0, b>> \in Blocks(n)
    BY <1>0
  <2>2. NodeFacts(s, 0, b)
    BY <2>1 DEF History
  <2>3. NodeRoot(s, 0, b) = calculateRevisionStreamMerkleLeaf(Stream, b, EventAt(s, b).content)
    BY <2>2 DEF NodeFacts
  <2>4. Right(0) <=> calculateRevisionStreamMerkleLeaf(Stream, b, content)
                       = calculateRevisionStreamMerkleLeaf(Stream, b, EventAt(s, b).content)
    BY <2>1, <2>3, <1>0 DEF ClimbedBy
  <2>5. QED
    BY <2>1, <2>4 DEF calculateRevisionStreamMerkleLeaf, revisionStreamHash
<1>3. Right(H) <=> c[H] = NodeRoot(s, H, a)
  BY <1>0
<1> HIDE DEF Right
<1>4. ASSUME Right(H) PROVE \A h \in 0 .. H : Right(h)
  <2> DEFINE Bad == {j \in 0 .. H : ~Right(H - j)}
  <2>1. Bad = {}
    <3>1. SUFFICES ASSUME Bad # {} PROVE FALSE
      OBVIOUS
    <3>2. PICK i \in Bad : \A j \in Bad : i <= j
      <4>1. Bad \subseteq Nat
        OBVIOUS
      <4> HIDE DEF Bad
      <4>2. QED
        BY <3>1, <4>1, LeastNat
    <3>3. i \in 0 .. H /\ i # 0 /\ ~Right(H - i)
      <4>1. i = 0 => H - i = H
        OBVIOUS
      <4>2. QED
        BY <4>1, <1>4
    <3>4. PICK h \in 0 .. H - 1 : h = H - i
      BY <3>3
    <3>5. i - 1 \in 0 .. H /\ i - 1 < i /\ H - (i - 1) = h + 1
      BY <3>3, <3>4
    <3>6. i - 1 \notin Bad
      BY <3>2, <3>3, <3>5
    <3>7. Right(h + 1)
      BY <3>5, <3>6
    <3>8. Right(h)
      BY <3>7, <1>1
    <3>9. QED
      BY <3>3, <3>4, <3>8
  <2>2. ASSUME NEW h \in 0 .. H PROVE Right(h)
    <3>1. H - h \in 0 .. H /\ H - (H - h) = h
      OBVIOUS
    <3>2. H - h \notin Bad
      BY <2>1
    <3>3. QED
      BY <3>1, <3>2
  <2>3. QED
    BY <2>2
<1>5. ASSUME Right(H) PROVE content = EventAt(s, a + l).content
  <2>1. Right(0)
    BY <1>4, <1>5
  <2>2. QED
    BY <2>1, <1>2
<1>6. ASSUME Right(H), NEW h \in 1 .. H PROVE sib[h].root = NodeRoot(s, h - 1, OtherStart(a, l, h - 1))
  <2>1. PICK k \in 0 .. H - 1 : h = k + 1 /\ h - 1 = k
    <3>1. h - 1 \in 0 .. H - 1 /\ h = (h - 1) + 1
      OBVIOUS
    <3>2. QED
      BY <3>1
  <2>2. Right(k + 1)
    BY <2>1, <1>4, <1>6
  <2>3. sib[k + 1].root = NodeRoot(s, k, OtherStart(a, l, k))
    BY <2>2, <1>1
  <2>4. QED
    BY <2>1, <2>3
<1>7. ASSUME Right(0), \A h \in 1 .. H : sib[h].root = NodeRoot(s, h - 1, OtherStart(a, l, h - 1)) PROVE Right(H)
  <2> DEFINE Bad == {j \in 0 .. H : ~Right(j)}
  <2>1. SUFFICES ASSUME ~Right(H) PROVE FALSE
    OBVIOUS
  <2>2. H \in Bad
    BY <2>1
  <2>3. PICK i \in Bad : \A j \in Bad : i <= j
    <3>1. Bad \subseteq Nat
      OBVIOUS
    <3> HIDE DEF Bad
    <3>2. QED
      BY <2>2, <3>1, LeastNat
  <2>4. i \in 0 .. H /\ i # 0 /\ ~Right(i)
    BY <1>7
  <2>5. PICK h \in 0 .. H - 1 : i = h + 1 /\ h < i /\ i - 1 = h
    <3>1. i - 1 \in 0 .. H - 1 /\ i = (i - 1) + 1 /\ i - 1 < i
      BY <2>4
    <3>2. QED
      BY <3>1
  <2>6. h \in 0 .. H /\ h \notin Bad
    BY <2>3, <2>4, <2>5
  <2>7. sib[h + 1].root = NodeRoot(s, h, OtherStart(a, l, h))
    BY <1>7, <2>4, <2>5
  <2>8. QED
    BY <2>4, <2>5, <2>6, <2>7, <1>1
<1>8. QED
  BY <1>2, <1>3, <1>5, <1>6, <1>7 DEF PathRoots

(* What an inclusion proof of revision r in peak i must say.               *)
ExactInclusion(s, n, r, i, content, inc) ==
  LET H == PeakSeq(n)[i]
      a == PeakStart(n, H)
  IN  /\ inc.revision = r /\ inc.peakIndex = i /\ content = EventAt(s, r).content
      /\ inc.leaf = calculateRevisionStreamMerkleLeaf(Stream, r, content)
      /\ Len(inc.siblings) = H
      /\ \A k \in 1 .. H : /\ inc.siblings[k].height = k - 1
                           /\ inc.siblings[k].side = IF IsRight(r - a, k - 1) THEN "left" ELSE "right"
                           /\ inc.siblings[k].root = NodeRoot(s, k - 1, OtherStart(a, r - a, k - 1))

(* verifyRevisionStreamInclusion accepts exactly the genuine facts.        *)
LEMMA VerifyExact ==
  ASSUME NEW s, NEW n \in 0 .. MaxUint, History(s, n), NEW r \in 1 .. n, NEW i, Holds(n, r, i), NEW content, NEW inc
  PROVE  verifyRevisionStreamInclusion(Stream, HeadAt(s, n), r, content, inc) <=> ExactInclusion(s, n, r, i, content, inc)
<1> DEFINE H == PeakSeq(n)[i]
           a == PeakStart(n, H)
           peaks == HeadAt(s, n).proof.peaks
           peak == peaks[i]
           c == ClimbedRoots(Stream, peak, r, content, inc)
<1>0. n \in Nat /\ r \in Nat
  BY WidthType
<1>1. /\ DOMAIN PeakSeq(n) = 1 .. Len(PeakSeq(n)) /\ i \in DOMAIN PeakSeq(n)
      /\ H \in PeakHeights(n) /\ H \in Nat
  <2>1. i \in DOMAIN PeakSeq(n)
    BY DEF Holds
  <2>2. DOMAIN PeakSeq(n) = 1 .. Len(PeakSeq(n)) /\ \A j \in 1 .. Len(PeakSeq(n)) : PeakSeq(n)[j] \in PeakHeights(n)
    BY <1>0, PeaksOfType
  <2>3. \A h \in PeakHeights(n) : h \in Nat
    BY WidthType DEF PeakHeights
  <2>4. QED
    BY <2>1, <2>2, <2>3
<1>2. peaks = PeaksOf(s, n)
  BY HeadFields
<1>3. DOMAIN peaks = DOMAIN PeakSeq(n)
  BY <1>2 DEF PeaksOf
<1>4. \A j \in DOMAIN PeakSeq(n) : /\ peaks[j].height = PeakSeq(n)[j]
                                   /\ peaks[j].startRevision = PeakStart(n, PeakSeq(n)[j])
                                   /\ peaks[j].root = NodeRoot(s, PeakSeq(n)[j], PeakStart(n, PeakSeq(n)[j]))
  BY <1>2 DEF PeaksOf
<1>5. <<H, a>> \in Blocks(n) /\ r - a \in 0 .. 2 ^ H - 1
  <2>1. r - a \in 0 .. 2 ^ H - 1
    BY DEF Holds
  <2>2. PICK h \in PeakHeights(n) : h = H
    BY <1>1
  <2>3. <<h, PeakStart(n, h)>> \in Blocks(n)
    BY <1>0, PeakBlock
  <2>4. QED
    BY <2>1, <2>2, <2>3
<1>6. peak.height = H /\ peak.startRevision = a /\ peak.root = NodeRoot(s, H, a)
  BY <1>1, <1>4
<1>7. PICK l \in 0 .. 2 ^ H - 1 : l = r - a /\ a + l = r
  <2>1. a \in Nat
    BY <1>0, <1>1, <1>5, PathBlocks
  <2>2. a + (r - a) = r
    BY <2>1, <1>0
  <2>3. QED
    BY <2>2, <1>5
<1>8. inc.peakIndex \in DOMAIN peaks /\ r - peaks[inc.peakIndex].startRevision \in 0 .. 2 ^ peaks[inc.peakIndex].height - 1
        => inc.peakIndex = i
  <2>1. SUFFICES ASSUME inc.peakIndex \in DOMAIN peaks,
                        r - peaks[inc.peakIndex].startRevision \in 0 .. 2 ^ peaks[inc.peakIndex].height - 1
                 PROVE  inc.peakIndex = i
    OBVIOUS
  <2>2. Holds(n, r, inc.peakIndex)
    BY <2>1, <1>3, <1>4 DEF Holds
  <2>3. QED
    BY <2>2, OnePeak
<1> HIDE DEF peaks, H
<1>9. ASSUME inc.peakIndex = i, Len(inc.siblings) = H
      PROVE  /\ c[0] = calculateRevisionStreamMerkleLeaf(Stream, r, content)
             /\ c[H] = NodeRoot(s, H, a)
                  <=> /\ content = EventAt(s, r).content
                      /\ \A h \in 1 .. H : inc.siblings[h].root = NodeRoot(s, h - 1, OtherStart(a, l, h - 1))
  <2>1. ClimbFacts(peak, r, content, inc, c)
    BY <1>1, <1>9, Climb
  <2> HIDE DEF c
  <2>2. c[0] = calculateRevisionStreamMerkleLeaf(Stream, r, content)
    BY <2>1 DEF ClimbFacts
  <2>3. \A h \in 1 .. H : c[h] = NodeAbove(h, ParentStart(a, l, h - 1), IsRight(l, h - 1), c[h - 1], inc.siblings[h].root)
    BY <2>1, <1>6, <1>7, <1>9 DEF ClimbFacts
  <2> HIDE DEF a, peak
  <2>4. PICK k \in Nat : k = H
    BY <1>1
  <2>5. PICK sib, d : d = a /\ sib = inc.siblings
    OBVIOUS
  <2>6. <<k, d>> \in Blocks(n) /\ l \in 0 .. 2 ^ k - 1 /\ ClimbedBy(c, k, d, l, content, sib)
    BY <2>2, <2>3, <2>4, <2>5, <1>5, <1>7 DEF ClimbedBy
  <2>7. c[k] = NodeRoot(s, k, d) <=> PathRoots(s, k, d, l, content, sib)
    BY <2>6, <1>0, ClimbExact
  <2>8. QED
    BY <2>2, <2>4, <2>5, <2>7, <1>7 DEF PathRoots
<1> HIDE DEF c, a, peak
<1>10. verifyRevisionStreamInclusion(Stream, HeadAt(s, n), r, content, inc)
         <=> /\ inc.revision = r /\ inc.peakIndex = i /\ Len(inc.siblings) = H
             /\ inc.leaf = c[0]
             /\ \A k \in 1 .. H : /\ inc.siblings[k].height = k - 1
                                  /\ inc.siblings[k].side = IF IsRight(l, k - 1) THEN "left" ELSE "right"
             /\ c[H] = NodeRoot(s, H, a)
  <2>1. verifyRevisionStreamInclusion(Stream, HeadAt(s, n), r, content, inc)
         <=> /\ inc.revision = r
             /\ inc.peakIndex \in DOMAIN peaks
             /\ r - peaks[inc.peakIndex].startRevision \in 0 .. 2 ^ peaks[inc.peakIndex].height - 1
             /\ Len(inc.siblings) = peaks[inc.peakIndex].height
             /\ inc.leaf = ClimbedRoots(Stream, peaks[inc.peakIndex], r, content, inc)[0]
             /\ \A k \in 1 .. Len(inc.siblings) :
                  /\ inc.siblings[k].height = k - 1
                  /\ inc.siblings[k].side = IF IsRight(r - peaks[inc.peakIndex].startRevision, k - 1) THEN "left" ELSE "right"
             /\ ClimbedRoots(Stream, peaks[inc.peakIndex], r, content, inc)[Len(inc.siblings)] = peaks[inc.peakIndex].root
    BY DEF verifyRevisionStreamInclusion, peaks
  <2>2. CASE inc.peakIndex # i
    BY <2>1, <2>2, <1>8
  <2>3. CASE inc.peakIndex = i
    <3>1. /\ i \in DOMAIN peaks
          /\ r - peaks[i].startRevision \in 0 .. 2 ^ peaks[i].height - 1
      BY <1>1, <1>3, <1>5, <1>6 DEF peak
    <3>2. ClimbedRoots(Stream, peaks[i], r, content, inc) = c
      BY DEF c, peak
    <3>3. peaks[i].height = H /\ peaks[i].startRevision = a /\ peaks[i].root = NodeRoot(s, H, a)
      BY <1>6 DEF peak
    <3>4. QED
      BY <2>1, <2>3, <3>1, <3>2, <3>3, <1>7
  <2>4. QED
    BY <2>2, <2>3
<1>11. ExactInclusion(s, n, r, i, content, inc)
         <=> /\ inc.revision = r /\ inc.peakIndex = i /\ Len(inc.siblings) = H
             /\ content = EventAt(s, r).content
             /\ inc.leaf = calculateRevisionStreamMerkleLeaf(Stream, r, content)
             /\ \A k \in 1 .. H : /\ inc.siblings[k].height = k - 1
                                  /\ inc.siblings[k].side = IF IsRight(l, k - 1) THEN "left" ELSE "right"
             /\ \A k \in 1 .. H : inc.siblings[k].root = NodeRoot(s, k - 1, OtherStart(a, l, k - 1))
  BY <1>7 DEF ExactInclusion, H, a
<1>12. QED
  BY <1>9, <1>10, <1>11

(* The siblings Core derives for revision r in peak i.                     *)
SiblingsOf(s, n, r, i) ==
  LET H == PeakSeq(n)[i]
      a == PeakStart(n, H)
  IN  [k \in 1 .. H |-> [height |-> k - 1, side |-> IF IsRight(r - a, k - 1) THEN "left" ELSE "right",
                         root |-> NodeRoot(s, k - 1, OtherStart(a, r - a, k - 1))]]

(* The proof Core derives.                                                 *)
LEMMA GenuineFields ==
  ASSUME NEW s, NEW n \in 0 .. MaxUint, NEW r \in 1 .. n, NEW i, Holds(n, r, i)
  PROVE  InclusionAt(s, n, r) =
           [revision |-> r, peakIndex |-> i,
            leaf |-> calculateRevisionStreamMerkleLeaf(Stream, r, EventAt(s, r).content),
            siblings |-> SiblingsOf(s, n, r, i)]
<1> DEFINE p == PeakSeq(n)
           index == CHOOSE j \in DOMAIN p : r - PeakStart(n, p[j]) \in 0 .. 2 ^ p[j] - 1
           H == p[i]
           a == PeakStart(n, H)
           Block(h) == (r - a) \div 2 ^ h
           Even(h) == Block(h) % 2 = 0
           sibs == [k \in 1 .. H |->
                      [height |-> k - 1, side |-> IF Even(k - 1) THEN "right" ELSE "left",
                       root |-> NodeRoot(s, k - 1, a + (Block(k - 1) + (IF Even(k - 1) THEN 1 ELSE -1)) * 2 ^ (k - 1))]]
<1>1. index = i
  <2>1. i \in DOMAIN p /\ r - PeakStart(n, p[i]) \in 0 .. 2 ^ p[i] - 1
    BY DEF Holds
  <2>2. \A j \in DOMAIN p : r - PeakStart(n, p[j]) \in 0 .. 2 ^ p[j] - 1 => j = i
    BY OnePeak DEF Holds
  <2>3. QED
    BY <2>1, <2>2
<1>2. InclusionAt(s, n, r) =
           [revision |-> r, peakIndex |-> i,
            leaf |-> calculateRevisionStreamMerkleLeaf(Stream, r, EventAt(s, r).content), siblings |-> sibs]
  BY <1>1 DEF InclusionAt
<1>3. H \in Nat /\ a \in Nat /\ r - a \in Nat
  <2>1. i \in 1 .. Len(p) /\ n \in Nat
    BY PeaksOfType DEF Holds
  <2>2. PICK h \in PeakHeights(n) : h = H
    BY <2>1, PeaksOfType
  <2>3. <<h, PeakStart(n, h)>> \in Blocks(n) /\ h \in Nat
    BY <2>1, PeakBlock, WidthType DEF PeakHeights
  <2>4. r - a \in 0 .. 2 ^ H - 1
    BY DEF Holds
  <2>5. QED
    BY <2>1, <2>2, <2>3, <2>4, PathBlocks
<1> HIDE DEF a, H
<1>4. ASSUME NEW k \in 1 .. H
      PROVE  /\ Even(k - 1) <=> ~IsRight(r - a, k - 1)
             /\ a + (Block(k - 1) + (IF Even(k - 1) THEN 1 ELSE -1)) * 2 ^ (k - 1) = OtherStart(a, r - a, k - 1)
  <2>1. PICK d \in Nat : d = 2 ^ (k - 1) /\ d > 0
    BY <1>3, Doubling
  <2>2. PICK b \in Nat : b = Block(k - 1)
    BY <2>1, <1>3, Division
  <2>3. Even(k - 1) <=> ~IsRight(r - a, k - 1)
    BY <2>2 DEF IsRight
  <2>4. PathStart(a, r - a, k - 1) = a + b * d
    BY <2>1, <2>2 DEF PathStart
  <2>5. (b + 1) * d = b * d + d /\ (b + -1) * d = b * d - d /\ b * d \in Nat
    BY <2>1, <2>2
  <2> HIDE DEF Even
  <2>6. CASE Even(k - 1)
    <3>1. OtherStart(a, r - a, k - 1) = a + b * d + d
      BY <2>1, <2>3, <2>4, <2>6 DEF OtherStart
    <3>2. QED
      BY <3>1, <2>1, <2>2, <2>3, <2>5, <2>6, <1>3
  <2>7. CASE ~Even(k - 1)
    <3>1. OtherStart(a, r - a, k - 1) = a + b * d - d
      BY <2>1, <2>3, <2>4, <2>5, <2>7, <1>3 DEF OtherStart
    <3>2. QED
      BY <3>1, <2>1, <2>2, <2>3, <2>5, <2>7, <1>3
  <2>8. QED
    BY <2>6, <2>7
<1>5. sibs = SiblingsOf(s, n, r, i)
  <2> HIDE DEF Even, Block
  <2>1. ASSUME NEW k \in 1 .. H
        PROVE  sibs[k] = [height |-> k - 1, side |-> IF IsRight(r - a, k - 1) THEN "left" ELSE "right",
                          root |-> NodeRoot(s, k - 1, OtherStart(a, r - a, k - 1))]
    BY <1>4
  <2>2. SiblingsOf(s, n, r, i) = [k \in 1 .. H |->
                         [height |-> k - 1, side |-> IF IsRight(r - a, k - 1) THEN "left" ELSE "right",
                          root |-> NodeRoot(s, k - 1, OtherStart(a, r - a, k - 1))]]
    BY DEF SiblingsOf, a, H
  <2>3. sibs = [k \in 1 .. H |-> sibs[k]]
    OBVIOUS
  <2>4. QED
    BY <2>1, <2>2, <2>3
<1>6. QED
  BY <1>2, <1>5

(* The records an inclusion proof decodes to.                              *)
Shaped(inc) ==
  /\ inc = [revision |-> inc.revision, peakIndex |-> inc.peakIndex, leaf |-> inc.leaf, siblings |-> inc.siblings]
  /\ \E m \in Nat :
       inc.siblings = [k \in 1 .. m |-> [height |-> inc.siblings[k].height, side |-> inc.siblings[k].side,
                                         root |-> inc.siblings[k].root]]

(* The leaf of a proof is that of the content at hand.                     *)
LeafIs(inc, r, content) == inc.leaf = calculateRevisionStreamMerkleLeaf(Stream, r, content)

(* A proof that says the genuine facts is the proof Core derives.          *)
LEMMA ShapedExact ==
  ASSUME NEW s, NEW n \in 0 .. MaxUint, NEW r \in 1 .. n, NEW i, Holds(n, r, i), NEW content, NEW inc, Shaped(inc),
         LeafIs(inc, r, content)
  PROVE  ExactInclusion(s, n, r, i, content, inc) <=> content = EventAt(s, r).content /\ inc = InclusionAt(s, n, r)
<1> DEFINE H == PeakSeq(n)[i]
           a == PeakStart(n, H)
<1>1. InclusionAt(s, n, r) =
           [revision |-> r, peakIndex |-> i,
            leaf |-> calculateRevisionStreamMerkleLeaf(Stream, r, EventAt(s, r).content),
            siblings |-> SiblingsOf(s, n, r, i)]
  BY GenuineFields
<1>2. H \in Nat
  <2>1. i \in 1 .. Len(PeakSeq(n)) /\ n \in Nat
    BY PeaksOfType DEF Holds
  <2>2. H \in PeakHeights(n)
    BY <2>1, PeaksOfType
  <2>3. QED
    BY <2>2, WidthType DEF PeakHeights
<1>3. PICK m \in Nat :
       inc.siblings = [k \in 1 .. m |-> [height |-> inc.siblings[k].height, side |-> inc.siblings[k].side,
                                         root |-> inc.siblings[k].root]]
  BY DEF Shaped
<1>4. Len(inc.siblings) = m
  <2>1. PICK sib : sib = inc.siblings
    OBVIOUS
  <2>2. sib = [k \in 1 .. m |-> sib[k]]
    BY <1>3, <2>1
  <2>3. sib \in Seq({sib[k] : k \in 1 .. m}) /\ Len(sib) = m
    BY <2>2
  <2>4. QED
    BY <2>1, <2>3
<1>5. SiblingsOf(s, n, r, i) = [k \in 1 .. H |->
                         [height |-> k - 1, side |-> IF IsRight(r - a, k - 1) THEN "left" ELSE "right",
                          root |-> NodeRoot(s, k - 1, OtherStart(a, r - a, k - 1))]]
  BY DEF SiblingsOf
<1>6. inc.siblings = SiblingsOf(s, n, r, i)
        <=> /\ m = H
            /\ \A k \in 1 .. H : /\ inc.siblings[k].height = k - 1
                                 /\ inc.siblings[k].side = IF IsRight(r - a, k - 1) THEN "left" ELSE "right"
                                 /\ inc.siblings[k].root = NodeRoot(s, k - 1, OtherStart(a, r - a, k - 1))
  <2> HIDE DEF H, a
  <2>1. PICK sib : sib = inc.siblings
    OBVIOUS
  <2>2. PICK f : f = SiblingsOf(s, n, r, i)
    OBVIOUS
  <2>3. ASSUME sib = f
        PROVE  m = H /\ \A k \in 1 .. H : /\ sib[k].height = k - 1
                                          /\ sib[k].side = IF IsRight(r - a, k - 1) THEN "left" ELSE "right"
                                          /\ sib[k].root = NodeRoot(s, k - 1, OtherStart(a, r - a, k - 1))
    <3>1. DOMAIN sib = 1 .. m /\ DOMAIN f = 1 .. H
      BY <1>3, <1>5, <2>1, <2>2
    <3>2. m = H
      BY <3>1, <2>3, <1>2
    <3>3. QED
      BY <3>2, <2>2, <2>3, <1>5
  <2>4. ASSUME m = H, \A k \in 1 .. H : /\ sib[k].height = k - 1
                                        /\ sib[k].side = IF IsRight(r - a, k - 1) THEN "left" ELSE "right"
                                        /\ sib[k].root = NodeRoot(s, k - 1, OtherStart(a, r - a, k - 1))
        PROVE  sib = f
    <3>1. sib = [k \in 1 .. H |-> [height |-> sib[k].height, side |-> sib[k].side, root |-> sib[k].root]]
      BY <1>3, <2>1, <2>4
    <3>2. QED
      BY <3>1, <2>2, <2>4, <1>5
  <2>5. QED
    BY <2>1, <2>2, <2>3, <2>4
<1>7. inc = InclusionAt(s, n, r) <=> /\ inc.revision = r /\ inc.peakIndex = i
                                     /\ inc.leaf = calculateRevisionStreamMerkleLeaf(Stream, r, EventAt(s, r).content)
                                     /\ inc.siblings = SiblingsOf(s, n, r, i)
  <2>1. inc = [revision |-> inc.revision, peakIndex |-> inc.peakIndex, leaf |-> inc.leaf, siblings |-> inc.siblings]
    BY DEF Shaped
  <2>2. QED
    BY <2>1, <1>1
<1>8. ExactInclusion(s, n, r, i, content, inc)
        <=> /\ inc.revision = r /\ inc.peakIndex = i /\ content = EventAt(s, r).content
            /\ inc.siblings = SiblingsOf(s, n, r, i)
  BY <1>4, <1>6 DEF ExactInclusion, LeafIs
<1>9. QED
  BY <1>7, <1>8 DEF LeafIs

(* The proofs the property tries have the shape of a decoded one.          *)
LEMMA DamagedShape ==
  ASSUME NEW s, NEW g, Shaped(g), NEW proof \in {g} \cup DamagedInclusions(g, s)
  PROVE  Shaped(proof) /\ proof.leaf = g.leaf
<1>1. g = [revision |-> g.revision, peakIndex |-> g.peakIndex, leaf |-> g.leaf, siblings |-> g.siblings]
  BY DEF Shaped
<1>2. PICK m \in Nat :
       g.siblings = [k \in 1 .. m |-> [height |-> g.siblings[k].height, side |-> g.siblings[k].side,
                                       root |-> g.siblings[k].root]]
  BY DEF Shaped
<1>3. PICK sib : sib = g.siblings
  OBVIOUS
<1>4. /\ DOMAIN sib = 1 .. m
      /\ sib = [k \in 1 .. m |-> sib[k]]
      /\ \A k \in 1 .. m : sib[k] = [height |-> sib[k].height, side |-> sib[k].side, root |-> sib[k].root]
  BY <1>2, <1>3
<1>5. sib \in Seq({sib[k] : k \in 1 .. m}) /\ Len(sib) = m
  BY <1>4
<1>6. CASE proof = g
  BY <1>6
<1>7. ASSUME NEW i \in DOMAIN g.siblings, NEW x, proof = [g EXCEPT !.siblings[i].root = x]
      PROVE  Shaped(proof) /\ proof.leaf = g.leaf
  <2>1. i \in 1 .. m
    BY <1>3, <1>4, <1>7
  <2>2. PICK t : t = [sib EXCEPT ![i].root = x]
    OBVIOUS
  <2>3. proof = [revision |-> g.revision, peakIndex |-> g.peakIndex, leaf |-> g.leaf, siblings |-> t]
    BY <1>1, <1>3, <1>7, <2>2
  <2>4. t[i] = [sib[i] EXCEPT !.root = x] /\ DOMAIN t = 1 .. m /\ \A k \in 1 .. m : k # i => t[k] = sib[k]
    BY <1>4, <2>1, <2>2
  <2>5. t[i] = [height |-> t[i].height, side |-> t[i].side, root |-> t[i].root]
    BY <1>4, <2>1, <2>4
  <2>6. \A k \in 1 .. m : t[k] = [height |-> t[k].height, side |-> t[k].side, root |-> t[k].root]
    BY <1>4, <2>4, <2>5
  <2>7. t = [k \in 1 .. m |-> t[k]]
    BY <1>4, <2>2
  <2>8. t = [k \in 1 .. m |-> [height |-> t[k].height, side |-> t[k].side, root |-> t[k].root]]
    BY <2>6, <2>7
  <2>9. QED
    BY <2>3, <2>8 DEF Shaped
<1>8. ASSUME NEW i \in DOMAIN g.siblings, NEW x, proof = [g EXCEPT !.siblings[i].side = x]
      PROVE  Shaped(proof) /\ proof.leaf = g.leaf
  <2>1. i \in 1 .. m
    BY <1>3, <1>4, <1>8
  <2>2. PICK t : t = [sib EXCEPT ![i].side = x]
    OBVIOUS
  <2>3. proof = [revision |-> g.revision, peakIndex |-> g.peakIndex, leaf |-> g.leaf, siblings |-> t]
    BY <1>1, <1>3, <1>8, <2>2
  <2>4. t[i] = [sib[i] EXCEPT !.side = x] /\ DOMAIN t = 1 .. m /\ \A k \in 1 .. m : k # i => t[k] = sib[k]
    BY <1>4, <2>1, <2>2
  <2>5. t[i] = [height |-> t[i].height, side |-> t[i].side, root |-> t[i].root]
    BY <1>4, <2>1, <2>4
  <2>6. \A k \in 1 .. m : t[k] = [height |-> t[k].height, side |-> t[k].side, root |-> t[k].root]
    BY <1>4, <2>4, <2>5
  <2>7. t = [k \in 1 .. m |-> t[k]]
    BY <1>4, <2>2
  <2>8. t = [k \in 1 .. m |-> [height |-> t[k].height, side |-> t[k].side, root |-> t[k].root]]
    BY <2>6, <2>7
  <2>9. QED
    BY <2>3, <2>8 DEF Shaped
<1>9. ASSUME NEW i \in 0 .. Len(g.siblings), proof = [g EXCEPT !.siblings = SubSeq(@, 1, i)]
      PROVE  Shaped(proof) /\ proof.leaf = g.leaf
  <2>1. i \in 0 .. m /\ i \in Nat
    BY <1>3, <1>5, <1>9
  <2>2. PICK t : t = SubSeq(sib, 1, i)
    OBVIOUS
  <2>3. proof = [revision |-> g.revision, peakIndex |-> g.peakIndex, leaf |-> g.leaf, siblings |-> t]
    BY <1>1, <1>3, <1>9, <2>2
  <2>4. t = [k \in 1 .. i |-> sib[k]]
    <3>1. Len(t) = i /\ t \in Seq({sib[k] : k \in 1 .. m}) /\ \A k \in 1 .. i : t[k] = sib[k]
      BY <2>1, <2>2, <1>5
    <3>2. t = [k \in 1 .. Len(t) |-> t[k]]
      BY <3>1
    <3>3. QED
      BY <3>1, <3>2
  <2>5. \A k \in 1 .. i : k \in 1 .. m
    BY <2>1
  <2>6. t = [k \in 1 .. i |-> [height |-> t[k].height, side |-> t[k].side, root |-> t[k].root]]
    BY <2>4, <2>5, <1>4
  <2>7. QED
    BY <2>1, <2>3, <2>6 DEF Shaped
<1>10. ASSUME NEW x, proof = [g EXCEPT !.peakIndex = x] \/ proof = [g EXCEPT !.revision = x]
       PROVE  Shaped(proof) /\ proof.leaf = g.leaf
  <2>1. proof.siblings = g.siblings /\ proof.leaf = g.leaf
    BY <1>1, <1>10
  <2>2. proof = [revision |-> proof.revision, peakIndex |-> proof.peakIndex, leaf |-> proof.leaf, siblings |-> proof.siblings]
    BY <1>1, <1>10
  <2>3. QED
    BY <2>1, <2>2, <1>2 DEF Shaped
<1>11. CASE proof \in {[g EXCEPT !.siblings[i].root = NodeRoot(s, b[1], b[2])] :
                      i \in DOMAIN g.siblings, b \in Blocks(HeadOf(s).revision)}
  BY <1>7, <1>11
<1>12. CASE proof \in {[g EXCEPT !.siblings[i].side = IF @ = "left" THEN "right" ELSE "left"] : i \in DOMAIN g.siblings}
  BY <1>8, <1>12
<1>13. CASE proof \in {[g EXCEPT !.siblings = SubSeq(@, 1, i)] : i \in 0 .. Len(g.siblings)}
  BY <1>9, <1>13
<1>14. CASE \/ proof \in {[g EXCEPT !.peakIndex = i] : i \in 0 .. Width}
            \/ proof \in {[g EXCEPT !.revision = r] : r \in 1 .. HeadOf(s).revision}
  BY <1>10, <1>14
<1>15. QED
  BY <1>6, <1>11, <1>12, <1>13, <1>14 DEF DamagedInclusions

(* Core's own proofs have the shape of a decoded one.                      *)
LEMMA GenuineShaped ==
  ASSUME NEW s, NEW n \in 0 .. MaxUint, NEW r \in 1 .. n, NEW g, g = InclusionAt(s, n, r)
  PROVE  Shaped(g)
<1>a. PICK i : Holds(n, r, i)
  BY OnePeak
<1>b. g = [revision |-> r, peakIndex |-> i,
           leaf |-> calculateRevisionStreamMerkleLeaf(Stream, r, EventAt(s, r).content),
           siblings |-> SiblingsOf(s, n, r, i)]
  BY <1>a, GenuineFields
<1>1. PeakSeq(n)[i] \in Nat
  <2>1. i \in 1 .. Len(PeakSeq(n))
    BY <1>a, PeaksOfType DEF Holds
  <2>2. PeakSeq(n)[i] \in PeakHeights(n)
    BY <2>1, PeaksOfType
  <2>3. QED
    BY <2>2, WidthType DEF PeakHeights
<1>2. PICK H \in Nat : H = PeakSeq(n)[i]
  BY <1>1
<1>3. PICK f : f = SiblingsOf(s, n, r, i)
  OBVIOUS
<1>4. f = [k \in 1 .. H |-> [height |-> f[k].height, side |-> f[k].side, root |-> f[k].root]]
  BY <1>2, <1>3 DEF SiblingsOf
<1>5. QED
  <2>1. g.siblings = f
    BY <1>3, <1>b
  <2>2. \E m \in Nat : g.siblings = [k \in 1 .. m |-> [height |-> g.siblings[k].height, side |-> g.siblings[k].side,
                                                      root |-> g.siblings[k].root]]
    BY <2>1, <1>4
  <2>3. g = [revision |-> g.revision, peakIndex |-> g.peakIndex, leaf |-> g.leaf, siblings |-> g.siblings]
    BY <1>b
  <2>4. QED
    BY <2>2, <2>3 DEF Shaped

(* Each of them is accepted exactly if it is the genuine one.              *)
LEMMA EveryInclusion ==
  ASSUME NEW s, Canonical(s), NEW n, n = HeadOf(s).revision, NEW r \in 1 .. n, NEW c \in 1 .. n, NEW g, g = InclusionAt(s, n, r),
         NEW proof \in {g} \cup DamagedInclusions(g, s), NEW content, content = EventAt(s, c).content, NEW inc,
         inc = [proof EXCEPT !.leaf = calculateRevisionStreamMerkleLeaf(Stream, r, content)]
  PROVE  verifyRevisionStreamInclusion(Stream, HeadOf(s), r, content, inc) <=> c = r /\ proof = g
<1>1. n \in Nat /\ n \in 0 .. MaxUint /\ History(s, n) /\ HeadOf(s) = HeadFor0(s, n)
  BY CanonicalHead
<1>2. HeadOf(s) = HeadAt(s, n)
  BY <1>1 DEF HeadFor0
<1>3. PICK i : Holds(n, r, i)
  BY <1>1, OnePeak
<1>4. g = [revision |-> r, peakIndex |-> i,
            leaf |-> calculateRevisionStreamMerkleLeaf(Stream, r, EventAt(s, r).content),
            siblings |-> SiblingsOf(s, n, r, i)]
  BY <1>1, <1>3, GenuineFields
<1>5. Shaped(g)
  BY <1>1, GenuineShaped
<1>6. Shaped(proof) /\ proof.leaf = g.leaf
  BY <1>5, DamagedShape
<1>7. proof = [revision |-> proof.revision, peakIndex |-> proof.peakIndex, leaf |-> proof.leaf, siblings |-> proof.siblings]
  BY <1>6 DEF Shaped
<1>8. inc = [revision |-> proof.revision, peakIndex |-> proof.peakIndex,
             leaf |-> calculateRevisionStreamMerkleLeaf(Stream, r, content), siblings |-> proof.siblings]
  BY <1>7
<1>9. Shaped(inc) /\ inc.leaf = calculateRevisionStreamMerkleLeaf(Stream, r, content)
  BY <1>6, <1>8 DEF Shaped
<1>10. verifyRevisionStreamInclusion(Stream, HeadOf(s), r, content, inc) <=> content = EventAt(s, r).content /\ inc = g
  <2>1. verifyRevisionStreamInclusion(Stream, HeadAt(s, n), r, content, inc) <=> ExactInclusion(s, n, r, i, content, inc)
    BY <1>1, <1>3, VerifyExact
  <2>2. ExactInclusion(s, n, r, i, content, inc) <=> content = EventAt(s, r).content /\ inc = InclusionAt(s, n, r)
    <3>1. LeafIs(inc, r, content) /\ Shaped(inc)
      BY <1>9 DEF LeafIs
    <3>2. QED
      BY <3>1, <1>1, <1>3, ShapedExact
  <2>3. QED
    BY <2>1, <2>2, <1>2
<1>11. content = EventAt(s, r).content <=> c = r
  <2>1. EventFacts(s, c) /\ EventFacts(s, r)
    BY <1>1 DEF History
  <2>2. /\ EventAt(s, c).content = calculateRevisionStreamContent(Stream, EventAt(s, c).previousRoot, c,
                                           EventAt(s, c).occurredAt, EventAt(s, c).payloadSHA)
        /\ EventAt(s, r).content = calculateRevisionStreamContent(Stream, EventAt(s, r).previousRoot, r,
                                           EventAt(s, r).occurredAt, EventAt(s, r).payloadSHA)
    BY <2>1 DEF EventFacts
  <2>3. EventAt(s, c).content = EventAt(s, r).content => c = r
    BY <2>2 DEF calculateRevisionStreamContent, revisionStreamHash
  <2>4. QED
    BY <2>3
<1>12. c = r => (inc = g <=> proof = g)
  BY <1>4, <1>6, <1>7, <1>8
<1>13. QED
  BY <1>10, <1>11, <1>12

(* For every revision and every stream, verifyRevisionStreamInclusion      *)
(* accepts the proof Core derives for the content the revision has and     *)
(* refuses each damaged form of it and each other content                  *)
(* (revision_stream.go:1561-1608).                                         *)
THEOREM InclusionsExact == StreamSpec => []InclusionExact
<1>1. ASSUME StreamInv PROVE InclusionExact
  <2>1. SUFFICES ASSUME NEW n, n = HeadOf(store).revision, NEW r \in 1 .. n, NEW g, g = InclusionAt(store, n, r),
                        NEW c \in 1 .. n, NEW proof \in {g} \cup DamagedInclusions(g, store), NEW content,
                        content = EventAt(store, c).content
                 PROVE  verifyRevisionStreamInclusion(Stream, HeadOf(store), r, content,
                               [proof EXCEPT !.leaf = calculateRevisionStreamMerkleLeaf(Stream, r, content)])
                          <=> c = r /\ proof = g
    BY DEF InclusionExact
  <2>2. Canonical(store)
    BY <1>1 DEF StreamInv
  <2>3. QED
    BY <2>1, <2>2, EveryInclusion
<1>2. QED
  BY <1>1, StreamInvariant, PTL

-----------------------------------------------------------------------------
(* Time windows and the shape of answers and requests.                     *)

(* The time of an event.                                                   *)
Time(s, r) == EventAt(s, r).occurredAt

(* Events are ordered in time, not only next to each other.                *)
LEMMA TimesOrdered ==
  ASSUME NEW s, NEW n \in Nat, History(s, n)
  PROVE  /\ \A r \in 1 .. n : Time(s, r) \in Int
         /\ \A i, j \in 1 .. n : i <= j => Time(s, i) <= Time(s, j)
<1>1. ASSUME NEW r \in 1 .. n PROVE Time(s, r) \in Int
  <2>1. EventFacts(s, r)
    BY DEF History
  <2>2. QED
    BY <2>1, TimesAssumption DEF EventFacts, Time
<1>2. ASSUME NEW i \in 1 .. n, NEW j \in 1 .. n, i <= j PROVE Time(s, i) <= Time(s, j)
  <2> DEFINE Bad == {k \in i .. n : ~(Time(s, i) <= Time(s, k))}
  <2>1. Bad = {}
    <3>1. SUFFICES ASSUME Bad # {} PROVE FALSE
      OBVIOUS
    <3>2. PICK k \in Bad : \A l \in Bad : k <= l
      <4>1. Bad \subseteq Nat
        OBVIOUS
      <4> HIDE DEF Bad
      <4>2. QED
        BY <3>1, <4>1, LeastNat
    <3>3. k \in i .. n /\ k # i /\ ~(Time(s, i) <= Time(s, k))
      BY <1>1
    <3>4. k - 1 \in i .. n /\ k - 1 < k /\ k \in 2 .. n /\ k - 1 \in 1 .. n /\ k \in 1 .. n
      BY <3>3
    <3>5. k - 1 \notin Bad
      BY <3>2, <3>3, <3>4
    <3>6. Time(s, i) <= Time(s, k - 1)
      BY <3>4, <3>5
    <3>7. Time(s, k - 1) <= Time(s, k)
      BY <3>4 DEF History, Time
    <3>8. Time(s, i) \in Int /\ Time(s, k - 1) \in Int /\ Time(s, k) \in Int
      BY <1>1, <3>4
    <3>9. QED
      BY <3>3, <3>6, <3>7, <3>8
  <2>2. j \in i .. n
    BY <1>2
  <2>3. QED
    BY <2>1, <2>2
<1>3. QED
  BY <1>1, <1>2

(* The revisions before a time are a prefix.                               *)
LEMMA Before ==
  ASSUME NEW s, NEW n \in Nat, History(s, n), NEW bound \in Int
  PROVE  \E k \in 0 .. n : \A r \in 1 .. n : Time(s, r) < bound <=> r <= k
<1> DEFINE After == {r \in 1 .. n : ~(Time(s, r) < bound)}
<1>1. CASE After = {}
  <2>1. n \in 0 .. n /\ \A r \in 1 .. n : r <= n /\ Time(s, r) < bound
    BY <1>1
  <2>2. QED
    BY <2>1
<1>2. CASE After # {}
  <2>1. PICK f \in After : \A r \in After : f <= r
    <3>1. After \subseteq Nat
      OBVIOUS
    <3> HIDE DEF After
    <3>2. QED
      BY <1>2, <3>1, LeastNat
  <2>2. f \in 1 .. n /\ ~(Time(s, f) < bound)
    OBVIOUS
  <2>3. PICK k \in 0 .. n : k = f - 1
    BY <2>2
  <2>4. ASSUME NEW r \in 1 .. n PROVE Time(s, r) < bound <=> r <= k
    <3>1. CASE r <= k
      <4>1. ~(f <= r)
        BY <3>1, <2>2, <2>3
      <4>2. QED
        BY <4>1, <3>1, <2>1
    <3>2. CASE ~(r <= k)
      <4>1. f <= r
        BY <3>2, <2>2, <2>3
      <4>2. Time(s, f) <= Time(s, r) /\ Time(s, f) \in Int /\ Time(s, r) \in Int
        BY <4>1, <2>2, TimesOrdered
      <4>3. QED
        BY <4>2, <2>2, <3>2
    <3>3. QED
      BY <3>1, <3>2
  <2>5. QED
    BY <2>4
<1>3. QED
  BY <1>1, <1>2

(* The time window of a query: revisions k+1 to e.                         *)
Skipped(s, n, from) == Cardinality({r \in 1 .. n : EventAt(s, r).occurredAt < from})
WindowIs(s, n, from, until, k, e) ==
  /\ k \in 0 .. n /\ e \in 0 .. n /\ k <= e
  /\ \A r \in 1 .. n : Time(s, r) < from <=> r <= k
  /\ \A r \in 1 .. n : from <= Time(s, r) /\ Time(s, r) < until <=> k < r /\ r <= e
  /\ Skipped(s, n, from) = k
  /\ Revisions(s, n, from, until) = (k + 1) .. e
  /\ Cardinality(Revisions(s, n, from, until)) = e - k

(* What the two bounds of a window say, counted.                           *)
LEMMA WindowCounts ==
  ASSUME NEW s, NEW n \in Nat, NEW from, NEW until, NEW k \in 0 .. n, NEW e \in 0 .. n, k <= e,
         \A r \in 1 .. n : Time(s, r) < from <=> r <= k,
         \A r \in 1 .. n : from <= Time(s, r) /\ Time(s, r) < until <=> k < r /\ r <= e
  PROVE  WindowIs(s, n, from, until, k, e)
<1>1. {r \in 1 .. n : EventAt(s, r).occurredAt < from} = 1 .. k
  BY DEF Time
<1>2. Cardinality(1 .. k) = k
  BY FS_Interval
<1>3. Revisions(s, n, from, until) = (k + 1) .. e
  BY DEF Revisions, Time
<1>4. Cardinality((k + 1) .. e) = e - k
  <2>1. k + 1 \in Int /\ e \in Int
    OBVIOUS
  <2>2. PICK a \in Int : a = k + 1
    BY <2>1
  <2>3. Cardinality(a .. e) = IF a > e THEN 0 ELSE e - a + 1
    BY <2>1, FS_Interval
  <2>4. QED
    BY <2>2, <2>3
<1>5. QED
  BY <1>1, <1>2, <1>3, <1>4 DEF WindowIs, Skipped

(* Every time range has a window.                                          *)
LEMMA WindowExists ==
  ASSUME NEW s, NEW n \in Nat, History(s, n), NEW from \in Int, NEW until \in Int
  PROVE  \E k, e \in Nat : WindowIs(s, n, from, until, k, e)
<1>1. PICK k \in 0 .. n : \A r \in 1 .. n : Time(s, r) < from <=> r <= k
  BY Before
<1>2. PICK u \in 0 .. n : \A r \in 1 .. n : Time(s, r) < until <=> r <= u
  BY Before
<1>3. \A r \in 1 .. n : Time(s, r) \in Int
  BY TimesOrdered
<1>4. PICK e \in 0 .. n : e = IF k <= u THEN u ELSE k
  OBVIOUS
<1>5. ASSUME NEW r \in 1 .. n PROVE from <= Time(s, r) /\ Time(s, r) < until <=> k < r /\ r <= e
  <2>1. from <= Time(s, r) <=> ~(r <= k)
    BY <1>1, <1>3
  <2>2. Time(s, r) < until <=> r <= u
    BY <1>2
  <2>3. QED
    BY <2>1, <2>2, <1>4
<1>6. k <= e /\ k \in Nat /\ e \in Nat
  BY <1>4
<1>7. WindowIs(s, n, from, until, k, e)
  BY <1>1, <1>5, <1>6, WindowCounts
<1>8. QED
  BY <1>6, <1>7

(* The records that answers and requests decode to.                        *)
EntryShaped(e) ==
  e = [revision |-> e.revision, occurredAt |-> e.occurredAt, previousRoot |-> e.previousRoot,
       payloadSHA |-> e.payloadSHA, content |-> e.content, proofRoot |-> e.proofRoot, root |-> e.root,
       payload |-> e.payload]
EntriesShaped(f) == \E m \in Nat : f = [k \in 1 .. m |-> f[k]] /\ \A k \in 1 .. m : EntryShaped(f[k])
RangeShaped(range) ==
  range = [first |-> range.first, last |-> range.last] /\ range.first \in Nat /\ range.last \in Nat
PageFields(p) ==
  p = [pinned |-> p.pinned, live |-> p.live, window |-> p.window, page |-> p.page, hasMore |-> p.hasMore,
       next |-> p.next, entries |-> p.entries, entryProofs |-> p.entryProofs, proofRoot |-> p.proofRoot,
       predecessor |-> p.predecessor, first |-> p.first, last |-> p.last, successor |-> p.successor,
       pageSuccessor |-> p.pageSuccessor]
PageShaped(p) ==
  /\ PageFields(p)
  /\ RangeShaped(p.window)
  /\ EntriesShaped(p.entries)
  /\ p.predecessor.revision \in Nat /\ p.first.revision \in Nat /\ p.last.revision \in Nat
  /\ p.successor.revision \in Nat /\ p.pageSuccessor.revision \in Nat

(* Core's points have a revision.                                          *)
LEMMA PointShaped ==
  ASSUME NEW s, NEW n \in Nat, NEW r
  PROVE  PointAt(s, n, r).revision \in Nat
<1>1. CASE r \notin 1 .. n
  BY <1>1 DEF PointAt, NoPoint
<1>2. CASE r \in 1 .. n
  <2>1. PointAt(s, n, r).revision = r
    BY <1>2 DEF PointAt
  <2>2. QED
    BY <2>1, <1>2
<1>3. QED
  BY <1>1, <1>2

(* A prefix of a history.                                                  *)
LEMMA HistoryShorter ==
  ASSUME NEW s, NEW n \in 0 .. MaxUint, History(s, n), NEW m \in 0 .. n
  PROVE  m \in 0 .. MaxUint /\ History(s, m)
<1>1. m \in 0 .. MaxUint
  BY WidthType
<1>2. Agree(s, s, m)
  BY DEF Agree
<1>3. QED
  BY <1>1, <1>2, HistoryFrame

(* Core's pages are pages.                                                 *)
LEMMA PageOfShaped ==
  ASSUME NEW s, NEW n \in 0 .. MaxUint, History(s, n), NEW live, NEW window, RangeShaped(window), NEW before,
         NEW first \in Nat \ {0}, NEW last \in 0 .. n
  PROVE  PageShaped(PageOf(s, n, live, window, before, first, last))
<1> DEFINE p == PageOf(s, n, live, window, before, first, last)
           f == [i \in 1 .. last - first + 1 |-> EventAt(s, first + i - 1)]
<1>1. n \in Nat
  BY WidthType
<1>2. PageFields(p) /\ p.window = window /\ p.entries = f
  BY DEF PageOf, PageFields
<1>3. /\ p.predecessor.revision \in Nat /\ p.first.revision \in Nat /\ p.last.revision \in Nat
      /\ p.successor.revision \in Nat
  BY <1>1, PointShaped DEF PageOf
<1>4. p.pageSuccessor.revision \in Nat
  BY <1>1, PointShaped DEF PageOf, NoPoint
<1>5. EntriesShaped(f)
  <2>1. PICK m \in Nat : 1 .. m = 1 .. last - first + 1
    <3>1. CASE last - first + 1 \in Nat
      BY <3>1
    <3>2. CASE last - first + 1 \notin Nat
      <4>1. 1 .. 0 = 1 .. last - first + 1 /\ 0 \in Nat
        BY <3>2
      <4>2. QED
        BY <4>1
    <3>3. QED
      BY <3>1, <3>2
  <2>2. f = [k \in 1 .. m |-> f[k]]
    BY <2>1
  <2>3. ASSUME NEW k \in 1 .. m PROVE EntryShaped(f[k])
    <3>1. k \in 1 .. last - first + 1 /\ first + k - 1 \in 1 .. n
      BY <2>1, <1>1
    <3>2. f[k] = EventAt(s, first + k - 1) /\ EventFacts(s, first + k - 1)
      BY <3>1 DEF History
    <3>3. PICK r : r = first + k - 1
      OBVIOUS
    <3>4. EntryShaped(EventAt(s, r))
      <4>1. EventFacts(s, r)
        BY <3>2, <3>3
      <4>2. PICK e : e = EventAt(s, r)
        OBVIOUS
      <4>3. e = [revision |-> r, occurredAt |-> e.occurredAt, previousRoot |-> e.previousRoot,
              payloadSHA |-> e.payloadSHA, content |-> e.content, proofRoot |-> e.proofRoot, root |-> e.root,
              payload |-> e.payload]
        BY <4>1, <4>2 DEF EventFacts
      <4>4. e.revision = r
        BY <4>3
      <4>5. QED
        BY <4>2, <4>3, <4>4 DEF EntryShaped
    <3>5. QED
      BY <3>2, <3>3, <3>4
  <2>4. QED
    BY <2>2, <2>3 DEF EntriesShaped
<1>6. QED
  BY <1>2, <1>3, <1>4, <1>5 DEF PageShaped

(* So is the answer to a request.                                          *)
LEMMA CorePageShaped ==
  ASSUME NEW s, NEW n \in 0 .. MaxUint, History(s, n), NEW live, NEW from \in Int, NEW until \in Int,
         NEW after \in Nat, NEW limit \in Nat \ {0}
  PROVE  PageShaped(CorePage(s, n, live, from, until, after, limit))
<1>1. n \in Nat
  BY WidthType
<1>2. PICK k \in Nat, e \in Nat : WindowIs(s, n, from, until, k, e)
  BY <1>1, WindowExists
<1>3. /\ Cardinality({r \in 1 .. n : EventAt(s, r).occurredAt < from}) = k
      /\ Cardinality(Revisions(s, n, from, until)) = e - k
      /\ k \in 0 .. n /\ e \in 0 .. n /\ k <= e
  BY <1>2 DEF WindowIs, Skipped
<1>4. PICK first \in Nat \ {0} : first = IF after = 0 THEN k + 1 ELSE after + 1
  BY <1>3
<1>5. PICK last \in 0 .. n : last = IF first + limit - 1 < e THEN first + limit - 1 ELSE e
  BY <1>1, <1>3
<1>6. PICK window : window = IF e - k = 0 THEN NoRange ELSE [first |-> k + 1, last |-> e]
  OBVIOUS
<1>7. RangeShaped(window)
  BY <1>3, <1>6 DEF RangeShaped, NoRange
<1>8. k + (e - k) = e
  BY <1>3
<1>9. CorePage(s, n, live, from, until, after, limit) = PageOf(s, n, live, window, k, first, last)
  BY <1>3, <1>4, <1>5, <1>6, <1>8 DEF CorePage
<1>10. QED
  BY <1>7, <1>9, PageOfShaped

(* An entry may be replaced.                                               *)
LEMMA EntriesUpdated ==
  ASSUME NEW f, EntriesShaped(f), NEW i, NEW e, EntryShaped(e)
  PROVE  EntriesShaped([f EXCEPT ![i] = e])
<1>1. PICK m \in Nat : f = [k \in 1 .. m |-> f[k]] /\ \A k \in 1 .. m : EntryShaped(f[k])
  BY DEF EntriesShaped
<1>2. PICK g : g = [f EXCEPT ![i] = e]
  OBVIOUS
<1>3. g = [k \in 1 .. m |-> g[k]] /\ \A k \in 1 .. m : g[k] = f[k] \/ g[k] = e
  BY <1>1, <1>2
<1>4. QED
  BY <1>1, <1>2, <1>3 DEF EntriesShaped

(* The last entry may be dropped.                                          *)
LEMMA EntriesShortened ==
  ASSUME NEW f, EntriesShaped(f)
  PROVE  EntriesShaped(SubSeq(f, 1, Len(f) - 1))
<1>1. PICK m \in Nat : f = [k \in 1 .. m |-> f[k]] /\ \A k \in 1 .. m : EntryShaped(f[k])
  BY DEF EntriesShaped
<1>2. f \in Seq({f[k] : k \in 1 .. m}) /\ Len(f) = m
  BY <1>1
<1>3. CASE m = 0
  <2>1. SubSeq(f, 1, Len(f) - 1) = <<>>
    BY <1>2, <1>3, SubSeqEmpty
  <2>2. EntriesShaped(<<>>)
    <3>1. PICK g : g = <<>>
      OBVIOUS
    <3>2. g = [k \in 1 .. 0 |-> g[k]] /\ 0 \in Nat /\ \A k \in 1 .. 0 : EntryShaped(g[k])
      BY <3>1
    <3>3. EntriesShaped(g)
      BY <3>2 DEF EntriesShaped
    <3>4. QED
      BY <3>1, <3>3
  <2>3. QED
    BY <2>1, <2>2
<1>4. CASE m # 0
  <2>1. PICK l \in Nat : l = Len(f) - 1 /\ l < m
    BY <1>2, <1>4
  <2>2. PICK g : g = SubSeq(f, 1, l)
    OBVIOUS
  <2>3. Len(g) = l /\ g \in Seq({f[k] : k \in 1 .. m}) /\ \A k \in 1 .. l : g[k] = f[k]
    BY <1>2, <2>1, <2>2
  <2>4. g = [k \in 1 .. l |-> g[k]]
    BY <2>3
  <2>5. \A k \in 1 .. l : EntryShaped(g[k])
    BY <1>1, <2>1, <2>3
  <2>6. EntriesShaped(g)
    BY <2>1, <2>4, <2>5 DEF EntriesShaped
  <2>7. QED
    BY <2>1, <2>2, <2>6
<1>5. QED
  BY <1>3, <1>4

(* A retimed entry is an entry.                                            *)
LEMMA RetimedShaped ==
  ASSUME NEW e, EntryShaped(e), NEW t
  PROVE  EntryShaped(Retimed(e, t)) /\ EntryShaped(Uprooted(e)) /\ EntryShaped([e EXCEPT !.payload = t])
<1>1. EntryShaped(Retimed(e, t))
  <2>1. PICK c, r : Retimed(e, t) = [e EXCEPT !.occurredAt = t, !.content = c, !.root = r]
    BY DEF Retimed
  <2>2. QED
    BY <2>1 DEF EntryShaped
<1>2. EntryShaped(Uprooted(e))
  <2>1. PICK c, r : Uprooted(e) = [e EXCEPT !.proofRoot = c, !.root = r]
    BY DEF Uprooted
  <2>2. QED
    BY <2>1 DEF EntryShaped
<1>3. EntryShaped([e EXCEPT !.payload = t])
  BY DEF EntryShaped
<1>4. QED
  BY <1>1, <1>2, <1>3

(* A retimed point is a point.                                             *)
LEMMA RetimedPointShaped ==
  ASSUME NEW s, NEW n \in Nat, NEW r \in 1 .. n, NEW t
  PROVE  RetimedPoint(PointAt(s, n, r), t).revision \in Nat
<1>1. PICK x : x = PointAt(s, n, r)
  OBVIOUS
<1>2. x = [revision |-> r, occurredAt |-> x.occurredAt, payloadSHA |-> x.payloadSHA,
            previousRoot |-> x.previousRoot, content |-> x.content, proofRoot |-> x.proofRoot,
            root |-> x.root, inclusion |-> x.inclusion]
  BY <1>1 DEF PointAt
<1>3. PICK y : y = Retimed(x, t)
  OBVIOUS
<1>4. y.revision = r /\ DOMAIN y = DOMAIN x
  BY <1>2, <1>3 DEF Retimed
<1>5. RetimedPoint(x, t).revision = r
  BY <1>3, <1>4 DEF RetimedPoint
<1>6. QED
  BY <1>1, <1>5

(* A page stays one when a field changes.                                  *)
LEMMA SameShape ==
  ASSUME NEW p, PageShaped(p), NEW d
  PROVE  /\ \A w : RangeShaped(w) /\ d = [p EXCEPT !.window = w] => PageShaped(d)
         /\ \A x : d = [p EXCEPT !.page = x] => PageShaped(d)
         /\ \A x : d = [p EXCEPT !.next = x] => PageShaped(d)
         /\ \A x : d = [p EXCEPT !.hasMore = x] => PageShaped(d)
         /\ \A x : d = [p EXCEPT !.pinned = x] => PageShaped(d)
         /\ \A x : d = [p EXCEPT !.live = x] => PageShaped(d)
         /\ \A y : y.revision \in Nat /\ d = [p EXCEPT !.predecessor = y] => PageShaped(d)
         /\ \A y : y.revision \in Nat /\ d = [p EXCEPT !.first = y] => PageShaped(d)
         /\ \A y : y.revision \in Nat /\ d = [p EXCEPT !.last = y] => PageShaped(d)
         /\ \A y : y.revision \in Nat /\ d = [p EXCEPT !.successor = y] => PageShaped(d)
         /\ \A y : y.revision \in Nat /\ d = [p EXCEPT !.pageSuccessor = y] => PageShaped(d)
         /\ \A f : EntriesShaped(f) /\ d = [p EXCEPT !.entries = f] => PageShaped(d)
<1> USE DEF PageShaped, PageFields
<1>1. ASSUME NEW x, RangeShaped(x), d = [p EXCEPT !.window = x] PROVE PageShaped(d)
  BY <1>1
<1>2. ASSUME NEW x, d = [p EXCEPT !.page = x] PROVE PageShaped(d)
  BY <1>2
<1>3. ASSUME NEW x, d = [p EXCEPT !.next = x] PROVE PageShaped(d)
  BY <1>3
<1>4. ASSUME NEW x, d = [p EXCEPT !.hasMore = x] PROVE PageShaped(d)
  BY <1>4
<1>5. ASSUME NEW x, d = [p EXCEPT !.pinned = x] PROVE PageShaped(d)
  BY <1>5
<1>6. ASSUME NEW x, d = [p EXCEPT !.live = x] PROVE PageShaped(d)
  BY <1>6
<1>7. ASSUME NEW x, x.revision \in Nat, d = [p EXCEPT !.predecessor = x] PROVE PageShaped(d)
  BY <1>7
<1>8. ASSUME NEW x, x.revision \in Nat, d = [p EXCEPT !.first = x] PROVE PageShaped(d)
  BY <1>8
<1>9. ASSUME NEW x, x.revision \in Nat, d = [p EXCEPT !.last = x] PROVE PageShaped(d)
  BY <1>9
<1>10. ASSUME NEW x, x.revision \in Nat, d = [p EXCEPT !.successor = x] PROVE PageShaped(d)
  BY <1>10
<1>11. ASSUME NEW x, x.revision \in Nat, d = [p EXCEPT !.pageSuccessor = x] PROVE PageShaped(d)
  BY <1>11
<1>12. ASSUME NEW x, EntriesShaped(x), d = [p EXCEPT !.entries = x] PROVE PageShaped(d)
  BY <1>12
<1> HIDE DEF PageShaped, PageFields
<1>13. QED
  BY <1>1, <1>2, <1>3, <1>4, <1>5, <1>6, <1>7, <1>8, <1>9, <1>10, <1>11, <1>12

(* The points a damaged answer may carry.                                  *)
DamagedPoints(s, n) ==
  {NoPoint} \cup {PointAt(s, n, r) : r \in 1 .. n}
            \cup {RetimedPoint(x, t) : x \in {PointAt(s, n, r) : r \in 1 .. n}, t \in Times}

(* They have a revision.                                                   *)
LEMMA DamagedPointShaped ==
  ASSUME NEW s, NEW n \in Nat, NEW y \in DamagedPoints(s, n)
  PROVE  y.revision \in Nat
<1>1. CASE y = NoPoint
  BY <1>1 DEF NoPoint
<1>2. CASE \E r \in 1 .. n : y = PointAt(s, n, r)
  BY <1>2, PointShaped
<1>3. CASE \E r \in 1 .. n : \E t : y = RetimedPoint(PointAt(s, n, r), t)
  BY <1>3, RetimedPointShaped
<1>4. QED
  BY <1>1, <1>2, <1>3 DEF DamagedPoints

(* The ranges a damaged answer may carry.                                  *)
DamagedRanges(n) == {NoRange} \cup {[first |-> r[1], last |-> r[2]] : r \in (1 .. n) \X (1 .. n)}

(* They are ranges.                                                        *)
LEMMA DamagedRangeShaped ==
  ASSUME NEW n \in Nat, NEW w \in DamagedRanges(n)
  PROVE  RangeShaped(w)
<1>1. CASE w = NoRange
  BY <1>1 DEF NoRange, RangeShaped
<1>2. CASE w # NoRange
  <2>1. PICK r \in (1 .. n) \X (1 .. n) : w = [first |-> r[1], last |-> r[2]]
    BY <1>2 DEF DamagedRanges
  <2>2. w.first = r[1] /\ w.last = r[2] /\ r[1] \in 1 .. n /\ r[2] \in 1 .. n
    BY <2>1
  <2>3. QED
    <3>1. w = [first |-> w.first, last |-> w.last]
      BY <2>1
    <3>2. QED
      BY <2>2, <3>1 DEF RangeShaped
<1>3. QED
  BY <1>1, <1>2

(* A damaged answer is a page.                                             *)
LEMMA DamagedPageShaped ==
  ASSUME NEW s, NEW p, PageShaped(p), p.pinned.revision \in 0 .. MaxUint, History(s, p.pinned.revision),
         NEW d \in Damaged(s, p)
  PROVE  PageShaped(d)
<1> DEFINE n == p.pinned.revision
           ranges == DamagedRanges(n)
           points == DamagedPoints(s, n)
<1>0. n \in Nat /\ n \in 0 .. MaxUint /\ History(s, n)
  BY WidthType
<1>2. EntriesShaped(p.entries) /\ RangeShaped(p.window)
  BY DEF PageShaped
<1>3. \A w \in ranges : RangeShaped(w)
  BY <1>0, DamagedRangeShaped
<1>4. \A y \in points : y.revision \in Nat
  BY <1>0, DamagedPointShaped
<1>5. RangeShaped(NoRange) /\ NoPoint.revision \in Nat
  BY DEF RangeShaped, NoRange, NoPoint
<1>5a. Damaged(s, p) =
        {[p EXCEPT !.window = r] : r \in ranges}
        \cup {[p EXCEPT !.page = r] : r \in ranges}
        \cup {[p EXCEPT !.next = r] : r \in 0..n}
        \cup {[p EXCEPT !.hasMore = ~@]}
        \cup {[p EXCEPT !.predecessor = x] : x \in points}
        \cup {[p EXCEPT !.first = x] : x \in points}
        \cup {[p EXCEPT !.last = x] : x \in points}
        \cup {[p EXCEPT !.successor = x] : x \in points}
        \cup {[p EXCEPT !.pageSuccessor = x] : x \in points}
        \cup {[p EXCEPT !.pinned = h] : h \in IssuedHeads}
        \cup {[p EXCEPT !.live = h] : h \in IssuedHeads}
        \cup {[p EXCEPT !.entries[i].payload = "other"] : i \in DOMAIN p.entries}
        \cup {[p EXCEPT !.entries[i] = Uprooted(@)] : i \in DOMAIN p.entries}
        \cup {[p EXCEPT !.entries[i] = Retimed(@, t)] : i \in DOMAIN p.entries, t \in Times}
        \cup {[p EXCEPT !.entries = SubSeq(@, 1, Len(@) - 1)]}
        \cup {PageOf(s, n, p.live.revision, p.window, p.predecessor.revision, first, last) :
                first \in 1 .. n, last \in 0 .. n}
  BY DEF Damaged, DamagedRanges, DamagedPoints
<1> HIDE DEF ranges, points, n
<1>a. CASE d \in {[p EXCEPT !.window = x] : x \in ranges}
  BY <1>a, SameShape, <1>3
<1>b. CASE d \in {[p EXCEPT !.page = x] : x \in ranges}
  BY <1>b, SameShape
<1>c. CASE d \in {[p EXCEPT !.next = x] : x \in 0 .. n}
  BY <1>c, SameShape
<1>e. CASE d \in {[p EXCEPT !.predecessor = x] : x \in points}
  BY <1>e, SameShape, <1>4
<1>f. CASE d \in {[p EXCEPT !.first = x] : x \in points}
  BY <1>f, SameShape, <1>4
<1>g. CASE d \in {[p EXCEPT !.last = x] : x \in points}
  BY <1>g, SameShape, <1>4
<1>h. CASE d \in {[p EXCEPT !.successor = x] : x \in points}
  BY <1>h, SameShape, <1>4
<1>i. CASE d \in {[p EXCEPT !.pageSuccessor = x] : x \in points}
  BY <1>i, SameShape, <1>4
<1>j. CASE d \in {[p EXCEPT !.pinned = x] : x \in IssuedHeads}
  BY <1>j, SameShape
<1>k. CASE d \in {[p EXCEPT !.live = x] : x \in IssuedHeads}
  BY <1>k, SameShape
<1>l. CASE d = [p EXCEPT !.hasMore = ~@]
  <2>1. PICK x : d = [p EXCEPT !.hasMore = x]
    BY <1>l
  <2>2. QED
    BY <2>1, SameShape
<1>10. ASSUME NEW f, EntriesShaped(f), d = [p EXCEPT !.entries = f] PROVE PageShaped(d)
  BY <1>10, SameShape
<1>11. \A i \in DOMAIN p.entries : EntryShaped(p.entries[i])
  BY <1>2 DEF EntriesShaped
<1>12. ASSUME NEW i \in DOMAIN p.entries, NEW e, EntryShaped(e), d = [p EXCEPT !.entries = [p.entries EXCEPT ![i] = e]]
       PROVE  PageShaped(d)
  BY <1>2, <1>10, <1>12, EntriesUpdated
<1>13. ASSUME NEW i \in DOMAIN p.entries, d = [p EXCEPT !.entries[i].payload = "other"] PROVE PageShaped(d)
  <2>1. PICK e : e = [p.entries[i] EXCEPT !.payload = "other"]
    OBVIOUS
  <2>2. EntryShaped(e)
    BY <2>1, <1>11, RetimedShaped
  <2>3. d = [p EXCEPT !.entries = [p.entries EXCEPT ![i] = e]]
    BY <2>1, <1>13
  <2>4. QED
    BY <2>2, <2>3, <1>12
<1>14. ASSUME NEW i \in DOMAIN p.entries, d = [p EXCEPT !.entries[i] = Uprooted(@)] PROVE PageShaped(d)
  <2>1. PICK e : e = Uprooted(p.entries[i])
    OBVIOUS
  <2>2. EntryShaped(e)
    BY <2>1, <1>11, RetimedShaped
  <2>3. d = [p EXCEPT !.entries = [p.entries EXCEPT ![i] = e]]
    BY <2>1, <1>14
  <2>4. QED
    BY <2>2, <2>3, <1>12
<1>15. ASSUME NEW i \in DOMAIN p.entries, NEW t \in Times, d = [p EXCEPT !.entries[i] = Retimed(@, t)] PROVE PageShaped(d)
  <2>1. PICK e : e = Retimed(p.entries[i], t)
    OBVIOUS
  <2>2. EntryShaped(e)
    BY <2>1, <1>11, RetimedShaped
  <2>3. d = [p EXCEPT !.entries = [p.entries EXCEPT ![i] = e]]
    BY <2>1, <1>15
  <2>4. QED
    BY <2>2, <2>3, <1>12
<1>16. ASSUME d = [p EXCEPT !.entries = SubSeq(@, 1, Len(@) - 1)] PROVE PageShaped(d)
  <2>1. EntriesShaped(SubSeq(p.entries, 1, Len(p.entries) - 1))
    BY <1>2, EntriesShortened
  <2>2. QED
    BY <2>1, <1>10, <1>16
<1>17. ASSUME NEW first \in 1 .. n, NEW last \in 0 .. n,
              d = PageOf(s, n, p.live.revision, p.window, p.predecessor.revision, first, last)
       PROVE  PageShaped(d)
  <2>1. first \in Nat \ {0}
    BY <1>0
  <2>2. QED
    BY <2>1, <1>0, <1>2, <1>17, PageOfShaped
<1>18. CASE \/ d \in {[p EXCEPT !.entries[i].payload = "other"] : i \in DOMAIN p.entries}
            \/ d \in {[p EXCEPT !.entries[i] = Uprooted(@)] : i \in DOMAIN p.entries}
  BY <1>13, <1>14, <1>18
<1>19. CASE d \in {[p EXCEPT !.entries[i] = Retimed(@, t)] : i \in DOMAIN p.entries, t \in Times}
  BY <1>15, <1>19
<1>20. CASE d \in {PageOf(s, n, p.live.revision, p.window, p.predecessor.revision, first, last) :
                     first \in 1 .. n, last \in 0 .. n}
  BY <1>17, <1>20
<1>21. QED
  BY <1>5a, <1>a, <1>b, <1>c, <1>e, <1>f, <1>g, <1>h, <1>i, <1>j, <1>k, <1>l, <1>16, <1>18, <1>19, <1>20

(* The fields of a request.                                                *)
RequestShaped(q) ==
  /\ q = [from |-> q.from, until |-> q.until, limit |-> q.limit, pinned |-> q.pinned, after |-> q.after,
          window |-> q.window, previousRoot |-> q.previousRoot, minimumLive |-> q.minimumLive]
  /\ q.from \in Int /\ q.until \in Int /\ q.limit \in Nat /\ q.after \in Nat

(* The prefix Core answers for.                                            *)
LEMMA RightAnswerIs ==
  ASSUME NEW s, Canonical(s), HeadOf(s) # NoHead, NEW q, RequestShaped(q), Knows(s, q.pinned)
  PROVE  \E n \in 1 .. HeadOf(s).revision :
           /\ RightAnswer(s, q) = CorePage(s, n, HeadOf(s).revision, q.from, q.until, q.after, q.limit)
           /\ q.pinned # NoHead => q.pinned = HeadAt(s, n)
           /\ q.pinned = NoHead => n = HeadOf(s).revision
<1>1. PICK N \in Nat : N = HeadOf(s).revision /\ HeadOf(s) = HeadFor0(s, N)
  BY CanonicalHead
<1>2. N \in 1 .. N
  BY <1>1 DEF HeadFor0
<1>3. CASE q.pinned = NoHead
  BY <1>1, <1>2, <1>3 DEF RightAnswer
<1>4. CASE q.pinned # NoHead
  <2>1. PICK n \in 1 .. N : q.pinned = HeadAt(s, n)
    BY <1>1, <1>4 DEF Knows
  <2>2. q.pinned.revision = n
    BY <2>1, HeadFields
  <2>3. QED
    BY <1>1, <1>4, <2>1, <2>2 DEF RightAnswer
<1>5. QED
  BY <1>3, <1>4

(* Core pins the prefix it answers for.                                    *)
LEMMA CorePagePinned ==
  ASSUME NEW s, NEW n, NEW live, NEW from, NEW until, NEW after, NEW limit
  PROVE  CorePage(s, n, live, from, until, after, limit).pinned = HeadAt(s, n)
BY DEF CorePage, PageOf

(* Answers to other requests are pages.                                    *)
LEMMA MisdirectedShaped ==
  ASSUME StreamInv, MisdirectedAnswer
  PROVE  \E p : PageShaped(p) /\ RevisionStreamQuery(p)
<1>1. PICK s \in {store, lost} :
       \E n \in 1 .. HeadOf(s).revision, window \in Windows, limit \in Limits :
         \E live \in n .. HeadOf(s).revision, after \in 0 .. n - 1 :
           RevisionStreamQuery(CorePage(s, n, live, window[1], window[2], after, limit))
  BY DEF MisdirectedAnswer
<1>2. PICK n \in 1 .. HeadOf(s).revision, window \in Windows, limit \in Limits :
         \E live \in n .. HeadOf(s).revision, after \in 0 .. n - 1 :
           RevisionStreamQuery(CorePage(s, n, live, window[1], window[2], after, limit))
  BY <1>1
<1>3. PICK live \in n .. HeadOf(s).revision, after \in 0 .. n - 1 :
           RevisionStreamQuery(CorePage(s, n, live, window[1], window[2], after, limit))
  BY <1>2
<1>4. Canonical(s)
  BY DEF StreamInv
<1>5. PICK N : N = HeadOf(s).revision /\ N \in Nat /\ N \in 0 .. MaxUint /\ History(s, N)
  BY <1>4, CanonicalHead
<1>6. n \in 0 .. N /\ n \in Nat /\ after \in Nat
  BY <1>5
<1>7. n \in 0 .. MaxUint /\ History(s, n)
  BY <1>5, <1>6, HistoryShorter
<1>8. window[1] \in Int /\ window[2] \in Int /\ limit \in Nat \ {0}
  BY WindowsAssumption, LimitAssumption
<1>9. PageShaped(CorePage(s, n, live, window[1], window[2], after, limit))
  BY <1>6, <1>7, <1>8, CorePageShaped
<1>10. QED
  BY <1>3, <1>9

(* Damaged answers are pages.                                              *)
LEMMA DamagedShaped ==
  ASSUME StreamInv, RequestShaped(request), DamagedAnswer
  PROVE  \E p : PageShaped(p) /\ RevisionStreamQuery(p)
<1>1. PICK s \in {store, lost} :
       /\ HeadOf(s) # NoHead /\ Knows(s, request.pinned)
       /\ \E p \in Damaged(s, RightAnswer(s, request)) : RevisionStreamQuery(p)
  BY DEF DamagedAnswer
<1>2. PICK d \in Damaged(s, RightAnswer(s, request)) : RevisionStreamQuery(d)
  BY <1>1
<1>3. Canonical(s)
  BY DEF StreamInv
<1>4. PICK N : N = HeadOf(s).revision /\ N \in Nat /\ N \in 0 .. MaxUint /\ History(s, N)
  BY <1>3, CanonicalHead
<1>5. PICK n \in 1 .. N :
        RightAnswer(s, request) = CorePage(s, n, N, request.from, request.until, request.after, request.limit)
  BY <1>1, <1>3, <1>4, RightAnswerIs
<1>6. n \in 0 .. MaxUint /\ History(s, n)
  <2>1. n \in 0 .. N
    BY <1>4
  <2>2. QED
    BY <2>1, <1>4, HistoryShorter
<1>7. request.limit \in Nat \ {0} /\ request.after \in Nat /\ request.from \in Int /\ request.until \in Int
  BY <1>2 DEF RevisionStreamQuery, newRevisionStreamQueryRequest, RequestShaped
<1>8. PICK p : p = RightAnswer(s, request)
  OBVIOUS
<1>9. PageShaped(p)
  BY <1>5, <1>6, <1>7, <1>8, CorePageShaped
<1>10. p.pinned.revision = n
  BY <1>5, <1>8, CorePagePinned, HeadFields
<1>11. p.pinned.revision \in 0 .. MaxUint /\ History(s, p.pinned.revision) /\ d \in Damaged(s, p)
  BY <1>2, <1>6, <1>8, <1>10
<1>12. PageShaped(d)
  BY <1>9, <1>11, DamagedPageShaped
<1>13. QED
  BY <1>2, <1>12

(* What an accepted page does to the request.                              *)
Advanced(q, r, ph) ==
  /\ q.minimumLive # NoHead => Follows(r.minimumLive, q.minimumLive)
  /\ q.pinned # NoHead => r.pinned = q.pinned
  /\ ph = "open" => /\ r.after > q.after
                    /\ r.after < r.window.last
                    /\ q.after # 0 => r.window = q.window

(* The entries of an accepted page: revisions page.first to page.last.     *)
LEMMA PageRange ==
  ASSUME NEW q, NEW p, RequestShaped(q), PageShaped(p), newRevisionStreamQueryRequest(q),
         decodeRevisionStreamQueryPage(q, p), p.page # NoRange
  PROVE  /\ p.page.first \in Nat \ {0} /\ p.page.last \in Nat /\ p.page.first <= p.page.last
         /\ p.page.first > q.after
         /\ Len(p.entries) \in Nat \ {0}
<1>1. PICK m \in Nat : p.entries = [k \in 1 .. m |-> p.entries[k]]
  BY DEF PageShaped, EntriesShaped
<1>2. PICK f : f = p.entries
  OBVIOUS
<1>3. f = [k \in 1 .. m |-> f[k]]
  BY <1>1, <1>2
<1>4. f \in Seq({f[k] : k \in 1 .. m}) /\ Len(f) = m /\ DOMAIN f = 1 .. m
  BY <1>3
<1>5. f # <<>>
  BY <1>2 DEF decodeRevisionStreamQueryPage, PageInWindow
<1>6. m # 0
  <2>1. SUFFICES ASSUME m = 0 PROVE FALSE
    OBVIOUS
  <2>2. Len(f) = 0
    BY <1>4, <2>1
  <2>3. QED
    BY <2>2, <1>4, <1>5
<1>7. 1 \in DOMAIN f /\ m \in DOMAIN f
  BY <1>4, <1>6
<1>8. \A i \in DOMAIN f : f[i].revision \in 1 .. p.pinned.revision
  BY <1>2 DEF decodeRevisionStreamQueryPage
<1>9. f[1].revision \in Int /\ f[1].revision >= 1 /\ f[m].revision \in Int /\ f[m].revision >= 1
  BY <1>7, <1>8
<1>10. p.page = [first |-> f[1].revision, last |-> f[m].revision]
  BY <1>2, <1>4 DEF decodeRevisionStreamQueryPage, PageInWindow
<1>11. p.page.first = f[1].revision /\ p.page.last = f[m].revision
  BY <1>10
<1>12. p.page.first <= p.page.last
  BY DEF decodeRevisionStreamQueryPage, decodeRevisionStreamRange
<1>13. q.after # 0 => p.page.first = q.after + 1
  BY <1>2, <1>5 DEF decodeRevisionStreamQueryPage, verifyRevisionStreamQueryPage, PageFollowsCursor
<1>14. q.after \in Nat
  BY DEF RequestShaped
<1>15. QED
  BY <1>2, <1>4, <1>6, <1>9, <1>11, <1>12, <1>13, <1>14

(* An accepted page advances the request.                                  *)
LEMMA PageAdvances ==
  ASSUME RequestShaped(request), NEW p, PageShaped(p), RevisionStreamQuery(p)
  PROVE  /\ Advanced(request, request', phase')
         /\ RequestShaped(request')
<1>1. /\ newRevisionStreamQueryRequest(request) /\ decodeRevisionStreamQueryPage(request, p)
  BY DEF RevisionStreamQuery
<1>2. PICK q : q = request
  OBVIOUS
<1>3. RequestShaped(q) /\ newRevisionStreamQueryRequest(q) /\ decodeRevisionStreamQueryPage(q, p)
  BY <1>1, <1>2
<1>4. /\ q.minimumLive # NoHead => Follows(p.live, q.minimumLive)
      /\ q.pinned # NoHead => p.pinned = q.pinned
      /\ q.window # NoRange => p.window = q.window
      /\ q.after # 0 => q.window # NoRange
  BY <1>3 DEF decodeRevisionStreamQueryPage, LiveHeadChecked, newRevisionStreamQueryRequest
<1>5. CASE p.hasMore /\ \E limit \in Limits : request' = NextRequest(request, p, limit)
  <2>1. PICK limit \in Limits : request' = NextRequest(q, p, limit)
    BY <1>2, <1>5
  <2>2. PICK root : root = p.entries[Len(p.entries)].root
    OBVIOUS
  <2>3. request' = [from |-> q.from, until |-> q.until, limit |-> limit, pinned |-> p.pinned, after |-> p.next,
                    window |-> p.window, previousRoot |-> root, minimumLive |-> p.live]
    BY <1>3, <2>1, <2>2 DEF NextRequest, RequestShaped
  <2>4. p.page # NoRange /\ p.next = p.page.last /\ p.page.last < p.window.last
    BY <1>3, <1>5 DEF decodeRevisionStreamQueryPage, PageInWindow
  <2>5. p.page.first \in Nat \ {0} /\ p.page.last \in Nat /\ p.page.first <= p.page.last /\ p.page.first > q.after
    BY <1>3, <2>4, PageRange
  <2>6. limit \in Nat /\ q.from \in Int /\ q.until \in Int /\ q.after \in Nat
    BY <1>3, LimitAssumption DEF RequestShaped
  <2>7. p.next > q.after /\ p.next \in Nat /\ p.next < p.window.last
    BY <2>4, <2>5, <2>6
  <2>8. Advanced(q, request', phase')
    BY <1>4, <2>3, <2>7 DEF Advanced
  <2>9. RequestShaped(request')
    BY <2>3, <2>6, <2>7 DEF RequestShaped
  <2>10. QED
    BY <1>2, <2>8, <2>9
<1>6. CASE request' = [request EXCEPT !.pinned = p.pinned, !.minimumLive = p.live] /\ phase' = "done"
  <2>1. request' = [from |-> q.from, until |-> q.until, limit |-> q.limit, pinned |-> p.pinned, after |-> q.after,
                    window |-> q.window, previousRoot |-> q.previousRoot, minimumLive |-> p.live]
    BY <1>2, <1>3, <1>6 DEF RequestShaped
  <2>2. Advanced(q, request', phase')
    BY <1>4, <1>6, <2>1 DEF Advanced
  <2>3. RequestShaped(request')
    BY <1>3, <2>1 DEF RequestShaped
  <2>4. QED
    BY <1>2, <2>2, <2>3
<1>7. QED
  BY <1>5, <1>6 DEF RevisionStreamQuery

(* The stream's invariant and a request of the right shape.                *)
QueryInv == StreamInv /\ RequestShaped(request)

(* The reader does not touch the stream.                                   *)
LEMMA StreamKept ==
  ASSUME StreamInv, UNCHANGED streamVars
  PROVE  StreamInv'
BY DEF StreamInv, streamVars

(* A new request has the shape.                                            *)
LEMMA NewQueryShaped ==
  ASSUME NEW window \in Windows, NEW pinned, NEW limit \in Limits, NewQuery(window, pinned, limit)
  PROVE  RequestShaped(request')
<1>1. window[1] \in Int /\ window[2] \in Int /\ limit \in Nat
  BY WindowsAssumption, LimitAssumption
<1>2. request' = [from |-> window[1], until |-> window[2], limit |-> limit, pinned |-> pinned, after |-> 0,
                  window |-> NoRange, previousRoot |-> ZeroRoot, minimumLive |-> NoHead]
  BY DEF NewQuery, NoRequest
<1>3. QED
  BY <1>1, <1>2 DEF RequestShaped

(* Every answer that changes the reader is a page it accepted.             *)
LEMMA AnswerShaped ==
  ASSUME QueryInv, MisdirectedAnswer \/ DamagedAnswer
  PROVE  \E p : PageShaped(p) /\ RevisionStreamQuery(p)
BY MisdirectedShaped, DamagedShaped DEF QueryInv

(* QueryInv holds at first.                                                *)
LEMMA QueryInvInit ==
  ASSUME Init
  PROVE  QueryInv
<1>1. StreamInv
  BY StreamInvInit DEF Init
<1>2. RequestShaped(NoRequest)
  BY DEF RequestShaped, NoRequest
<1>3. QED
  BY <1>1, <1>2 DEF Init, ReaderInit, QueryInv

(* Every step keeps it.                                                    *)
LEMMA QueryInvStep ==
  ASSUME QueryInv, [Next]_vars
  PROVE  QueryInv'
<1> USE DEF QueryInv
<1>1. CASE StreamNext /\ UNCHANGED readerVars
  BY <1>1, StreamInvStep DEF readerVars
<1>2. CASE \E window \in Windows, pinned \in IssuedHeads, limit \in Limits : NewQuery(window, pinned, limit)
  <2>1. PICK window \in Windows, pinned \in IssuedHeads, limit \in Limits : NewQuery(window, pinned, limit)
    BY <1>2
  <2>2. RequestShaped(request')
    BY <2>1, NewQueryShaped
  <2>3. StreamInv'
    BY <2>1, StreamKept DEF NewQuery
  <2>4. QED
    BY <2>2, <2>3
<1>3. CASE MisdirectedAnswer \/ DamagedAnswer
  <2>1. PICK p : PageShaped(p) /\ RevisionStreamQuery(p)
    BY <1>3, AnswerShaped
  <2>2. RequestShaped(request')
    BY <2>1, PageAdvances
  <2>3. StreamInv'
    BY <2>1, StreamKept DEF RevisionStreamQuery
  <2>4. QED
    BY <2>2, <2>3
<1>4. CASE UNCHANGED vars
  BY <1>4, StreamKept DEF vars, readerVars
<1>5. QED
  BY <1>1, <1>2, <1>3, <1>4 DEF Next

(* It always holds.                                                        *)
LEMMA QueryInvariant == Spec => []QueryInv
BY QueryInvInit, QueryInvStep, PTL DEF Spec

(* An accepted page ends the query or moves the cursor forward inside an   *)
(* unchanged pinned window, and the live heads never go back, for any      *)
(* windows, limits and answers (NextRequest and the live-head checks,      *)
(* revision_stream.go:1074-1078, 1279).                                    *)
THEOREM PagesAdvance == Spec => QueryAdvances
<1>1. ASSUME QueryInv, [Next]_vars, phase = "open", readerVars' # readerVars
      PROVE  Advanced(request, request', phase')
  <2>1. CASE StreamNext /\ UNCHANGED readerVars
    BY <2>1, <1>1
  <2>2. CASE \E window \in Windows, pinned \in IssuedHeads, limit \in Limits : NewQuery(window, pinned, limit)
    BY <2>2, <1>1 DEF NewQuery
  <2>3. CASE MisdirectedAnswer \/ DamagedAnswer
    <3>1. PICK p : PageShaped(p) /\ RevisionStreamQuery(p)
      BY <2>3, <1>1, AnswerShaped
    <3>2. QED
      BY <3>1, <1>1, PageAdvances DEF QueryInv
  <2>4. CASE UNCHANGED vars
    BY <2>4, <1>1 DEF vars
  <2>5. QED
    BY <2>1, <2>2, <2>3, <2>4, <1>1 DEF Next
<1>2. ASSUME QueryInv, [Next]_vars
      PROVE  [phase = "open" /\ readerVars' # readerVars =>
               /\ request.minimumLive # NoHead => Follows(request'.minimumLive, request.minimumLive)
               /\ request.pinned # NoHead => request'.pinned = request.pinned
               /\ phase' = "open" => /\ request'.after > request.after
                                     /\ request'.after < request'.window.last
                                     /\ request.after # 0 => request'.window = request.window]_vars
  BY <1>1, <1>2 DEF Advanced
<1>3. QED
  BY <1>2, QueryInvariant, PTL DEF Spec, QueryAdvances

-----------------------------------------------------------------------------
(* Soundness: what an accepted page says is what the pinned stream holds.  *)

(* Only revisions of the pinned prefix have an inclusion proof.            *)
LEMMA VerifyRange ==
  ASSUME NEW s, NEW n \in 0 .. MaxUint, History(s, n), NEW r \in Nat, NEW content, NEW inc,
         verifyRevisionStreamInclusion(Stream, HeadAt(s, n), r, content, inc)
  PROVE  r \in 1 .. n /\ content = EventAt(s, r).content
<1>0. n \in Nat
  BY WidthType
<1>1. PICK i : i = inc.peakIndex
  OBVIOUS
<1>2. HeadAt(s, n).proof.peaks = PeaksOf(s, n)
  BY HeadFields
<1>3. PICK peaks : peaks = PeaksOf(s, n)
  OBVIOUS
<1>4. i \in DOMAIN peaks /\ r - peaks[i].startRevision \in 0 .. 2 ^ peaks[i].height - 1
  BY <1>1, <1>2, <1>3 DEF verifyRevisionStreamInclusion
<1>5. DOMAIN peaks = 1 .. Len(PeakSeq(n)) /\ i \in 1 .. Len(PeakSeq(n)) /\ PeakSeq(n)[i] \in PeakHeights(n)
  BY <1>0, <1>3, <1>4, PeaksOfType
<1>6. peaks[i].height = PeakSeq(n)[i] /\ peaks[i].startRevision = PeakStart(n, PeakSeq(n)[i])
  BY <1>3, <1>4 DEF PeaksOf
<1>7. PICK h \in PeakHeights(n) : h = PeakSeq(n)[i]
  BY <1>5
<1>8. <<h, PeakStart(n, h)>> \in Blocks(n)
  BY <1>0, PeakBlock
<1>9. PICK a \in Nat : a = PeakStart(n, h) /\ a \in 1 .. n /\ a + 2 ^ h - 1 <= n
  BY <1>0, <1>8 DEF Blocks
<1>10. h \in Nat /\ 2 ^ h \in Nat
  BY WidthType, Doubling DEF PeakHeights
<1>11. r - a \in 0 .. 2 ^ h - 1
  BY <1>4, <1>6, <1>7, <1>9
<1>12. r \in 1 .. n
  BY <1>0, <1>9, <1>10, <1>11
<1>13. content = EventAt(s, r).content
  <2>1. PICK j : Holds(n, r, j)
    BY <1>12, OnePeak
  <2>2. ExactInclusion(s, n, r, j, content, inc)
    BY <2>1, <1>12, VerifyExact
  <2>3. QED
    BY <2>2 DEF ExactInclusion
<1>14. QED
  BY <1>12, <1>13

(* The fields of an item that its content digest binds.                    *)
Genuine(s, n, x) ==
  /\ x.revision \in 1 .. n
  /\ x.occurredAt = Time(s, x.revision)
  /\ x.previousRoot = EventAt(s, x.revision).previousRoot
  /\ x.payloadSHA = EventAt(s, x.revision).payloadSHA
  /\ x.content = EventAt(s, x.revision).content

(* An item whose content is included carries the event's own fields.       *)
LEMMA ItemSound ==
  ASSUME NEW s, NEW n \in 0 .. MaxUint, History(s, n), NEW x, x.revision \in Nat, ItemDigests(Stream, x), NEW inc,
         verifyRevisionStreamInclusion(Stream, HeadAt(s, n), x.revision, x.content, inc)
  PROVE  Genuine(s, n, x)
<1>1. PICK r \in Nat : r = x.revision
  OBVIOUS
<1>2. r \in 1 .. n /\ x.content = EventAt(s, r).content
  BY <1>1, VerifyRange
<1>3. EventFacts(s, r)
  BY <1>2 DEF History
<1>4. PICK e : e = EventAt(s, r)
  OBVIOUS
<1>5. e.content = calculateRevisionStreamContent(Stream, e.previousRoot, r, e.occurredAt, e.payloadSHA)
  BY <1>3, <1>4 DEF EventFacts
<1>6. x.content = calculateRevisionStreamContent(Stream, x.previousRoot, r, x.occurredAt, x.payloadSHA)
  BY <1>1 DEF ItemDigests
<1>7. x.previousRoot = e.previousRoot /\ x.occurredAt = e.occurredAt /\ x.payloadSHA = e.payloadSHA
  BY <1>2, <1>4, <1>5, <1>6 DEF calculateRevisionStreamContent, revisionStreamHash
<1>8. QED
  BY <1>1, <1>2, <1>4, <1>7 DEF Genuine, Time

(* So does a verified point.                                               *)
LEMMA PointSound ==
  ASSUME NEW s, NEW n \in 0 .. MaxUint, History(s, n), NEW x, x.revision \in Nat,
         verifyRevisionStreamProofPoint(Stream, HeadAt(s, n), x)
  PROVE  Genuine(s, n, x)
<1>1. ItemDigests(Stream, x) /\ verifyRevisionStreamInclusion(Stream, HeadAt(s, n), x.revision, x.content, x.inclusion)
  BY DEF verifyRevisionStreamProofPoint
<1>2. PICK inc : inc = x.inclusion
  OBVIOUS
<1>3. QED
  BY <1>1, <1>2, ItemSound

(* An entry whose root is that of the event is the event.                  *)
LEMMA EntrySound ==
  ASSUME NEW s, NEW n \in 0 .. MaxUint, History(s, n), NEW x, EntryShaped(x), x.revision \in Nat, NEW inc,
         verifyRevisionStreamEntryInclusion(Stream, HeadAt(s, n), x, inc)
  PROVE  Genuine(s, n, x) /\ (x.root = EventAt(s, x.revision).root => x = EventAt(s, x.revision))
<1>1. ItemDigests(Stream, x) /\ verifyRevisionStreamInclusion(Stream, HeadAt(s, n), x.revision, x.content, inc)
      /\ x.payloadSHA = PayloadSHA(x.payload)
  BY DEF verifyRevisionStreamEntryInclusion
<1>2. Genuine(s, n, x)
  BY <1>1, ItemSound
<1>3. PICK r \in 1 .. n : r = x.revision
  BY <1>2 DEF Genuine
<1>4. EventFacts(s, r)
  BY <1>3 DEF History
<1>5. PICK e : e = EventAt(s, r)
  OBVIOUS
<1>6. /\ e = [revision |-> r, occurredAt |-> e.occurredAt, previousRoot |-> e.previousRoot,
              payloadSHA |-> e.payloadSHA, content |-> e.content, proofRoot |-> e.proofRoot, root |-> e.root,
              payload |-> e.payload]
      /\ e.payloadSHA = PayloadSHA(e.payload)
      /\ e.root = calculateRevisionStreamHeadRoot(Stream, r, e.occurredAt, e.content, e.proofRoot)
  BY <1>4, <1>5 DEF EventFacts
<1>7. /\ x.occurredAt = e.occurredAt /\ x.previousRoot = e.previousRoot /\ x.payloadSHA = e.payloadSHA
      /\ x.content = e.content
  BY <1>2, <1>3, <1>5 DEF Genuine, Time
<1>8. x.payload = e.payload
  BY <1>1, <1>6, <1>7 DEF PayloadSHA
<1>9. ASSUME x.root = e.root PROVE x = e
  <2>1. x.root = calculateRevisionStreamHeadRoot(Stream, r, x.occurredAt, x.content, x.proofRoot)
    BY <1>1, <1>3 DEF ItemDigests
  <2>2. x.proofRoot = e.proofRoot
    BY <2>1, <1>6, <1>7, <1>9 DEF calculateRevisionStreamHeadRoot, revisionStreamHash
  <2>3. x = [revision |-> x.revision, occurredAt |-> x.occurredAt, previousRoot |-> x.previousRoot,
       payloadSHA |-> x.payloadSHA, content |-> x.content, proofRoot |-> x.proofRoot, root |-> x.root,
       payload |-> x.payload]
    BY DEF EntryShaped
  <2>4. QED
    BY <2>2, <2>3, <1>3, <1>6, <1>7, <1>8, <1>9
<1>10. QED
  BY <1>2, <1>3, <1>5, <1>9

(* The entries of an accepted page, in order.                              *)
Chained(s, n, q, p, m) ==
  /\ p.entries = [i \in 1 .. m |-> p.entries[i]]
  /\ \A i \in 1 .. m : /\ EntryShaped(p.entries[i])
                       /\ Genuine(s, n, p.entries[i])
                       /\ p.entries[i].root = EventAt(s, p.entries[i].revision).root
                            => p.entries[i] = EventAt(s, p.entries[i].revision)
  /\ \A i \in 2 .. m : /\ p.entries[i - 1].revision + 1 = p.entries[i].revision
                       /\ p.entries[i].previousRoot = p.entries[i - 1].root

(* The entries of an accepted page are chained and included.               *)
LEMMA PageChained ==
  ASSUME NEW s, NEW n \in 0 .. MaxUint, History(s, n), NEW q, NEW p, PageShaped(p), p.pinned = HeadAt(s, n),
         decodeRevisionStreamQueryPage(q, p)
  PROVE  \E m \in Nat : Len(p.entries) = m /\ Chained(s, n, q, p, m)
<1>0. n \in Nat
  BY WidthType
<1>1. PICK m \in Nat : p.entries = [i \in 1 .. m |-> p.entries[i]] /\ \A i \in 1 .. m : EntryShaped(p.entries[i])
  BY DEF PageShaped, EntriesShaped
<1>2. PICK f : f = p.entries
  OBVIOUS
<1>3. f = [i \in 1 .. m |-> f[i]] /\ \A i \in 1 .. m : EntryShaped(f[i])
  BY <1>1, <1>2
<1>4. f \in Seq({f[i] : i \in 1 .. m}) /\ Len(f) = m /\ DOMAIN f = 1 .. m
  BY <1>3
<1>5. \A i \in 1 .. m : f[i].revision \in 1 .. p.pinned.revision
  BY <1>2, <1>4 DEF decodeRevisionStreamQueryPage
<1>6. \A i \in 1 .. m : f[i].revision \in Nat
  <2>1. p.pinned.revision = n
    BY HeadFields
  <2>2. QED
    BY <2>1, <1>5, <1>0
<1>7. verifyRevisionStreamQueryPage(q, p)
  BY DEF decodeRevisionStreamQueryPage
<1>8. \A i \in 1 .. m : /\ i > 1 => /\ f[i - 1].revision + 1 = f[i].revision
                                    /\ f[i].previousRoot = f[i - 1].root
                        /\ verifyRevisionStreamEntryInclusion(Stream, HeadAt(s, n), f[i], p.entryProofs[i])
  BY <1>2, <1>4, <1>7 DEF verifyRevisionStreamQueryPage, EntriesChained
<1>9. ASSUME NEW i \in 1 .. m
      PROVE  Genuine(s, n, f[i]) /\ (f[i].root = EventAt(s, f[i].revision).root => f[i] = EventAt(s, f[i].revision))
  <2>1. PICK x, inc : x = f[i] /\ inc = p.entryProofs[i]
    OBVIOUS
  <2>2. EntryShaped(x) /\ x.revision \in Nat /\ verifyRevisionStreamEntryInclusion(Stream, HeadAt(s, n), x, inc)
    BY <2>1, <1>3, <1>6, <1>8
  <2>3. Genuine(s, n, x) /\ (x.root = EventAt(s, x.revision).root => x = EventAt(s, x.revision))
    BY <2>2, EntrySound
  <2>4. QED
    BY <2>1, <2>3
<1>10. \A i \in 2 .. m : i \in 1 .. m /\ i > 1
  OBVIOUS
<1>11. QED
  BY <1>2, <1>3, <1>4, <1>8, <1>9, <1>10 DEF Chained

(* Their roots are vouched for by the next entry, point or head, so that   *)
(* they are the events themselves.                                         *)
EntriesFrom(s, n, p, a, m) ==
  /\ a + m \in 1 .. n /\ a + m \in Nat
  /\ p.page.first = a + 1 /\ p.page.last = a + m
  /\ p.entries = [i \in 1 .. m |-> EventAt(s, a + i)]

(* The entries of an accepted page are the stream's events.                *)
LEMMA EntriesAreEvents ==
  ASSUME NEW s, NEW n \in 0 .. MaxUint, History(s, n), NEW q, NEW p, PageShaped(p), p.pinned = HeadAt(s, n),
         decodeRevisionStreamQueryPage(q, p), NEW m \in Nat, Len(p.entries) = m, Chained(s, n, q, p, m), m # 0
  PROVE  \E a \in 0 .. n : EntriesFrom(s, n, p, a, m)
<1>0. n \in Nat
  BY WidthType
<1>1. PICK f : f = p.entries
  OBVIOUS
<1>2. /\ f = [i \in 1 .. m |-> f[i]] /\ Len(f) = m
      /\ \A i \in 1 .. m : /\ Genuine(s, n, f[i]) /\ f[i].revision \in 1 .. n /\ f[i].revision \in Nat
                           /\ f[i].previousRoot = EventAt(s, f[i].revision).previousRoot
                           /\ f[i].root = EventAt(s, f[i].revision).root => f[i] = EventAt(s, f[i].revision)
      /\ \A i \in 2 .. m : f[i - 1].revision + 1 = f[i].revision /\ f[i].previousRoot = f[i - 1].root
  <2>1. /\ f = [i \in 1 .. m |-> f[i]] /\ Len(f) = m
        /\ \A i \in 1 .. m : /\ Genuine(s, n, f[i])
                             /\ f[i].root = EventAt(s, f[i].revision).root => f[i] = EventAt(s, f[i].revision)
        /\ \A i \in 2 .. m : f[i - 1].revision + 1 = f[i].revision /\ f[i].previousRoot = f[i - 1].root
    BY <1>1 DEF Chained
  <2>2. \A x : Genuine(s, n, x) => /\ x.revision \in 1 .. n /\ x.revision \in Nat
                                   /\ x.previousRoot = EventAt(s, x.revision).previousRoot
    BY <1>0 DEF Genuine
  <2>3. QED
    BY <2>1, <2>2
<1>3. PICK a \in 0 .. n : a + 1 = f[1].revision
  <2>1. 1 \in 1 .. m
    OBVIOUS
  <2>2. f[1].revision - 1 \in 0 .. n /\ (f[1].revision - 1) + 1 = f[1].revision
    BY <2>1, <1>2, <1>0
  <2>3. QED
    BY <2>2
<1>4. \A i \in 1 .. m : f[i].revision = a + i
  <2> DEFINE Bad == {i \in 1 .. m : f[i].revision # a + i}
  <2>1. Bad = {}
    <3>1. SUFFICES ASSUME Bad # {} PROVE FALSE
      OBVIOUS
    <3>2. PICK i \in Bad : \A j \in Bad : i <= j
      <4>1. Bad \subseteq Nat
        OBVIOUS
      <4> HIDE DEF Bad
      <4>2. QED
        BY <3>1, <4>1, LeastNat
    <3>3. i \in 1 .. m /\ i # 1 /\ f[i].revision # a + i
      BY <1>3
    <3>4. i \in 2 .. m /\ i - 1 \in 1 .. m /\ i - 1 < i
      BY <3>3
    <3>5. i - 1 \notin Bad
      BY <3>2, <3>3, <3>4
    <3>6. f[i - 1].revision = a + (i - 1)
      BY <3>4, <3>5
    <3>7. f[i].revision = f[i - 1].revision + 1
      BY <3>4, <1>2
    <3>8. QED
      BY <3>3, <3>6, <3>7
  <2>2. QED
    BY <2>1
<1>5. \A r \in 2 .. n : EventAt(s, r).previousRoot = EventAt(s, r - 1).root
  <2>1. ASSUME NEW r \in 2 .. n PROVE EventAt(s, r).previousRoot = EventAt(s, r - 1).root
    <3>1. r \in 1 .. n /\ r - 1 # 0
      OBVIOUS
    <3>2. EventFacts(s, r)
      BY <3>1 DEF History
    <3>3. QED
      BY <3>1, <3>2 DEF EventFacts, PreviousRoot
  <2>2. QED
    BY <2>1
<1>6. ASSUME NEW i \in 1 .. m, i # m PROVE f[i].root = EventAt(s, a + i).root
  <2>1. PICK j \in 2 .. m : j = i + 1 /\ j - 1 = i
    <3>1. i + 1 \in 2 .. m /\ (i + 1) - 1 = i
      BY <1>6
    <3>2. QED
      BY <3>1
  <2>2. f[j].previousRoot = f[i].root
    BY <2>1, <1>2
  <2>3. j \in 1 .. m /\ f[j].revision = a + j /\ f[j].revision \in 1 .. n
    BY <2>1, <1>2, <1>4
  <2>4. PICK r \in 2 .. n : r = a + j /\ r - 1 = a + i
    <3>1. a + j \in 2 .. n /\ (a + j) - 1 = a + i
      BY <2>1, <2>3
    <3>2. QED
      BY <3>1
  <2>5. EventAt(s, r).previousRoot = EventAt(s, r - 1).root
    BY <1>5
  <2>6. f[j].previousRoot = EventAt(s, r).previousRoot
    BY <2>3, <2>4, <1>2
  <2>7. QED
    BY <2>2, <2>4, <2>5, <2>6
<1>7. m \in 1 .. m /\ f[m].revision = a + m /\ a + m \in 1 .. n
  <2>1. m \in 1 .. m
    OBVIOUS
  <2>2. QED
    BY <2>1, <1>2, <1>4
<1>8. f[m].root = EventAt(s, a + m).root
  <2>1. f # <<>>
    BY <1>2
  <2>2. TailAuthenticated(p)
    BY DEF decodeRevisionStreamQueryPage, verifyRevisionStreamQueryPage
  <2>3. IF f[m].revision = p.pinned.revision
        THEN p.pageSuccessor = NoPoint /\ f[m].root = p.pinned.root
        ELSE p.pageSuccessor.revision = f[m].revision + 1 /\ p.pageSuccessor.previousRoot = f[m].root
    BY <2>1, <2>2, <1>1, <1>2 DEF TailAuthenticated
  <2>4. p.pinned.revision = n /\ p.pinned.root = EventAt(s, n).root
    BY HeadFields
  <2>5. CASE f[m].revision = n
    BY <2>3, <2>4, <2>5, <1>7
  <2>6. CASE f[m].revision # n
    <3>1. p.pageSuccessor.revision = a + m + 1 /\ p.pageSuccessor.previousRoot = f[m].root
      BY <2>3, <2>4, <2>6, <1>7
    <3>2. p.pageSuccessor # NoPoint /\ p.pageSuccessor.revision \in Nat
      BY <3>1, <1>7 DEF NoPoint, PageShaped
    <3>3. verifyRevisionStreamProofPoint(Stream, p.pinned, p.pageSuccessor)
      <4>1. verifyRevisionStreamQueryPage(q, p)
        BY DEF decodeRevisionStreamQueryPage
      <4>2. PICK points : points = <<p.predecessor, p.first, p.last, p.successor, p.pageSuccessor>>
        OBVIOUS
      <4>3. \A i \in DOMAIN points : points[i] # NoPoint => verifyRevisionStreamProofPoint(Stream, p.pinned, points[i])
        BY <4>1, <4>2 DEF verifyRevisionStreamQueryPage
      <4>4. 5 \in DOMAIN points /\ points[5] = p.pageSuccessor
        BY <4>2
      <4>5. QED
        BY <4>3, <4>4, <3>2
    <3>4. PICK x : x = p.pageSuccessor
      OBVIOUS
    <3>5. Genuine(s, n, x)
      BY <3>2, <3>3, <3>4, PointSound
    <3>6. PICK r \in 2 .. n : r = x.revision /\ r - 1 = a + m
      <4>1. x.revision \in 1 .. n /\ x.revision = a + m + 1
        BY <3>1, <3>4, <3>5 DEF Genuine
      <4>2. x.revision \in 2 .. n /\ x.revision - 1 = a + m
        BY <4>1, <1>7
      <4>3. QED
        BY <4>2
    <3>7. x.previousRoot = EventAt(s, r).previousRoot
      BY <3>5, <3>6 DEF Genuine
    <3>8. QED
      BY <3>1, <3>4, <3>6, <3>7, <1>5
  <2>7. QED
    BY <2>5, <2>6
<1>9. \A i \in 1 .. m : f[i] = EventAt(s, a + i)
  BY <1>2, <1>4, <1>6, <1>8
<1>10. f = [i \in 1 .. m |-> EventAt(s, a + i)]
  BY <1>2, <1>9
<1>11. p.page = [first |-> f[1].revision, last |-> f[m].revision]
  <2>1. f # <<>>
    BY <1>2
  <2>2. QED
    BY <2>1, <1>1, <1>2 DEF decodeRevisionStreamQueryPage, PageInWindow
<1>12. p.page.first = a + 1 /\ p.page.last = a + m
  BY <1>3, <1>7, <1>11
<1>13. QED
  BY <1>0, <1>1, <1>7, <1>10, <1>12 DEF EntriesFrom

(* The points of an accepted page are those of its pinned stream.          *)
LEMMA PagePoints ==
  ASSUME NEW s, NEW n \in 0 .. MaxUint, History(s, n), NEW q, NEW p, PageShaped(p), p.pinned = HeadAt(s, n),
         decodeRevisionStreamQueryPage(q, p)
  PROVE  /\ p.predecessor # NoPoint => Genuine(s, n, p.predecessor)
         /\ p.first # NoPoint => Genuine(s, n, p.first)
         /\ p.last # NoPoint => Genuine(s, n, p.last)
         /\ p.successor # NoPoint => Genuine(s, n, p.successor)
<1>1. verifyRevisionStreamQueryPage(q, p)
  BY DEF decodeRevisionStreamQueryPage
<1>2. PICK points : points = <<p.predecessor, p.first, p.last, p.successor, p.pageSuccessor>>
  OBVIOUS
<1>3. \A i \in DOMAIN points : points[i] # NoPoint => verifyRevisionStreamProofPoint(Stream, p.pinned, points[i])
  BY <1>1, <1>2 DEF verifyRevisionStreamQueryPage
<1>4. /\ 1 \in DOMAIN points /\ points[1] = p.predecessor /\ 2 \in DOMAIN points /\ points[2] = p.first
      /\ 3 \in DOMAIN points /\ points[3] = p.last /\ 4 \in DOMAIN points /\ points[4] = p.successor
  BY <1>2
<1>5. \A i \in 1 .. 4 : points[i].revision \in Nat
  <2>1. p.predecessor.revision \in Nat /\ p.first.revision \in Nat /\ p.last.revision \in Nat
        /\ p.successor.revision \in Nat
    BY DEF PageShaped
  <2>2. QED
    BY <1>4, <2>1
<1>6. ASSUME NEW i \in 1 .. 4, i \in DOMAIN points, points[i] # NoPoint PROVE Genuine(s, n, points[i])
  <2>1. PICK x : x = points[i]
    OBVIOUS
  <2>2. x.revision \in Nat
    BY <2>1, <1>5
  <2>3. verifyRevisionStreamProofPoint(Stream, HeadAt(s, n), x)
    BY <2>1, <1>3, <1>6
  <2>4. Genuine(s, n, x)
    BY <2>2, <2>3, PointSound
  <2>5. QED
    BY <2>1, <2>4
<1>7. 1 \in 1 .. 4 /\ 2 \in 1 .. 4 /\ 3 \in 1 .. 4 /\ 4 \in 1 .. 4
  OBVIOUS
<1>8. QED
  BY <1>4, <1>6, <1>7

(* Two neighbouring revisions outside a time range enclose it.             *)
LEMMA Bracketed ==
  ASSUME NEW s, NEW n \in Nat, History(s, n), NEW from \in Int, NEW until \in Int, from < until,
         NEW k \in 0 .. n, NEW e \in 0 .. n, k <= e,
         k # 0 => Time(s, k) < from, e # n => Time(s, e + 1) >= until,
         k # e => from <= Time(s, k + 1) /\ Time(s, e) < until
  PROVE  WindowIs(s, n, from, until, k, e)
<1>1. /\ \A r \in 1 .. n : Time(s, r) \in Int
      /\ \A i, j \in 1 .. n : i <= j => Time(s, i) <= Time(s, j)
  BY TimesOrdered
<1>2. ASSUME NEW r \in 1 .. n, r <= k PROVE Time(s, r) < from /\ Time(s, r) < until
  <2>1. k \in 1 .. n /\ k # 0
    BY <1>2
  <2>2. Time(s, r) <= Time(s, k) /\ Time(s, r) \in Int /\ Time(s, k) \in Int
    BY <2>1, <1>1, <1>2
  <2>3. QED
    BY <2>1, <2>2
<1>3. ASSUME NEW r \in 1 .. n, k < r, r <= e PROVE from <= Time(s, r) /\ Time(s, r) < until
  <2>1. k + 1 \in 1 .. n /\ e \in 1 .. n /\ k # e /\ k + 1 <= r
    BY <1>3
  <2>2. /\ Time(s, k + 1) <= Time(s, r) /\ Time(s, r) <= Time(s, e)
        /\ Time(s, r) \in Int /\ Time(s, k + 1) \in Int /\ Time(s, e) \in Int
    BY <2>1, <1>1, <1>3
  <2>3. QED
    BY <2>1, <2>2
<1>4. ASSUME NEW r \in 1 .. n, e < r PROVE from <= Time(s, r) /\ until <= Time(s, r)
  <2>1. e + 1 \in 1 .. n /\ e # n /\ e + 1 <= r
    BY <1>4
  <2>2. Time(s, e + 1) <= Time(s, r) /\ Time(s, r) \in Int /\ Time(s, e + 1) \in Int
    BY <2>1, <1>1
  <2>3. QED
    BY <2>1, <2>2
<1>5. \A r \in 1 .. n : Time(s, r) < from <=> r <= k
  <2>1. ASSUME NEW r \in 1 .. n PROVE Time(s, r) < from <=> r <= k
    <3>1. Time(s, r) \in Int
      BY <1>1
    <3>2. CASE r <= k
      BY <3>2, <1>2
    <3>3. CASE k < r
      <4>1. from <= Time(s, r)
        BY <3>3, <1>3, <1>4
      <4>2. QED
        BY <3>1, <3>3, <4>1
    <3>4. QED
      BY <3>2, <3>3
  <2>2. QED
    BY <2>1
<1>6. \A r \in 1 .. n : from <= Time(s, r) /\ Time(s, r) < until <=> k < r /\ r <= e
  <2>1. ASSUME NEW r \in 1 .. n PROVE from <= Time(s, r) /\ Time(s, r) < until <=> k < r /\ r <= e
    <3>1. Time(s, r) \in Int
      BY <1>1
    <3>2. CASE r <= k
      BY <3>1, <3>2, <1>2
    <3>3. CASE k < r /\ r <= e
      BY <3>1, <3>3, <1>3
    <3>4. CASE e < r
      BY <3>1, <3>4, <1>4
    <3>5. QED
      BY <3>2, <3>3, <3>4
  <2>2. QED
    BY <2>1
<1>7. QED
  BY <1>5, <1>6, WindowCounts

(* What the brackets of an accepted page establish.                        *)
PageWindow(s, n, q, p, k, e) ==
  /\ WindowIs(s, n, q.from, q.until, k, e)
  /\ p.window = NoRange => k = e
  /\ p.window # NoRange => p.window = [first |-> k + 1, last |-> e] /\ k < e

(* An accepted window is the window of the time range.                     *)
LEMMA WindowOfPage ==
  ASSUME NEW s, NEW n \in 0 .. MaxUint, History(s, n), NEW q, RequestShaped(q), newRevisionStreamQueryRequest(q),
         NEW p, PageShaped(p), p.pinned = HeadAt(s, n), decodeRevisionStreamQueryPage(q, p), p.window # NoRange
  PROVE  \E k, e \in Nat : PageWindow(s, n, q, p, k, e)
<1>0. n \in Nat
  BY WidthType
<1>1. q.from \in Int /\ q.until \in Int /\ q.from < q.until
  BY DEF RequestShaped, newRevisionStreamQueryRequest
<1>2. p.pinned.revision = n
  BY HeadFields
<1>3. p.window = [first |-> p.window.first, last |-> p.window.last] /\ p.window.first \in Nat /\ p.window.last \in Nat
  BY DEF PageShaped, RangeShaped
<1>4. p.window.first # 0 /\ p.window.first <= p.window.last /\ p.window.last <= n
  BY <1>2 DEF decodeRevisionStreamQueryPage, decodeRevisionStreamRange
<1>5. PICK k, e \in 0 .. n : p.window.first = k + 1 /\ p.window.last = e /\ k < e
  <2>1. p.window.first - 1 \in 0 .. n /\ p.window.last \in 0 .. n /\ p.window.first = (p.window.first - 1) + 1
        /\ p.window.first - 1 < p.window.last
    BY <1>0, <1>3, <1>4
  <2>2. QED
    BY <2>1
<1>6. WindowBracketed(q, p)
  BY DEF decodeRevisionStreamQueryPage, verifyRevisionStreamQueryPage
<1>7. p.first.revision = k + 1 /\ p.last.revision = e /\ InTime(q, p.first) /\ InTime(q, p.last)
      /\ LowerBracket(q, p) /\ UpperBracket(q, p)
  BY <1>5, <1>6 DEF WindowBracketed
<1>8. p.first # NoPoint /\ p.last # NoPoint
  BY <1>0, <1>5, <1>7 DEF NoPoint
<1>9. Genuine(s, n, p.first) /\ Genuine(s, n, p.last)
  BY <1>8, PagePoints
<1>10. q.from <= Time(s, k + 1) /\ Time(s, e) < q.until
  BY <1>7, <1>9 DEF Genuine, InTime
<1>11. k # 0 => Time(s, k) < q.from
  <2>1. SUFFICES ASSUME k # 0 PROVE Time(s, k) < q.from
    OBVIOUS
  <2>2. p.predecessor.revision = k /\ p.predecessor.occurredAt < q.from
    BY <2>1, <1>0, <1>5, <1>7 DEF LowerBracket
  <2>3. p.predecessor # NoPoint
    BY <2>1, <2>2 DEF NoPoint
  <2>4. Genuine(s, n, p.predecessor)
    BY <2>3, PagePoints
  <2>5. QED
    BY <2>2, <2>4 DEF Genuine
<1>12. e # n => Time(s, e + 1) >= q.until
  <2>1. SUFFICES ASSUME e # n PROVE Time(s, e + 1) >= q.until
    OBVIOUS
  <2>2. p.successor.revision = e + 1 /\ p.successor.occurredAt >= q.until
    BY <2>1, <1>2, <1>5, <1>7 DEF UpperBracket
  <2>3. p.successor # NoPoint
    BY <2>2, <1>0 DEF NoPoint
  <2>4. Genuine(s, n, p.successor)
    BY <2>3, PagePoints
  <2>5. QED
    BY <2>2, <2>4 DEF Genuine
<1>13. PICK from, until \in Int : from = q.from /\ until = q.until
  BY <1>1
<1>14. WindowIs(s, n, from, until, k, e)
  BY <1>0, <1>1, <1>5, <1>10, <1>11, <1>12, <1>13, Bracketed
<1>15. p.window = [first |-> k + 1, last |-> e]
  BY <1>3, <1>5
<1>16. k \in Nat /\ e \in Nat
  BY <1>0
<1>17. QED
  BY <1>5, <1>13, <1>14, <1>15, <1>16 DEF PageWindow

(* An accepted empty window means there is no event in it.                 *)
LEMMA EmptyWindowOfPage ==
  ASSUME NEW s, NEW n \in 0 .. MaxUint, History(s, n), NEW q, RequestShaped(q), newRevisionStreamQueryRequest(q),
         NEW p, PageShaped(p), p.pinned = HeadAt(s, n), decodeRevisionStreamQueryPage(q, p), p.window = NoRange
  PROVE  \E k, e \in Nat : PageWindow(s, n, q, p, k, e)
<1>0. n \in Nat
  BY WidthType
<1>1. q.from \in Int /\ q.until \in Int /\ q.from < q.until
  BY DEF RequestShaped, newRevisionStreamQueryRequest
<1>2. p.pinned.revision = n
  BY HeadFields
<1>3. EmptyWindowBracketed(q, p)
  BY DEF decodeRevisionStreamQueryPage, verifyRevisionStreamQueryPage
<1>4. /\ p.predecessor # NoPoint => p.predecessor.occurredAt < q.from
      /\ p.successor # NoPoint => p.successor.occurredAt >= q.until
      /\ NoRoomForAnEvent(p)
  BY <1>3 DEF EmptyWindowBracketed
<1>5. p.predecessor # NoPoint => /\ p.predecessor.revision \in 1 .. n
                                 /\ Time(s, p.predecessor.revision) < q.from
  BY <1>4, PagePoints DEF Genuine
<1>6. p.successor # NoPoint => /\ p.successor.revision \in 1 .. n
                               /\ Time(s, p.successor.revision) >= q.until
  BY <1>4, PagePoints DEF Genuine
<1>7. PICK k \in 0 .. n : (k # 0 => Time(s, k) < q.from) /\ (k # n => Time(s, k + 1) >= q.until)
  <2>1. CASE p.predecessor # NoPoint /\ p.successor # NoPoint /\ p.predecessor.revision + 1 = p.successor.revision
    <3>1. PICK k \in 0 .. n : k = p.predecessor.revision
      BY <2>1, <1>5
    <3>2. QED
      BY <3>1, <2>1, <1>5, <1>6
  <2>2. CASE p.predecessor = NoPoint /\ p.successor.revision = 1
    <3>1. p.successor # NoPoint /\ 0 \in 0 .. n /\ 0 + 1 = 1
      BY <2>2, <1>0 DEF NoPoint
    <3>2. QED
      BY <3>1, <2>2, <1>6
  <2>3. CASE p.predecessor # NoPoint /\ p.predecessor.revision = p.pinned.revision /\ p.successor = NoPoint
    <3>1. n \in 0 .. n
      BY <1>0
    <3>2. QED
      BY <3>1, <2>3, <1>2, <1>5
  <2>4. QED
    BY <2>1, <2>2, <2>3, <1>4 DEF NoRoomForAnEvent
<1>8. PICK from, until \in Int : from = q.from /\ until = q.until
  BY <1>1
<1>9. WindowIs(s, n, from, until, k, k)
  BY <1>0, <1>1, <1>7, <1>8, Bracketed
<1>10. k \in Nat
  BY <1>0
<1>11. QED
  BY <1>8, <1>9, <1>10 DEF PageWindow

(* The m events behind revision a.                                         *)
EventsFrom(s, a, m) == [i \in 1 .. m |-> EventAt(s, a + i)]

(* What an accepted page holds: m events behind revision a of the window.  *)
PageIs(s, n, q, p, k, e, a, m) ==
  /\ PageWindow(s, n, q, p, k, e)
  /\ q.after # 0 => a = q.after
  /\ q.after = 0 => a = k
  /\ k <= a /\ a + m <= e
  /\ p.entries = EventsFrom(s, a, m)
  /\ p.hasMore => m # 0 /\ a + m < e /\ p.next = a + m /\ p.window # NoRange
  /\ ~p.hasMore => a + m = e

(* A page without entries ends the window.                                 *)
LEMMA EmptyPageSound ==
  ASSUME NEW s, NEW n \in 0 .. MaxUint, History(s, n), NEW q, RequestShaped(q), newRevisionStreamQueryRequest(q),
         NEW p, PageShaped(p), p.pinned = HeadAt(s, n), decodeRevisionStreamQueryPage(q, p),
         NEW k \in Nat, NEW e \in Nat, PageWindow(s, n, q, p, k, e), p.entries = <<>>
  PROVE  PageIs(s, n, q, p, k, e, e, 0)
<1>1. q.after \in Nat
  BY DEF RequestShaped
<1>2. PageFollowsCursor(q, p) /\ PageInWindow(q, p)
  BY DEF decodeRevisionStreamQueryPage, verifyRevisionStreamQueryPage
<1>3. /\ q.after # 0 => p.window # NoRange
      /\ p.page = NoRange /\ (p.window # NoRange => q.after # 0 /\ q.after = p.window.last)
  BY <1>2 DEF PageFollowsCursor
<1>4. ~p.hasMore
  BY <1>2, <1>3 DEF PageInWindow
<1>5. /\ p.window = NoRange => k = e
      /\ p.window # NoRange => p.window = [first |-> k + 1, last |-> e]
  BY DEF PageWindow
<1>6. k <= e
  BY DEF PageWindow, WindowIs
<1>7. q.after # 0 => e = q.after
  BY <1>3, <1>5
<1>8. q.after = 0 => e = k
  BY <1>3, <1>5
<1>9. p.entries = EventsFrom(s, e, 0)
  BY DEF EventsFrom
<1>10. e + 0 = e
  OBVIOUS
<1>11. QED
  BY <1>4, <1>6, <1>7, <1>8, <1>9, <1>10 DEF PageIs

(* A page with entries continues at the cursor.                            *)
LEMMA FilledPageSound ==
  ASSUME NEW s, NEW n \in 0 .. MaxUint, History(s, n), NEW q, RequestShaped(q), newRevisionStreamQueryRequest(q),
         NEW p, PageShaped(p), p.pinned = HeadAt(s, n), decodeRevisionStreamQueryPage(q, p),
         NEW k \in Nat, NEW e \in Nat, PageWindow(s, n, q, p, k, e), p.entries # <<>>
  PROVE  \E a, m \in Nat : PageIs(s, n, q, p, k, e, a, m)
<1>0. n \in Nat
  BY WidthType
<1>1. q.after \in Nat
  BY DEF RequestShaped
<1>2. PageFollowsCursor(q, p) /\ PageInWindow(q, p)
  BY DEF decodeRevisionStreamQueryPage, verifyRevisionStreamQueryPage
<1>3. PICK m \in Nat : Len(p.entries) = m /\ Chained(s, n, q, p, m)
  BY PageChained
<1>4. m # 0
  <2>1. p.entries = [i \in 1 .. m |-> p.entries[i]]
    BY <1>3 DEF Chained
  <2>2. PICK f : f = p.entries
    OBVIOUS
  <2>3. m = 0 => f = <<>>
    BY <2>1, <2>2
  <2>4. QED
    BY <2>2, <2>3
<1>5. PICK a \in 0 .. n : EntriesFrom(s, n, p, a, m)
  BY <1>3, <1>4, EntriesAreEvents
<1>e. /\ a + m \in 1 .. n /\ a + m \in Nat
      /\ p.page.first = a + 1 /\ p.page.last = a + m
      /\ p.entries = EventsFrom(s, a, m)
  BY <1>5 DEF EntriesFrom, EventsFrom
<1>6. p.page # NoRange /\ p.window # NoRange
  BY <1>2 DEF PageInWindow
<1>7. p.window = [first |-> k + 1, last |-> e] /\ k < e
  BY <1>6 DEF PageWindow
<1>8. p.window.first = k + 1 /\ p.window.last = e
  BY <1>7
<1>9. /\ q.after # 0 => k + 1 <= q.after /\ q.after <= e /\ p.page.first = q.after + 1
      /\ q.after = 0 => p.page.first = k + 1
  BY <1>2, <1>8 DEF PageFollowsCursor
<1>10. /\ p.page.last <= e
       /\ p.hasMore => p.next = p.page.last /\ p.page.last < e
       /\ ~p.hasMore => p.page.last = e
  BY <1>2, <1>6, <1>8 DEF PageInWindow
<1>11. a \in Nat
  BY <1>0
<1>12. (q.after # 0 => a = q.after) /\ (q.after = 0 => a = k) /\ k <= a
  BY <1>1, <1>e, <1>9, <1>11
<1>13. QED
  BY <1>4, <1>e, <1>6, <1>10, <1>11, <1>12 DEF PageIs

(* Every accepted page is a part of the window.                            *)
LEMMA PageSound ==
  ASSUME NEW s, NEW n \in 0 .. MaxUint, History(s, n), NEW q, RequestShaped(q), newRevisionStreamQueryRequest(q),
         NEW p, PageShaped(p), p.pinned = HeadAt(s, n), decodeRevisionStreamQueryPage(q, p)
  PROVE  \E k, e, a, m \in Nat : PageIs(s, n, q, p, k, e, a, m)
<1>1. PICK k, e \in Nat : PageWindow(s, n, q, p, k, e)
  BY WindowOfPage, EmptyWindowOfPage
<1>2. CASE p.entries = <<>>
  <2>1. PageIs(s, n, q, p, k, e, e, 0)
    BY <1>1, <1>2, EmptyPageSound
  <2>2. QED
    BY <2>1
<1>3. CASE p.entries # <<>>
  BY <1>1, <1>3, FilledPageSound
<1>4. QED
  BY <1>2, <1>3

(* A stream has one window for a time range.                               *)
LEMMA WindowUnique ==
  ASSUME NEW s, NEW n \in Nat, NEW from, NEW until, NEW k \in Nat, NEW e \in Nat, NEW k2 \in Nat, NEW e2 \in Nat,
         WindowIs(s, n, from, until, k, e), WindowIs(s, n, from, until, k2, e2)
  PROVE  k = k2 /\ e = e2
<1>1. k = k2 /\ e - k = e2 - k2
  BY DEF WindowIs
<1>2. QED
  BY <1>1

-----------------------------------------------------------------------------
(* The reader: accepted pages join to the window.                          *)

(* What the reader holds of a stream that its pinned head belongs to.      *)
HoldsEvents(s, n, q, ph, es, k, e, c) ==
  /\ WindowIs(s, n, q.from, q.until, k, e)
  /\ k + c <= e
  /\ es = EventsFrom(s, k, c)
  /\ ph = "open" /\ q.after = 0 => c = 0
  /\ ph = "open" /\ q.after # 0 => /\ q.after = k + c /\ c # 0 /\ q.after < e
                                   /\ q.window = [first |-> k + 1, last |-> e]
                                   /\ q.previousRoot = EventAt(s, q.after).root
  /\ ph = "done" => k + c = e

(* The pinned head stands for every stream it is a head of, so that what   *)
(* the branches of a restore have in common need not be said.              *)
ReaderState(q, ph, es) ==
  /\ ph = "idle" => es = <<>>
  /\ ph = "open" /\ q.after = 0 => es = <<>> /\ q.window = NoRange /\ q.minimumLive = NoHead
  /\ ph = "open" /\ q.after # 0 => q.pinned # NoHead
  /\ ph = "open" => q.limit # 0
  /\ ph # "idle" /\ q.pinned # NoHead =>
       \A s : \A n \in 1 .. MaxUint :
         History(s, n) /\ q.pinned = HeadAt(s, n) =>
           \E k, e, c \in Nat : HoldsEvents(s, n, q, ph, es, k, e, c)

(* The inductive invariant of the reader.                                  *)
ReaderInv == QueryInv /\ ReaderState(request, phase, entries)

(* A new request holds nothing yet.                                        *)
LEMMA ReaderStarts ==
  ASSUME NEW from \in Int, NEW until \in Int, NEW limit \in Nat \ {0}, NEW pinned,
         NEW q, q = [from |-> from, until |-> until, limit |-> limit, pinned |-> pinned, after |-> 0,
                     window |-> NoRange, previousRoot |-> ZeroRoot, minimumLive |-> NoHead]
  PROVE  ReaderState(q, "open", <<>>)
<1>1. q.from = from /\ q.until = until /\ q.after = 0 /\ q.window = NoRange /\ q.minimumLive = NoHead /\ q.limit # 0
  OBVIOUS
<1>2. ASSUME NEW s, NEW n \in 1 .. MaxUint, History(s, n)
      PROVE  \E k, e, c \in Nat : HoldsEvents(s, n, q, "open", <<>>, k, e, c)
  <2>1. n \in Nat
    BY WidthType
  <2>2. PICK k, e \in Nat : WindowIs(s, n, from, until, k, e)
    BY <1>2, <2>1, WindowExists
  <2>3. k + 0 <= e
    BY <2>2 DEF WindowIs
  <2>4. <<>> = EventsFrom(s, k, 0)
    BY DEF EventsFrom
  <2>5. HoldsEvents(s, n, q, "open", <<>>, k, e, 0)
    BY <1>1, <2>2, <2>3, <2>4 DEF HoldsEvents
  <2>6. QED
    BY <2>5
<1>3. QED
  BY <1>1, <1>2 DEF ReaderState

(* Sums and concatenations by name, for the provers' pattern matching.     *)
Plus(a, k, c) == a = k + c
Joins(f, g, h) == f \o g = h

(* A run of events as a sequence.                                          *)
LEMMA EventsType ==
  ASSUME NEW s, NEW a \in Nat, NEW m \in Nat
  PROVE  /\ EventsFrom(s, a, m) \in Seq({EventAt(s, r) : r \in Nat}) /\ Len(EventsFrom(s, a, m)) = m
         /\ \A i \in 1 .. m : EventsFrom(s, a, m)[i] = EventAt(s, a + i)
<1> DEFINE V == {EventAt(s, r) : r \in Nat}
<1>1. EventsFrom(s, a, m) = [i \in 1 .. m |-> EventAt(s, a + i)]
  BY DEF EventsFrom
<1>2. \A i \in 1 .. m : EventAt(s, a + i) \in V
  OBVIOUS
<1>3. PICK f : f = EventsFrom(s, a, m)
  OBVIOUS
<1> HIDE DEF V
<1>4. f \in [1 .. m -> V] /\ \A i \in 1 .. m : f[i] = EventAt(s, a + i)
  BY <1>1, <1>2, <1>3
<1>5. f \in Seq(V) /\ Len(f) = m
  BY <1>4
<1>6. QED
  BY <1>3, <1>4, <1>5 DEF V

(* The events behind revision k, then those behind k + c.                  *)
LEMMA EventsJoined ==
  ASSUME NEW s, NEW k \in Nat, NEW c \in Nat, NEW m \in Nat, NEW a \in Nat, NEW l \in Nat, Plus(a, k, c), Plus(l, c, m)
  PROVE  Joins(EventsFrom(s, k, c), EventsFrom(s, a, m), EventsFrom(s, k, l))
<1>1. a = k + c /\ l = c + m
  BY DEF Plus
<1>2. PICK es, fs, g, V : /\ es = EventsFrom(s, k, c) /\ fs = EventsFrom(s, a, m) /\ g = es \o fs
                          /\ V = {EventAt(s, r) : r \in Nat}
  OBVIOUS
<1>3. /\ es \in Seq(V) /\ fs \in Seq(V) /\ Len(es) = c /\ Len(fs) = m
      /\ \A i \in 1 .. c : es[i] = EventAt(s, k + i)
      /\ \A i \in 1 .. m : fs[i] = EventAt(s, a + i)
  BY <1>2, EventsType
<1>4. g \in Seq(V) /\ Len(g) = l
  <2>1. es \o fs \in Seq(V) /\ Len(es \o fs) = Len(es) + Len(fs)
    BY <1>3, ConcatProperties
  <2>2. QED
    BY <1>1, <1>2, <1>3, <2>1
<1>5. ASSUME NEW i \in 1 .. l PROVE g[i] = EventAt(s, k + i)
  <2>1. CASE i \in 1 .. c
    BY <1>2, <1>3, <2>1
  <2>2. CASE i \notin 1 .. c
    <3>1. PICK j \in 1 .. m : j = i - c /\ a + j = k + i
      <4>1. i - c \in 1 .. m /\ a + (i - c) = k + i
        BY <1>1, <2>2
      <4>2. QED
        BY <4>1
    <3>2. g[i] = fs[i - c]
      BY <1>1, <1>2, <1>3, <2>2
    <3>3. QED
      BY <1>3, <3>1, <3>2
  <2>3. QED
    BY <2>1, <2>2
<1>6. g = [i \in 1 .. l |-> g[i]]
  <2>1. DOMAIN g = 1 .. l /\ g = [i \in DOMAIN g |-> g[i]]
    BY <1>4
  <2>2. QED
    BY <2>1
<1>7. g = EventsFrom(s, k, l)
  BY <1>5, <1>6 DEF EventsFrom
<1>8. QED
  BY <1>1, <1>2, <1>7 DEF Joins

(* Its last element.                                                       *)
LEMMA LastOf ==
  ASSUME NEW s, NEW a \in Nat, NEW m \in Nat, m # 0
  PROVE  EventsFrom(s, a, m)[Len(EventsFrom(s, a, m))] = EventAt(s, a + m)
<1>1. m \in 1 .. m
  OBVIOUS
<1>2. QED
  BY <1>1, EventsType

(* An accepted page continues what the reader holds.                       *)
LEMMA HeldBefore ==
  ASSUME NEW s, NEW n \in 1 .. MaxUint, History(s, n), NEW q, RequestShaped(q), newRevisionStreamQueryRequest(q),
         NEW es, ReaderState(q, "open", es), NEW p, PageShaped(p), p.pinned = HeadAt(s, n),
         decodeRevisionStreamQueryPage(q, p),
         NEW k \in Nat, NEW e \in Nat, NEW a \in Nat, NEW m \in Nat, PageIs(s, n, q, p, k, e, a, m)
  PROVE  \E c \in Nat : Plus(a, k, c) /\ es = EventsFrom(s, k, c)
<1>1. WindowIs(s, n, q.from, q.until, k, e) /\ (q.after = 0 => a = k) /\ (q.after # 0 => a = q.after)
  BY DEF PageIs, PageWindow
<1>2. CASE q.after = 0
  <2>1. es = <<>>
    BY <1>2 DEF ReaderState
  <2>2. es = EventsFrom(s, k, 0) /\ a = k + 0
    BY <2>1, <1>1, <1>2 DEF EventsFrom
  <2>3. QED
    BY <2>2 DEF Plus
<1>3. CASE q.after # 0
  <2>1. q.pinned # NoHead
    BY <1>3 DEF ReaderState
  <2>2. q.pinned = HeadAt(s, n)
    BY <2>1 DEF decodeRevisionStreamQueryPage
  <2>3. \E k2, e2, c \in Nat : HoldsEvents(s, n, q, "open", es, k2, e2, c)
    BY <2>1, <2>2 DEF ReaderState
  <2>4. PICK k2, e2, c \in Nat : HoldsEvents(s, n, q, "open", es, k2, e2, c)
    BY <2>3
  <2>5. /\ WindowIs(s, n, q.from, q.until, k2, e2) /\ q.after = k2 + c
        /\ es = EventsFrom(s, k2, c)
    BY <2>4, <1>3 DEF HoldsEvents
  <2>6. n \in Nat
    BY WidthType
  <2>7. PICK from, until : from = q.from /\ until = q.until
    OBVIOUS
  <2>8. k2 = k
    BY <2>5, <2>6, <2>7, <1>1, WindowUnique
  <2>9. QED
    BY <2>5, <2>8, <1>1, <1>3 DEF Plus
<1>4. QED
  BY <1>2, <1>3

(* A page with more to come.                                               *)
LEMMA MoreHeld ==
  ASSUME NEW s, NEW n \in 1 .. MaxUint, NEW q, NEW es, NEW p, p.hasMore,
         NEW k \in Nat, NEW e \in Nat, NEW a \in Nat, NEW m \in Nat, PageIs(s, n, q, p, k, e, a, m),
         NEW c \in Nat, Plus(a, k, c), NEW l \in Nat, Plus(l, c, m), es = EventsFrom(s, k, c),
         NEW r, r.from = q.from, r.until = q.until, r.after = p.next, r.window = p.window,
         r.previousRoot = p.entries[Len(p.entries)].root
  PROVE  HoldsEvents(s, n, r, "open", es \o p.entries, k, e, l)
<1>1. /\ m # 0 /\ a + m < e /\ p.next = a + m /\ p.window # NoRange
      /\ p.entries = EventsFrom(s, a, m)
      /\ WindowIs(s, n, q.from, q.until, k, e)
      /\ p.window = [first |-> k + 1, last |-> e]
  BY DEF PageIs, PageWindow
<1>2. PICK fs : fs = p.entries
  OBVIOUS
<1>l. a = k + c /\ l = c + m
  BY DEF Plus
<1>3. es \o fs = EventsFrom(s, k, l)
  <2>1. fs = EventsFrom(s, a, m)
    BY <1>1, <1>2
  <2>2. Joins(EventsFrom(s, k, c), EventsFrom(s, a, m), EventsFrom(s, k, l))
    BY EventsJoined
  <2>3. QED
    BY <2>1, <2>2 DEF Joins
<1>4. fs[Len(fs)] = EventAt(s, a + m)
  BY <1>1, <1>2, LastOf
<1>5. r.after = k + l /\ r.after # 0 /\ r.after < e /\ l # 0 /\ k + l <= e
  BY <1>1, <1>l
<1>6. r.previousRoot = EventAt(s, r.after).root
  BY <1>1, <1>2, <1>4
<1>7. QED
  BY <1>1, <1>2, <1>l, <1>3, <1>5, <1>6 DEF HoldsEvents

(* The last page.                                                          *)
LEMMA AllHeld ==
  ASSUME NEW s, NEW n \in 1 .. MaxUint, NEW q, NEW es, NEW p, ~p.hasMore,
         NEW k \in Nat, NEW e \in Nat, NEW a \in Nat, NEW m \in Nat, PageIs(s, n, q, p, k, e, a, m),
         NEW c \in Nat, Plus(a, k, c), NEW l \in Nat, Plus(l, c, m), es = EventsFrom(s, k, c),
         NEW r, r.from = q.from, r.until = q.until
  PROVE  HoldsEvents(s, n, r, "done", es \o p.entries, k, e, l)
<1>1. /\ a + m = e
      /\ p.entries = EventsFrom(s, a, m)
      /\ WindowIs(s, n, q.from, q.until, k, e)
  BY DEF PageIs, PageWindow
<1>2. PICK fs : fs = p.entries
  OBVIOUS
<1>l. a = k + c /\ l = c + m
  BY DEF Plus
<1>3. es \o fs = EventsFrom(s, k, l)
  <2>1. fs = EventsFrom(s, a, m)
    BY <1>1, <1>2
  <2>2. Joins(EventsFrom(s, k, c), EventsFrom(s, a, m), EventsFrom(s, k, l))
    BY EventsJoined
  <2>3. QED
    BY <2>1, <2>2 DEF Joins
<1>4. k + l = e /\ k + l <= e
  BY <1>1, <1>l
<1>5. QED
  BY <1>1, <1>2, <1>l, <1>3, <1>4 DEF HoldsEvents

(* The next request continues where the page ended.                        *)
LEMMA HeldAfterMore ==
  ASSUME NEW q, RequestShaped(q), newRevisionStreamQueryRequest(q), NEW es, ReaderState(q, "open", es),
         NEW p, PageShaped(p), decodeRevisionStreamQueryPage(q, p), p.hasMore, NEW limit \in Limits,
         NEW s, NEW n \in 1 .. MaxUint, History(s, n), NextRequest(q, p, limit).pinned = HeadAt(s, n)
  PROVE  \E k, e, c \in Nat : HoldsEvents(s, n, NextRequest(q, p, limit), "open", es \o p.entries, k, e, c)
<1>0. n \in 0 .. MaxUint
  BY WidthType
<1>1. PICK r : r = NextRequest(q, p, limit)
  OBVIOUS
<1>2. /\ r.from = q.from /\ r.until = q.until /\ r.after = p.next /\ r.window = p.window /\ r.pinned = p.pinned
      /\ r.previousRoot = p.entries[Len(p.entries)].root
  <2>1. PICK root : root = p.entries[Len(p.entries)].root
    OBVIOUS
  <2>2. r = [from |-> q.from, until |-> q.until, limit |-> limit, pinned |-> p.pinned, after |-> p.next,
             window |-> p.window, previousRoot |-> root, minimumLive |-> p.live]
    BY <1>1, <2>1 DEF NextRequest, RequestShaped
  <2>3. QED
    BY <2>1, <2>2
<1>3. p.pinned = HeadAt(s, n)
  BY <1>1, <1>2
<1>4. PICK k, e, a, m \in Nat : PageIs(s, n, q, p, k, e, a, m)
  BY <1>0, <1>3, PageSound
<1>5. PICK c \in Nat : Plus(a, k, c) /\ es = EventsFrom(s, k, c)
  BY <1>3, <1>4, HeldBefore
<1>6. PICK l \in Nat : Plus(l, c, m)
  BY DEF Plus
<1>7. HoldsEvents(s, n, r, "open", es \o p.entries, k, e, l)
  BY <1>2, <1>4, <1>5, <1>6, MoreHeld
<1>8. QED
  BY <1>1, <1>7

(* After the last page the whole window is held.                           *)
LEMMA HeldAfterAll ==
  ASSUME NEW q, RequestShaped(q), newRevisionStreamQueryRequest(q), NEW es, ReaderState(q, "open", es),
         NEW p, PageShaped(p), decodeRevisionStreamQueryPage(q, p), ~p.hasMore,
         NEW r, r.from = q.from, r.until = q.until, r.pinned = p.pinned,
         NEW s, NEW n \in 1 .. MaxUint, History(s, n), r.pinned = HeadAt(s, n)
  PROVE  \E k, e, c \in Nat : HoldsEvents(s, n, r, "done", es \o p.entries, k, e, c)
<1>0. n \in 0 .. MaxUint
  BY WidthType
<1>3. p.pinned = HeadAt(s, n)
  OBVIOUS
<1>4. PICK k, e, a, m \in Nat : PageIs(s, n, q, p, k, e, a, m)
  BY <1>0, <1>3, PageSound
<1>5. PICK c \in Nat : Plus(a, k, c) /\ es = EventsFrom(s, k, c)
  BY <1>3, <1>4, HeldBefore
<1>6. PICK l \in Nat : Plus(l, c, m)
  BY DEF Plus
<1>7. HoldsEvents(s, n, r, "done", es \o p.entries, k, e, l)
  BY <1>4, <1>5, <1>6, AllHeld
<1>8. QED
  BY <1>7

(* An accepted page keeps the reader's state.                              *)
LEMMA ReaderStateAnswered ==
  ASSUME ReaderInv, phase = "open", NEW p, PageShaped(p), RevisionStreamQuery(p)
  PROVE  ReaderState(request', phase', entries')
<1>1. /\ newRevisionStreamQueryRequest(request) /\ decodeRevisionStreamQueryPage(request, p)
      /\ entries' = entries \o p.entries
      /\ \/ p.hasMore /\ (\E limit \in Limits : request' = NextRequest(request, p, limit)) /\ phase' = phase
         \/ ~p.hasMore /\ request' = [request EXCEPT !.pinned = p.pinned, !.minimumLive = p.live] /\ phase' = "done"
  BY DEF RevisionStreamQuery
<1>2. RequestShaped(request) /\ ReaderState(request, "open", entries)
  BY DEF ReaderInv, QueryInv
<1>3. p.pinned # NoHead
  BY <1>1 DEF decodeRevisionStreamQueryPage
<1>4. CASE p.hasMore
  <2>1. PICK limit \in Limits : request' = NextRequest(request, p, limit)
    BY <1>1, <1>4
  <2>2. phase' = "open"
    BY <1>1, <1>4
  <2>3. PICK q, es : q = request /\ es = entries
    OBVIOUS
  <2>4. Advanced(request, request', phase')
    BY <1>2, PageAdvances
  <2>5. request'.after # 0
    BY <1>2, <2>2, <2>4 DEF Advanced, RequestShaped
  <2>6. request'.pinned = p.pinned /\ request'.limit = limit
    BY <1>2, <2>1 DEF NextRequest, RequestShaped
  <2>7. limit # 0
    BY LimitAssumption
  <2>8. ASSUME NEW s, NEW n \in 1 .. MaxUint, History(s, n), request'.pinned = HeadAt(s, n)
        PROVE  \E k, e, c \in Nat : HoldsEvents(s, n, request', "open", entries', k, e, c)
    <3>1. NextRequest(q, p, limit).pinned = HeadAt(s, n)
      BY <2>1, <2>3, <2>8
    <3>2. /\ RequestShaped(q) /\ newRevisionStreamQueryRequest(q) /\ ReaderState(q, "open", es)
          /\ decodeRevisionStreamQueryPage(q, p)
      BY <1>1, <1>2, <2>3
    <3>3. \E k, e, c \in Nat : HoldsEvents(s, n, NextRequest(q, p, limit), "open", es \o p.entries, k, e, c)
      BY <1>4, <2>8, <3>1, <3>2, HeldAfterMore
    <3>4. QED
      BY <1>1, <2>1, <2>3, <3>3
  <2>9. QED
    BY <1>3, <2>2, <2>5, <2>6, <2>7, <2>8 DEF ReaderState
<1>5. CASE ~p.hasMore
  <2>1. phase' = "done" /\ request' = [request EXCEPT !.pinned = p.pinned, !.minimumLive = p.live]
    BY <1>1, <1>5
  <2>2. PICK q, es, r : q = request /\ es = entries /\ r = request'
    OBVIOUS
  <2>3. /\ RequestShaped(q) /\ newRevisionStreamQueryRequest(q) /\ ReaderState(q, "open", es)
        /\ decodeRevisionStreamQueryPage(q, p)
    BY <1>1, <1>2, <2>2
  <2>4. r.from = q.from /\ r.until = q.until /\ r.pinned = p.pinned
    BY <2>1, <2>2, <2>3 DEF RequestShaped
  <2>5. ASSUME NEW s, NEW n \in 1 .. MaxUint, History(s, n), r.pinned = HeadAt(s, n)
        PROVE  \E k, e, c \in Nat : HoldsEvents(s, n, r, "done", es \o p.entries, k, e, c)
    BY <1>5, <2>3, <2>4, <2>5, HeldAfterAll
  <2>6. entries' = es \o p.entries
    BY <1>1, <2>2
  <2>7. QED
    BY <2>1, <2>2, <2>5, <2>6 DEF ReaderState
<1>6. QED
  BY <1>4, <1>5

(* ReaderInv holds at first.                                               *)
LEMMA ReaderInvInit ==
  ASSUME Init
  PROVE  ReaderInv
<1>1. QueryInv
  BY QueryInvInit
<1>2. phase = "idle" /\ entries = <<>>
  BY DEF Init, ReaderInit
<1>3. QED
  BY <1>1, <1>2 DEF ReaderInv, ReaderState

(* Every step keeps it; steps of the stream do not touch it.               *)
LEMMA ReaderInvStep ==
  ASSUME ReaderInv, [Next]_vars
  PROVE  ReaderInv'
<1>1. QueryInv'
  BY QueryInvStep DEF ReaderInv
<1>2. QueryInv /\ ReaderState(request, phase, entries)
  BY DEF ReaderInv
<1>3. CASE UNCHANGED readerVars
  <2>1. request' = request /\ phase' = phase /\ entries' = entries
    BY <1>3 DEF readerVars
  <2>2. ReaderState(request', phase', entries')
    BY <1>2, <2>1
  <2>3. QED
    BY <1>1, <2>2 DEF ReaderInv
<1>4. CASE \E window \in Windows, pinned \in IssuedHeads, limit \in Limits : NewQuery(window, pinned, limit)
  <2>1. PICK window \in Windows, pinned \in IssuedHeads, limit \in Limits : NewQuery(window, pinned, limit)
    BY <1>4
  <2>2. window[1] \in Int /\ window[2] \in Int /\ limit \in Nat \ {0}
    BY WindowsAssumption, LimitAssumption
  <2>3. request' = [from |-> window[1], until |-> window[2], limit |-> limit, pinned |-> pinned, after |-> 0,
                    window |-> NoRange, previousRoot |-> ZeroRoot, minimumLive |-> NoHead]
    BY <2>1 DEF NewQuery, NoRequest
  <2>4. phase' = "open" /\ entries' = <<>>
    BY <1>2, <2>1 DEF NewQuery, ReaderState
  <2>5. PICK from, until \in Int : from = window[1] /\ until = window[2]
    BY <2>2
  <2>6. PICK q : q = request'
    OBVIOUS
  <2>7. ReaderState(q, "open", <<>>)
    <3>1. q = [from |-> from, until |-> until, limit |-> limit, pinned |-> pinned, after |-> 0,
               window |-> NoRange, previousRoot |-> ZeroRoot, minimumLive |-> NoHead]
      BY <2>3, <2>5, <2>6
    <3>2. QED
      BY <2>2, <3>1, ReaderStarts
  <2>8. QED
    BY <1>1, <2>4, <2>6, <2>7 DEF ReaderInv
<1>5. CASE MisdirectedAnswer \/ DamagedAnswer
  <2>1. PICK p : PageShaped(p) /\ RevisionStreamQuery(p)
    BY <1>2, <1>5, AnswerShaped
  <2>2. phase = "open"
    BY <1>5 DEF MisdirectedAnswer, DamagedAnswer
  <2>3. ReaderState(request', phase', entries')
    BY <2>1, <2>2, ReaderStateAnswered
  <2>4. QED
    BY <1>1, <2>3 DEF ReaderInv
<1>6. QED
  BY <1>3, <1>4, <1>5 DEF Next, vars

(* It always holds.                                                        *)
LEMMA ReaderInvariant == Spec => []ReaderInv
BY ReaderInvInit, ReaderInvStep, PTL DEF Spec

(* A head that a branch knows is one of its prefixes.                      *)
LEMMA KnownHead ==
  ASSUME NEW s, Canonical(s), NEW head, head # NoHead, Knows(s, head)
  PROVE  \E n \in 1 .. MaxUint : /\ History(s, n) /\ head = HeadAt(s, n) /\ head.revision = n
                                 /\ n \in 1 .. HeadOf(s).revision
<1>1. PICK n \in 1 .. HeadOf(s).revision : head = HeadAt(s, n)
  BY DEF Knows
<1>2. PICK N : N = HeadOf(s).revision
  OBVIOUS
<1>3. N \in Nat /\ N \in 0 .. MaxUint /\ History(s, N)
  BY <1>2, CanonicalHead
<1>4. n \in 0 .. N /\ n \in 1 .. MaxUint
  BY <1>2, <1>3, WidthType
<1>5. History(s, n)
  BY <1>3, <1>4, HistoryShorter
<1>6. head.revision = n
  BY <1>1, HeadFields
<1>7. QED
  BY <1>1, <1>4, <1>5, <1>6

(* ReaderInv implies the property.                                         *)
LEMMA ReaderHoldsWindow ==
  ASSUME ReaderInv
  PROVE  PagesAreTheWindow
<1>1. SUFFICES ASSUME phase # "idle", request.pinned # NoHead, NEW s \in Sources
               PROVE  LET inside == Revisions(s, request.pinned.revision, request.from, request.until)
                          skipped == Cardinality({r \in 1 .. request.pinned.revision : EventAt(s, r).occurredAt < request.from})
                      IN  /\ Len(entries) <= Cardinality(inside)
                          /\ \A i \in DOMAIN entries : entries[i] = EventAt(s, skipped + i)
                          /\ phase = "done" => Len(entries) = Cardinality(inside)
  BY DEF PagesAreTheWindow
<1>2. Canonical(s) /\ Knows(s, request.pinned)
  BY DEF Sources, ReaderInv, QueryInv, StreamInv
<1>3. PICK n \in 1 .. MaxUint : History(s, n) /\ request.pinned = HeadAt(s, n) /\ request.pinned.revision = n
  BY <1>1, <1>2, KnownHead
<1>4. PICK k, e, c \in Nat : HoldsEvents(s, n, request, phase, entries, k, e, c)
  <2>1. ReaderState(request, phase, entries)
    BY DEF ReaderInv
  <2>2. \E k, e, c \in Nat : HoldsEvents(s, n, request, phase, entries, k, e, c)
    BY <1>1, <1>3, <2>1 DEF ReaderState
  <2>3. QED
    BY <2>2
<1>5. /\ WindowIs(s, n, request.from, request.until, k, e) /\ k + c <= e /\ entries = EventsFrom(s, k, c)
      /\ phase = "done" => k + c = e
  BY <1>4 DEF HoldsEvents
<1>6. PICK inside, skipped : /\ inside = Cardinality(Revisions(s, n, request.from, request.until))
                             /\ skipped = Cardinality({r \in 1 .. n : EventAt(s, r).occurredAt < request.from})
  OBVIOUS
<1>7. inside = e - k /\ skipped = k
  BY <1>5, <1>6 DEF WindowIs, Skipped
<1>8. Len(entries) = c /\ DOMAIN entries = 1 .. c /\ \A i \in 1 .. c : entries[i] = EventAt(s, k + i)
  BY <1>5, EventsType DEF EventsFrom
<1>9. c <= inside /\ (phase = "done" => c = inside)
  BY <1>5, <1>7
<1>10. QED
  BY <1>3, <1>6, <1>7, <1>8, <1>9

(* Whatever answers a reader accepted, of whichever branch, misdirected or *)
(* damaged, what it holds is the pinned stream's own run of events of the  *)
(* time window, and all of it once the query is done                       *)
(* (revision_stream.go:1406-1508).                                         *)
THEOREM PagesHoldTheWindow == Spec => []PagesAreTheWindow
BY ReaderInvariant, ReaderHoldsWindow, PTL

-----------------------------------------------------------------------------
(* Completeness: the answer of a Core that knows what it showed is         *)
(* accepted.                                                               *)

(* Core's proof of a revision of the pinned prefix verifies.               *)
LEMMA GenuineVerifies ==
  ASSUME NEW s, NEW n \in 0 .. MaxUint, History(s, n), NEW r \in 1 .. n
  PROVE  verifyRevisionStreamInclusion(Stream, HeadAt(s, n), r, EventAt(s, r).content, InclusionAt(s, n, r))
<1>1. PICK i : Holds(n, r, i)
  BY OnePeak
<1>2. PICK g, content : g = InclusionAt(s, n, r) /\ content = EventAt(s, r).content
  OBVIOUS
<1>3. g = [revision |-> r, peakIndex |-> i, leaf |-> calculateRevisionStreamMerkleLeaf(Stream, r, EventAt(s, r).content),
           siblings |-> SiblingsOf(s, n, r, i)]
  BY <1>1, <1>2, GenuineFields
<1>4. Shaped(g) /\ LeafIs(g, r, content)
  <2>1. Shaped(g)
    BY <1>2, GenuineShaped
  <2>2. g.leaf = calculateRevisionStreamMerkleLeaf(Stream, r, content)
    BY <1>2, <1>3
  <2>3. QED
    BY <2>1, <2>2 DEF LeafIs
<1>5. ExactInclusion(s, n, r, i, content, g)
  BY <1>1, <1>2, <1>4, ShapedExact
<1>6. verifyRevisionStreamInclusion(Stream, HeadAt(s, n), r, content, g)
  BY <1>1, <1>5, VerifyExact
<1>7. QED
  BY <1>2, <1>6

(* A point of revision r that verifies.                                    *)
PointOf(s, n, r, x) ==
  /\ x # NoPoint /\ x.revision = r /\ x.occurredAt = Time(s, r) /\ x.previousRoot = EventAt(s, r).previousRoot
  /\ verifyRevisionStreamProofPoint(Stream, HeadAt(s, n), x)

(* Core's points verify.                                                   *)
LEMMA PointVerifies ==
  ASSUME NEW s, NEW n \in 0 .. MaxUint, History(s, n), NEW r \in 1 .. n
  PROVE  PointOf(s, n, r, PointAt(s, n, r))
<1>1. PICK x, e, inc : x = PointAt(s, n, r) /\ e = EventAt(s, r) /\ inc = InclusionAt(s, n, r)
  OBVIOUS
<1>2. x = [revision |-> r, occurredAt |-> e.occurredAt, payloadSHA |-> e.payloadSHA,
           previousRoot |-> e.previousRoot, content |-> e.content, proofRoot |-> e.proofRoot,
           root |-> e.root, inclusion |-> inc]
  BY <1>1 DEF PointAt
<1>3. EventFacts(s, r)
  BY DEF History
<1>4. /\ e.content = calculateRevisionStreamContent(Stream, e.previousRoot, r, e.occurredAt, e.payloadSHA)
      /\ e.root = calculateRevisionStreamHeadRoot(Stream, r, e.occurredAt, e.content, e.proofRoot)
  BY <1>1, <1>3 DEF EventFacts
<1>5. ItemDigests(Stream, x)
  BY <1>2, <1>4 DEF ItemDigests
<1>6. verifyRevisionStreamInclusion(Stream, HeadAt(s, n), r, e.content, inc)
  BY <1>1, GenuineVerifies
<1>7. verifyRevisionStreamProofPoint(Stream, HeadAt(s, n), x)
  BY <1>2, <1>5, <1>6 DEF verifyRevisionStreamProofPoint
<1>8. x # NoPoint
  <2>1. x.revision # 0
    BY <1>2, WidthType
  <2>2. QED
    BY <2>1 DEF NoPoint
<1>9. QED
  BY <1>1, <1>2, <1>7, <1>8 DEF PointOf, Time

(* So do its entries.                                                      *)
LEMMA EntryVerifies ==
  ASSUME NEW s, NEW n \in 0 .. MaxUint, History(s, n), NEW r \in 1 .. n
  PROVE  verifyRevisionStreamEntryInclusion(Stream, HeadAt(s, n), EventAt(s, r), InclusionAt(s, n, r))
<1>1. PICK e, inc : e = EventAt(s, r) /\ inc = InclusionAt(s, n, r)
  OBVIOUS
<1>3. EventFacts(s, r)
  BY DEF History
<1>4. /\ e.content = calculateRevisionStreamContent(Stream, e.previousRoot, r, e.occurredAt, e.payloadSHA)
      /\ e.root = calculateRevisionStreamHeadRoot(Stream, r, e.occurredAt, e.content, e.proofRoot)
      /\ e.payloadSHA = PayloadSHA(e.payload)
  BY <1>1, <1>3 DEF EventFacts
<1>r. e.revision = r
  <2>1. e = [revision |-> r, occurredAt |-> e.occurredAt, previousRoot |-> e.previousRoot,
             payloadSHA |-> e.payloadSHA, content |-> e.content, proofRoot |-> e.proofRoot, root |-> e.root,
             payload |-> e.payload]
    BY <1>1, <1>3 DEF EventFacts
  <2>2. QED
    BY <2>1
<1>5. ItemDigests(Stream, e)
  BY <1>4, <1>r DEF ItemDigests
<1>6. verifyRevisionStreamInclusion(Stream, HeadAt(s, n), r, e.content, inc)
  BY <1>1, GenuineVerifies
<1>7. verifyRevisionStreamEntryInclusion(Stream, HeadAt(s, n), e, inc)
  BY <1>4, <1>r, <1>5, <1>6 DEF verifyRevisionStreamEntryInclusion
<1>8. QED
  BY <1>1, <1>7

(* The live head of a Core that knows what the reader was shown.           *)
LEMMA LiveFollows ==
  ASSUME NEW s, NEW n \in 0 .. MaxUint, History(s, n), NEW r \in 1 .. n
  PROVE  Follows(HeadAt(s, n), HeadAt(s, r))
<1>1. n \in Nat /\ n \in 1 .. n
  BY WidthType
<1>2. Time(s, r) <= Time(s, n) /\ Time(s, r) \in Int /\ Time(s, n) \in Int
  BY <1>1, TimesOrdered
<1>3. /\ HeadAt(s, n).revision = n /\ HeadAt(s, r).revision = r
      /\ HeadAt(s, n).lastOccurredAt = Time(s, n) /\ HeadAt(s, r).lastOccurredAt = Time(s, r)
  BY HeadFields DEF Time
<1>4. QED
  BY <1>1, <1>2, <1>3 DEF Follows

(* Core's page of the m revisions behind a, of the window k+1 to e.        *)
CoreIs(s, n, live, p, k, e, a, m) ==
  /\ p.pinned = HeadAt(s, n) /\ p.live = HeadAt(s, live) /\ p.proofRoot = HeadAt(s, n).proof.root
  /\ k = e => p.window = NoRange /\ p.first = NoPoint /\ p.last = NoPoint
  /\ k < e => /\ p.window = [first |-> k + 1, last |-> e]
              /\ p.first = PointAt(s, n, k + 1) /\ p.last = PointAt(s, n, e)
  /\ m = 0 => p.page = NoRange /\ p.pageSuccessor = NoPoint
  /\ m # 0 => p.page = [first |-> a + 1, last |-> a + m] /\ p.pageSuccessor = PointAt(s, n, a + m + 1)
  /\ p.hasMore <=> m # 0 /\ a + m < e
  /\ m # 0 /\ a + m < e => p.next = a + m
  /\ ~(m # 0 /\ a + m < e) => p.next = 0
  /\ p.entries = EventsFrom(s, a, m)
  /\ Len(p.entryProofs) = m /\ \A i \in 1 .. m : p.entryProofs[i] = InclusionAt(s, n, a + i)
  /\ p.predecessor = PointAt(s, n, k) /\ p.successor = PointAt(s, n, e + 1)

(* The range of revisions first..last, or none.                            *)
RangeOf(k, e) == IF e - k = 0 THEN NoRange ELSE [first |-> k + 1, last |-> e]

(* PageOf, field by field.                                                 *)
LEMMA PageOfIs ==
  ASSUME NEW s, NEW n \in Nat, NEW live, NEW k \in Nat, NEW e \in Nat, k <= e, e <= n, NEW a \in Nat, k <= a,
         NEW m \in Nat, a + m <= e, NEW p, p = PageOf(s, n, live, RangeOf(k, e), k, a + 1, a + m)
  PROVE  CoreIs(s, n, live, p, k, e, a, m)
<1>1. PICK b, f \in Nat : b = a + m /\ f = a + 1
  OBVIOUS
<1>2. PICK w : w = RangeOf(k, e)
  OBVIOUS
<1>3. p = PageOf(s, n, live, w, k, f, b)
  BY <1>1, <1>2
<1>4. k = e => w = NoRange /\ w.first = 0 /\ w.last = 0
  BY <1>2 DEF RangeOf, NoRange
<1>5. k < e => w = [first |-> k + 1, last |-> e] /\ w # NoRange /\ w.first = k + 1 /\ w.last = e
  BY <1>2 DEF RangeOf, NoRange
<1>6. (f > b <=> m = 0) /\ (b - f) + 1 = m
  BY <1>1
<1>7. PointAt(s, n, 0) = NoPoint
  BY DEF PointAt
<1>r. PICK es, ps, more : /\ es = [i \in 1 .. b - f + 1 |-> EventAt(s, f + i - 1)]
                          /\ ps = [i \in 1 .. b - f + 1 |-> InclusionAt(s, n, f + i - 1)]
                          /\ more = (~(f > b) /\ b < w.last)
  OBVIOUS
<1>s. p = [pinned |-> HeadAt(s, n), live |-> HeadAt(s, live), window |-> w,
           page |-> IF f > b THEN NoRange ELSE [first |-> f, last |-> b],
           hasMore |-> more, next |-> IF ~(f > b) /\ b < w.last THEN b ELSE 0, entries |-> es, entryProofs |-> ps,
           proofRoot |-> HeadAt(s, n).proof.root, predecessor |-> PointAt(s, n, k),
           first |-> PointAt(s, n, w.first), last |-> PointAt(s, n, w.last),
           successor |-> PointAt(s, n, IF w = NoRange THEN k + 1 ELSE w.last + 1),
           pageSuccessor |-> IF f > b THEN NoPoint ELSE PointAt(s, n, b + 1)]
  BY <1>3, <1>r, Zenon DEF PageOf
<1>8. p.pinned = HeadAt(s, n) /\ p.live = HeadAt(s, live) /\ p.proofRoot = HeadAt(s, n).proof.root /\ p.window = w
      /\ p.first = PointAt(s, n, w.first) /\ p.last = PointAt(s, n, w.last) /\ p.predecessor = PointAt(s, n, k)
  BY <1>s
<1>9. p.successor = PointAt(s, n, e + 1)
  <2>1. p.successor = PointAt(s, n, IF w = NoRange THEN k + 1 ELSE w.last + 1)
    BY <1>s
  <2>2. QED
    BY <2>1, <1>4, <1>5
<1>h. p.hasMore <=> ~(f > b) /\ b < w.last
  <2>1. p.hasMore = more
    BY <1>s
  <2>2. QED
    BY <2>1, <1>r
<1>t. /\ p.page = (IF f > b THEN NoRange ELSE [first |-> f, last |-> b])
      /\ p.next = (IF ~(f > b) /\ b < w.last THEN b ELSE 0)
      /\ p.pageSuccessor = (IF f > b THEN NoPoint ELSE PointAt(s, n, b + 1))
  BY <1>s
<1>10. m = 0 => p.page = NoRange /\ p.pageSuccessor = NoPoint /\ ~p.hasMore /\ p.next = 0
  BY <1>h, <1>t, <1>6
<1>11. m # 0 => /\ p.page = [first |-> f, last |-> b] /\ p.pageSuccessor = PointAt(s, n, b + 1)
                /\ (p.hasMore <=> b < w.last)
                /\ (b < w.last => p.next = b) /\ (~(b < w.last) => p.next = 0)
  BY <1>h, <1>t, <1>6
<1>12. m # 0 => w.last = e
  BY <1>4, <1>5
<1>13. p.entries = EventsFrom(s, a, m)
  <2>1. p.entries = [i \in 1 .. b - f + 1 |-> EventAt(s, f + i - 1)]
    BY <1>s, <1>r
  <2>2. b - f + 1 = m
    BY <1>1
  <2>3. \A i \in 1 .. m : f + i - 1 = a + i
    BY <1>1
  <2>4. QED
    BY <2>1, <2>2, <2>3 DEF EventsFrom
<1>14. Len(p.entryProofs) = m /\ \A i \in 1 .. m : p.entryProofs[i] = InclusionAt(s, n, a + i)
  <2>1. p.entryProofs = [i \in 1 .. b - f + 1 |-> InclusionAt(s, n, f + i - 1)]
    BY <1>s, <1>r
  <2>2. b - f + 1 = m
    BY <1>1
  <2>3. \A i \in 1 .. m : f + i - 1 = a + i
    BY <1>1
  <2>4. PICK g : g = p.entryProofs
    OBVIOUS
  <2>5. g = [i \in 1 .. m |-> g[i]] /\ \A i \in 1 .. m : g[i] = InclusionAt(s, n, a + i)
    BY <2>1, <2>2, <2>3, <2>4
  <2>6. g \in Seq({g[i] : i \in 1 .. m}) /\ Len(g) = m
    BY <2>5
  <2>7. QED
    BY <2>4, <2>5, <2>6
<1>15. k = e => p.window = NoRange /\ p.first = NoPoint /\ p.last = NoPoint
  BY <1>4, <1>7, <1>8
<1>16. k < e => /\ p.window = [first |-> k + 1, last |-> e]
                /\ p.first = PointAt(s, n, k + 1) /\ p.last = PointAt(s, n, e)
  BY <1>5, <1>8
<1>17. m # 0 => p.page = [first |-> a + 1, last |-> a + m] /\ p.pageSuccessor = PointAt(s, n, a + m + 1)
  BY <1>1, <1>11
<1>18. /\ p.hasMore <=> m # 0 /\ a + m < e
       /\ m # 0 /\ a + m < e => p.next = a + m
       /\ ~(m # 0 /\ a + m < e) => p.next = 0
  BY <1>1, <1>10, <1>11, <1>12
<1>19. QED
  BY <1>8, <1>9, <1>10, <1>13, <1>14, <1>15, <1>16, <1>17, <1>18 DEF CoreIs

(* A request that Core, at revision live, answers for its first n.         *)
Asked(s, n, live, q, k, e, a, m) ==
  /\ live \in 0 .. MaxUint /\ History(s, live) /\ n \in 1 .. live
  /\ q.from \in Int /\ q.until \in Int /\ WindowIs(s, n, q.from, q.until, k, e)
  /\ q.pinned # NoHead => q.pinned = HeadAt(s, n)
  /\ q.pinned = NoHead => n = live
  /\ q.minimumLive # NoHead => \E r \in 1 .. live : q.minimumLive = HeadAt(s, r)
  /\ q.after = 0 => a = k /\ q.window = NoRange
  /\ q.after # 0 => /\ a = q.after /\ k < a /\ a < e
                    /\ q.window = [first |-> k + 1, last |-> e]
                    /\ q.previousRoot = EventAt(s, a).root
  /\ k <= a /\ a + m <= e /\ m <= q.limit
  /\ a < e => m # 0

(* The numbers of a request.                                               *)
LEMMA AskedType ==
  ASSUME NEW s, NEW n, NEW live, NEW q, NEW k \in Nat, NEW e \in Nat, NEW a \in Nat, NEW m \in Nat,
         Asked(s, n, live, q, k, e, a, m)
  PROVE  /\ n \in Nat /\ live \in Nat /\ n \in 1 .. MaxUint /\ n \in 0 .. MaxUint /\ n <= live /\ History(s, n)
         /\ k <= e /\ e <= n
<1>1. live \in 0 .. MaxUint /\ History(s, live) /\ n \in 1 .. live /\ WindowIs(s, n, q.from, q.until, k, e)
  BY DEF Asked
<1>2. n \in Nat /\ live \in Nat /\ n \in 1 .. MaxUint /\ n \in 0 .. MaxUint /\ n <= live /\ n \in 0 .. live
  BY <1>1, WidthType
<1>3. History(s, n)
  BY <1>1, <1>2, HistoryShorter
<1>4. k <= e /\ e <= n
  BY <1>1, <1>2 DEF WindowIs
<1>5. QED
  BY <1>2, <1>3, <1>4

(* A prefix with a revision has a head.                                    *)
LEMMA HeadThere ==
  ASSUME NEW s, NEW n \in Nat \ {0}
  PROVE  HeadAt(s, n) # NoHead
<1>1. HeadAt(s, n).revision = n
  BY HeadFields
<1>2. NoHead.revision = 0
  BY DEF NoHead
<1>3. QED
  BY <1>1, <1>2

(* The heads of Core's page are accepted.                                  *)
LEMMA HeadsAccepted ==
  ASSUME NEW s, NEW n, NEW live, NEW q, NEW p, NEW k \in Nat, NEW e \in Nat, NEW a \in Nat, NEW m \in Nat,
         Asked(s, n, live, q, k, e, a, m), CoreIs(s, n, live, p, k, e, a, m)
  PROVE  /\ p.pinned # NoHead /\ validateRevisionStreamHead(Stream, p.pinned)
         /\ p.live # NoHead /\ validateRevisionStreamHead(Stream, p.live)
         /\ q.pinned # NoHead => p.pinned = q.pinned
         /\ LiveHeadChecked(q, p)
<1>1. n \in Nat /\ live \in Nat /\ n \in 1 .. live /\ live \in 1 .. live /\ live \in 0 .. MaxUint /\ History(s, live)
  BY AskedType DEF Asked
<1>2. p.pinned = HeadAt(s, n) /\ p.live = HeadAt(s, live)
  BY DEF CoreIs
<1>3. p.pinned # NoHead /\ p.live # NoHead
  BY <1>1, <1>2, HeadThere
<1>4. validateRevisionStreamHead(Stream, p.pinned) /\ validateRevisionStreamHead(Stream, p.live)
  BY <1>1, <1>2, HeadValid
<1>5. /\ q.pinned # NoHead => q.pinned = HeadAt(s, n)
      /\ q.pinned = NoHead => n = live
      /\ q.minimumLive # NoHead => \E r \in 1 .. live : q.minimumLive = HeadAt(s, r)
  BY DEF Asked
<1>6. Follows(p.live, p.pinned)
  BY <1>1, <1>2, LiveFollows
<1>7. q.minimumLive # NoHead => Follows(p.live, q.minimumLive)
  BY <1>1, <1>2, <1>5, LiveFollows
<1>8. QED
  BY <1>2, <1>3, <1>4, <1>5, <1>6, <1>7 DEF LiveHeadChecked

(* The entries of Core's page.                                             *)
EntriesAre(s, n, p, a, m) ==
  /\ Len(p.entries) = m /\ DOMAIN p.entries = 1 .. m /\ (p.entries = <<>> <=> m = 0)
  /\ \A i \in 1 .. m : /\ p.entries[i] = EventAt(s, a + i) /\ p.entries[i].revision = a + i
                       /\ a + i \in 1 .. n /\ a + i \in Nat

(* They are the m events behind a.                                         *)
LEMMA EntriesOfCore ==
  ASSUME NEW s, NEW n, NEW live, NEW q, NEW p, NEW k \in Nat, NEW e \in Nat, NEW a \in Nat, NEW m \in Nat,
         Asked(s, n, live, q, k, e, a, m), CoreIs(s, n, live, p, k, e, a, m)
  PROVE  EntriesAre(s, n, p, a, m)
<1>1. n \in Nat /\ History(s, n) /\ a + m <= n
  <2>1. n \in Nat /\ History(s, n) /\ e <= n
    BY AskedType
  <2>2. a + m <= e
    BY DEF Asked
  <2>3. QED
    BY <2>1, <2>2
<1>2. PICK f : f = p.entries
  OBVIOUS
<1>3. f = EventsFrom(s, a, m)
  BY <1>2 DEF CoreIs
<1>4. f \in Seq({EventAt(s, r) : r \in Nat}) /\ Len(f) = m /\ \A i \in 1 .. m : f[i] = EventAt(s, a + i)
  BY <1>3, EventsType
<1>5. DOMAIN f = 1 .. m /\ (f = <<>> <=> m = 0)
  BY <1>4
<1>6. ASSUME NEW i \in 1 .. m PROVE EventAt(s, a + i).revision = a + i /\ a + i \in 1 .. n /\ a + i \in Nat
  <2>1. PICK r \in 1 .. n : r = a + i
    <3>1. a + i \in 1 .. n
      BY <1>1
    <3>2. QED
      BY <3>1
  <2>2. EventFacts(s, r)
    BY <1>1 DEF History
  <2>3. PICK x : x = EventAt(s, r)
    OBVIOUS
  <2>4. x = [revision |-> r, occurredAt |-> x.occurredAt, previousRoot |-> x.previousRoot,
             payloadSHA |-> x.payloadSHA, content |-> x.content, proofRoot |-> x.proofRoot, root |-> x.root,
             payload |-> x.payload]
    BY <2>2, <2>3 DEF EventFacts
  <2>5. x.revision = r
    BY <2>4
  <2>6. QED
    BY <1>1, <2>1, <2>3, <2>5
<1>7. QED
  BY <1>2, <1>4, <1>5, <1>6 DEF EntriesAre

(* The ranges of Core's page.                                              *)
RangesOf(p, n, k, e, a, m) ==
  /\ p.window = NoRange <=> k = e
  /\ k # e => p.window.first = k + 1 /\ p.window.last = e
  /\ p.page = NoRange <=> m = 0
  /\ m # 0 => k # e /\ p.page.first = a + 1 /\ p.page.last = a + m
  /\ n \in Nat /\ k <= a /\ a + m <= e /\ k <= e /\ e <= n

(* Its window and page as ranges.                                          *)
LEMMA RangesOfCore ==
  ASSUME NEW s, NEW n, NEW live, NEW q, NEW p, NEW k \in Nat, NEW e \in Nat, NEW a \in Nat, NEW m \in Nat,
         Asked(s, n, live, q, k, e, a, m), CoreIs(s, n, live, p, k, e, a, m)
  PROVE  RangesOf(p, n, k, e, a, m)
<1>1. n \in Nat /\ k <= e /\ e <= n
  BY AskedType
<1>2. k <= a /\ a + m <= e
  BY DEF Asked
<1>3. (k = e => p.window = NoRange) /\ (k < e => p.window = [first |-> k + 1, last |-> e])
  BY DEF CoreIs
<1>4. (m = 0 => p.page = NoRange) /\ (m # 0 => p.page = [first |-> a + 1, last |-> a + m])
  BY DEF CoreIs
<1>5. k # e => p.window # NoRange /\ p.window.first = k + 1 /\ p.window.last = e
  <2>1. SUFFICES ASSUME k # e PROVE p.window # NoRange /\ p.window.first = k + 1 /\ p.window.last = e
    OBVIOUS
  <2>2. p.window = [first |-> k + 1, last |-> e]
    BY <1>1, <1>3, <2>1
  <2>3. p.window.first = k + 1 /\ p.window.last = e /\ k + 1 # 0
    BY <2>2
  <2>4. QED
    BY <2>3 DEF NoRange
<1>6. m # 0 => p.page # NoRange /\ p.page.first = a + 1 /\ p.page.last = a + m
  <2>1. SUFFICES ASSUME m # 0 PROVE p.page # NoRange /\ p.page.first = a + 1 /\ p.page.last = a + m
    OBVIOUS
  <2>2. p.page = [first |-> a + 1, last |-> a + m]
    BY <1>4, <2>1
  <2>3. p.page.first = a + 1 /\ p.page.last = a + m /\ a + 1 # 0
    BY <2>2
  <2>4. QED
    BY <2>3 DEF NoRange
<1>7. m # 0 => k # e
  BY <1>2
<1>8. (p.window = NoRange <=> k = e) /\ (p.page = NoRange <=> m = 0)
  BY <1>3, <1>4, <1>5, <1>6
<1>9. QED
  BY <1>1, <1>2, <1>5, <1>6, <1>7, <1>8 DEF RangesOf

(* Its page lies in its window.                                            *)
LEMMA CorePageInWindow ==
  ASSUME NEW s, NEW n, NEW live, NEW q, NEW p, NEW k \in Nat, NEW e \in Nat, NEW a \in Nat, NEW m \in Nat,
         Asked(s, n, live, q, k, e, a, m), CoreIs(s, n, live, p, k, e, a, m)
  PROVE  PageInWindow(q, p)
<1>1. RangesOf(p, n, k, e, a, m)
  BY RangesOfCore
<1>2. /\ (p.window = NoRange <=> k = e) /\ (p.page = NoRange <=> m = 0) /\ (m # 0 => k # e)
      /\ m # 0 => /\ p.window.first = k + 1 /\ p.window.last = e /\ p.page.first = a + 1 /\ p.page.last = a + m
                  /\ k + 1 <= a + 1 /\ a + m <= e
  BY <1>1 DEF RangesOf
<1>e. EntriesAre(s, n, p, a, m)
  BY EntriesOfCore
<1>3. Len(p.entries) = m /\ (p.entries = <<>> <=> m = 0) /\ \A i \in 1 .. m : p.entries[i].revision = a + i
  BY <1>e DEF EntriesAre
<1>4. m # 0 => p.page = [first |-> p.entries[1].revision, last |-> p.entries[Len(p.entries)].revision]
  <2>1. SUFFICES ASSUME m # 0
                 PROVE  p.page = [first |-> p.entries[1].revision, last |-> p.entries[Len(p.entries)].revision]
    OBVIOUS
  <2>2. 1 \in 1 .. m /\ m \in 1 .. m
    BY <2>1
  <2>3. p.entries[1].revision = a + 1 /\ p.entries[Len(p.entries)].revision = a + m
    BY <1>3, <2>2
  <2>4. p.page = [first |-> a + 1, last |-> a + m]
    BY <2>1 DEF CoreIs
  <2>5. QED
    BY <2>3, <2>4
<1>5. q.after = 0 => a = k
  BY DEF Asked
<1>6. /\ p.hasMore <=> m # 0 /\ a + m < e
      /\ m # 0 /\ a + m < e => p.next = a + m
      /\ ~(m # 0 /\ a + m < e) => p.next = 0
  BY DEF CoreIs
<1>7. (p.entries = <<>>) <=> (p.page = NoRange)
  BY <1>2, <1>3
<1>8. p.window = NoRange => p.page = NoRange
  BY <1>2
<1>9. p.page # NoRange =>
       /\ p.window.first <= p.page.first /\ p.page.last <= p.window.last
       /\ p.page = [first |-> p.entries[1].revision, last |-> p.entries[Len(p.entries)].revision]
       /\ q.after = 0 => p.page.first = p.window.first
  BY <1>2, <1>4, <1>5
<1>10. CASE p.hasMore
  <2>1. p.page # NoRange /\ p.next = p.page.last /\ p.page.last < p.window.last
    BY <1>2, <1>6, <1>10
  <2>2. QED
    BY <1>7, <1>8, <1>9, <1>10, <2>1 DEF PageInWindow
<1>11. CASE ~p.hasMore
  <2>1. p.next = 0
    BY <1>6, <1>11
  <2>2. p.page # NoRange => p.page.last = p.window.last
    BY <1>2, <1>6, <1>11
  <2>3. QED
    BY <1>7, <1>8, <1>9, <1>11, <2>1, <2>2 DEF PageInWindow
<1>12. QED
  BY <1>10, <1>11

(* It starts behind the cursor.                                            *)
LEMMA CoreFollowsCursor ==
  ASSUME NEW s, NEW n, NEW live, NEW q, NEW p, NEW k \in Nat, NEW e \in Nat, NEW a \in Nat, NEW m \in Nat,
         Asked(s, n, live, q, k, e, a, m), CoreIs(s, n, live, p, k, e, a, m)
  PROVE  PageFollowsCursor(q, p)
<1>1. RangesOf(p, n, k, e, a, m)
  BY RangesOfCore
<1>2. /\ (p.window = NoRange <=> k = e) /\ (p.page = NoRange <=> m = 0) /\ (m # 0 => k # e)
      /\ k # e => p.window.first = k + 1 /\ p.window.last = e
      /\ m # 0 => p.page.first = a + 1
      /\ n \in Nat /\ e <= n /\ k <= a /\ a + m <= e
  BY <1>1 DEF RangesOf
<1>e. EntriesAre(s, n, p, a, m)
  BY EntriesOfCore
<1>3. Len(p.entries) = m /\ (p.entries = <<>> <=> m = 0)
  BY <1>e DEF EntriesAre
<1>4. p.pinned.revision = n
  BY HeadFields DEF CoreIs
<1>5. /\ q.after = 0 => a = k
      /\ q.after # 0 => a = q.after /\ k < a /\ a < e
      /\ a < e => m # 0
      /\ m <= q.limit
  BY DEF Asked
<1>6. q.after # 0 => p.window # NoRange /\ p.window.first <= q.after /\ q.after <= p.window.last
                     /\ q.after < p.pinned.revision
  BY <1>2, <1>4, <1>5
<1>7. CASE p.entries = <<>>
  <2>1. m = 0 /\ p.page = NoRange
    BY <1>2, <1>3, <1>7
  <2>2. p.window = NoRange
    BY <2>1, <1>2, <1>5
  <2>3. QED
    BY <2>1, <2>2, <1>3, <1>5, <1>6, <1>7 DEF PageFollowsCursor
<1>8. CASE p.entries # <<>>
  <2>1. PageInWindow(q, p)
    BY CorePageInWindow
  <2>2. m # 0 /\ p.page # NoRange
    BY <1>2, <1>3, <1>8
  <2>3. p.page = [first |-> p.entries[1].revision, last |-> p.entries[Len(p.entries)].revision]
    BY <2>1, <2>2 DEF PageInWindow
  <2>4. p.page.first = IF q.after # 0 THEN q.after + 1 ELSE p.window.first
    BY <1>2, <1>5, <2>2
  <2>5. QED
    BY <2>3, <2>4, <1>3, <1>5, <1>6, <1>8 DEF PageFollowsCursor
<1>9. QED
  BY <1>7, <1>8

(* Its entries are chained, in time and included.                          *)
LEMMA CoreEntriesChained ==
  ASSUME NEW s, NEW n, NEW live, NEW q, NEW p, NEW k \in Nat, NEW e \in Nat, NEW a \in Nat, NEW m \in Nat,
         Asked(s, n, live, q, k, e, a, m), CoreIs(s, n, live, p, k, e, a, m)
  PROVE  EntriesChained(q, p)
<1>1. n \in Nat /\ n \in 0 .. MaxUint /\ n \in 1 .. MaxUint /\ History(s, n)
  BY AskedType
<1>e. EntriesAre(s, n, p, a, m)
  BY EntriesOfCore
<1>2. /\ DOMAIN p.entries = 1 .. m
      /\ \A i \in 1 .. m : /\ p.entries[i] = EventAt(s, a + i) /\ p.entries[i].revision = a + i
                           /\ a + i \in 1 .. n /\ a + i \in Nat
  BY <1>e DEF EntriesAre
<1>3. RangesOf(p, n, k, e, a, m)
  BY RangesOfCore
<1>4. m # 0 => p.window # NoRange /\ p.window.first = k + 1 /\ p.window.last = e /\ k <= a /\ a + m <= e
  BY <1>3 DEF RangesOf
<1>5. WindowIs(s, n, q.from, q.until, k, e)
  BY DEF Asked
<1>6. p.pinned = HeadAt(s, n) /\ \A i \in 1 .. m : p.entryProofs[i] = InclusionAt(s, n, a + i)
  BY DEF CoreIs
<1>7. ASSUME NEW i \in 1 .. m
      PROVE  LET entry == p.entries[i]
             IN  /\ i > 1 => /\ p.entries[i - 1].revision # MaxUint
                             /\ p.entries[i - 1].revision + 1 = entry.revision
                             /\ entry.previousRoot = p.entries[i - 1].root
                 /\ InTime(q, entry)
                 /\ p.window # NoRange /\ p.window.first <= entry.revision /\ entry.revision <= p.window.last
                 /\ verifyRevisionStreamEntryInclusion(Stream, p.pinned, entry, p.entryProofs[i])
  <2>1. PICK r \in 1 .. n : r = a + i
    BY <1>2
  <2>2. PICK x : x = p.entries[i]
    OBVIOUS
  <2>3. x = EventAt(s, r) /\ x.revision = r /\ r \in Nat
    BY <1>2, <2>1, <2>2
  <2>4. k < r /\ r <= e /\ p.window # NoRange /\ p.window.first = k + 1 /\ p.window.last = e
    BY <1>4, <2>1
  <2>5. InTime(q, x)
    <3>1. q.from <= Time(s, r) /\ Time(s, r) < q.until
      BY <1>5, <2>4 DEF WindowIs
    <3>2. QED
      BY <2>3, <3>1 DEF InTime, Time
  <2>6. verifyRevisionStreamEntryInclusion(Stream, p.pinned, x, p.entryProofs[i])
    <3>1. p.entryProofs[i] = InclusionAt(s, n, r)
      BY <1>6, <2>1
    <3>2. verifyRevisionStreamEntryInclusion(Stream, HeadAt(s, n), EventAt(s, r), InclusionAt(s, n, r))
      BY <1>1, EntryVerifies
    <3>3. QED
      BY <1>6, <2>3, <3>1, <3>2
  <2>7. ASSUME i > 1
        PROVE  /\ p.entries[i - 1].revision # MaxUint
               /\ p.entries[i - 1].revision + 1 = x.revision
               /\ x.previousRoot = p.entries[i - 1].root
    <3>1. PICK j \in 1 .. m : j = i - 1
      <4>1. i - 1 \in 1 .. m
        BY <2>7
      <4>2. QED
        BY <4>1
    <3>2. p.entries[j] = EventAt(s, a + j) /\ p.entries[j].revision = a + j /\ a + j \in 1 .. n
      BY <1>2
    <3>3. a + j = r - 1 /\ r - 1 # 0 /\ a + j < n /\ a + j # MaxUint
      BY <1>1, <2>1, <3>1, <3>2, WidthType
    <3>4. EventFacts(s, r)
      BY <1>1 DEF History
    <3>5. EventAt(s, r).previousRoot = EventAt(s, r - 1).root
      BY <3>3, <3>4 DEF EventFacts, PreviousRoot
    <3>6. QED
      BY <2>1, <2>3, <3>1, <3>2, <3>3, <3>5
  <2>8. QED
    BY <2>2, <2>3, <2>4, <2>5, <2>6, <2>7
<1>8. QED
  BY <1>2, <1>7 DEF EntriesChained

(* Its last root is vouched for.                                           *)
LEMMA CoreTail ==
  ASSUME NEW s, NEW n, NEW live, NEW q, NEW p, NEW k \in Nat, NEW e \in Nat, NEW a \in Nat, NEW m \in Nat,
         Asked(s, n, live, q, k, e, a, m), CoreIs(s, n, live, p, k, e, a, m)
  PROVE  TailAuthenticated(p)
<1>1. n \in Nat /\ n \in 0 .. MaxUint /\ History(s, n)
  BY AskedType
<1>e. EntriesAre(s, n, p, a, m)
  BY EntriesOfCore
<1>2. /\ Len(p.entries) = m /\ (p.entries = <<>> <=> m = 0)
      /\ \A i \in 1 .. m : /\ p.entries[i] = EventAt(s, a + i) /\ p.entries[i].revision = a + i
                           /\ a + i \in 1 .. n /\ a + i \in Nat
  BY <1>e DEF EntriesAre
<1>3. SUFFICES ASSUME m # 0 PROVE TailAuthenticated(p)
  BY <1>2 DEF TailAuthenticated
<1>4. PICK tail : tail = p.entries[Len(p.entries)]
  OBVIOUS
<1>5. PICK b \in Nat : b = a + m
  OBVIOUS
<1>6. tail = EventAt(s, b) /\ tail.revision = b /\ b \in 1 .. n
  <2>1. m \in 1 .. m
    BY <1>3
  <2>2. QED
    BY <1>2, <1>4, <1>5, <2>1
<1>7. p.pinned = HeadAt(s, n) /\ p.pageSuccessor = PointAt(s, n, b + 1)
  BY <1>3, <1>5 DEF CoreIs
<1>8. p.pinned.revision = n /\ p.pinned.root = EventAt(s, n).root
  BY <1>7, HeadFields
<1>9. CASE b = n
  <2>1. p.pageSuccessor = NoPoint
    BY <1>1, <1>7, <1>9 DEF PointAt
  <2>2. QED
    BY <2>1, <1>4, <1>6, <1>8, <1>9 DEF TailAuthenticated
<1>10. CASE b # n
  <2>1. PICK r \in 1 .. n : r = b + 1 /\ r - 1 = b /\ r - 1 # 0
    <3>1. b + 1 \in 1 .. n /\ (b + 1) - 1 = b /\ b # 0
      BY <1>1, <1>6, <1>10
    <3>2. QED
      BY <3>1
  <2>2. PointOf(s, n, r, PointAt(s, n, r))
    BY <1>1, PointVerifies
  <2>3. p.pageSuccessor.revision = b + 1 /\ p.pageSuccessor.previousRoot = EventAt(s, r).previousRoot
    BY <1>7, <2>1, <2>2 DEF PointOf
  <2>4. EventFacts(s, r)
    BY <1>1 DEF History
  <2>5. EventAt(s, r).previousRoot = EventAt(s, b).root
    BY <2>1, <2>4 DEF EventFacts, PreviousRoot
  <2>6. QED
    BY <1>4, <1>6, <1>8, <1>10, <2>3, <2>5 DEF TailAuthenticated
<1>11. QED
  BY <1>9, <1>10

(* Its points verify.                                                      *)
LEMMA CorePoints ==
  ASSUME NEW s, NEW n \in 0 .. MaxUint, History(s, n), NEW r
  PROVE  /\ PointAt(s, n, r) # NoPoint => r \in 1 .. n /\ PointOf(s, n, r, PointAt(s, n, r))
         /\ PointAt(s, n, r) = NoPoint => r \notin 1 .. n
<1>1. CASE r \in 1 .. n
  <2>1. PointOf(s, n, r, PointAt(s, n, r))
    BY <1>1, PointVerifies
  <2>2. QED
    BY <1>1, <2>1 DEF PointOf
<1>2. CASE r \notin 1 .. n
  BY <1>2 DEF PointAt
<1>3. QED
  BY <1>1, <1>2

(* Its brackets enclose the window.                                        *)
LEMMA CoreBrackets ==
  ASSUME NEW s, NEW n, NEW live, NEW q, NEW p, NEW k \in Nat, NEW e \in Nat, NEW a \in Nat, NEW m \in Nat,
         Asked(s, n, live, q, k, e, a, m), CoreIs(s, n, live, p, k, e, a, m)
  PROVE  IF p.window # NoRange THEN WindowBracketed(q, p) ELSE EmptyWindowBracketed(q, p)
<1>1. n \in Nat /\ n \in 0 .. MaxUint /\ n # 0 /\ MaxUint \in Nat /\ n <= MaxUint /\ History(s, n) /\ k <= e /\ e <= n
  BY AskedType, WidthType
<1>2. RangesOf(p, n, k, e, a, m)
  BY RangesOfCore
<1>3. (p.window = NoRange <=> k = e) /\ (k # e => p.window.first = k + 1 /\ p.window.last = e)
  BY <1>2 DEF RangesOf
<1>4. /\ p.predecessor = PointAt(s, n, k) /\ p.successor = PointAt(s, n, e + 1) /\ p.pinned = HeadAt(s, n)
      /\ k = e => p.first = NoPoint /\ p.last = NoPoint
      /\ k < e => p.first = PointAt(s, n, k + 1) /\ p.last = PointAt(s, n, e)
  BY DEF CoreIs
<1>5. p.pinned.revision = n
  BY <1>4, HeadFields
<1>6. /\ \A r \in 1 .. n : Time(s, r) < q.from <=> r <= k
      /\ \A r \in 1 .. n : q.from <= Time(s, r) /\ Time(s, r) < q.until <=> k < r /\ r <= e
  BY DEF Asked, WindowIs
<1>t. \A r \in 1 .. n : Time(s, r) \in Int
  BY <1>1, TimesOrdered
<1>7. k # 0 => /\ k \in 1 .. n /\ p.predecessor # NoPoint /\ p.predecessor.revision = k
               /\ p.predecessor.occurredAt < q.from
  <2>1. SUFFICES ASSUME k # 0
                 PROVE  /\ k \in 1 .. n /\ p.predecessor # NoPoint /\ p.predecessor.revision = k
                        /\ p.predecessor.occurredAt < q.from
    OBVIOUS
  <2>2. k \in 1 .. n /\ k <= k
    BY <1>1, <2>1
  <2>3. PointOf(s, n, k, p.predecessor)
    BY <1>1, <1>4, <2>2, PointVerifies
  <2>4. QED
    BY <2>2, <2>3, <1>6 DEF PointOf
<1>8. k = 0 => p.predecessor = NoPoint
  BY <1>4 DEF PointAt
<1>9. e # n => /\ p.successor # NoPoint /\ p.successor.revision = e + 1
               /\ ~(q.from <= Time(s, e + 1) /\ Time(s, e + 1) < q.until) /\ ~(Time(s, e + 1) < q.from)
               /\ p.successor.occurredAt = Time(s, e + 1) /\ Time(s, e + 1) \in Int
  <2>1. SUFFICES ASSUME e # n
                 PROVE  /\ p.successor # NoPoint /\ p.successor.revision = e + 1
                        /\ ~(q.from <= Time(s, e + 1) /\ Time(s, e + 1) < q.until) /\ ~(Time(s, e + 1) < q.from)
                        /\ p.successor.occurredAt = Time(s, e + 1) /\ Time(s, e + 1) \in Int
    OBVIOUS
  <2>2. PICK r \in 1 .. n : r = e + 1 /\ ~(r <= e) /\ ~(r <= k)
    <3>1. e + 1 \in 1 .. n /\ ~(e + 1 <= e) /\ ~(e + 1 <= k)
      BY <1>1, <2>1
    <3>2. QED
      BY <3>1
  <2>3. PointOf(s, n, r, p.successor)
    BY <1>1, <1>4, <2>2, PointVerifies
  <2>4. Time(s, r) \in Int /\ ~(Time(s, r) < q.from) /\ ~(q.from <= Time(s, r) /\ Time(s, r) < q.until)
    BY <1>6, <1>t, <2>2
  <2>5. QED
    BY <2>2, <2>3, <2>4 DEF PointOf
<1>10. e = n => p.successor = NoPoint
  BY <1>1, <1>4 DEF PointAt
<1>11. e # n => p.successor.occurredAt >= q.until
  <2>1. q.from \in Int /\ q.until \in Int
    BY DEF Asked
  <2>2. QED
    BY <1>9, <2>1
<1>12. CASE p.window # NoRange
  <2>1. k # e /\ k < e /\ p.window.first = k + 1 /\ p.window.last = e
    BY <1>1, <1>3, <1>12
  <2>2. PICK f \in 1 .. n : f = k + 1 /\ k < f /\ f <= e
    <3>1. k + 1 \in 1 .. n /\ k < k + 1 /\ k + 1 <= e
      BY <1>1, <2>1
    <3>2. QED
      BY <3>1
  <2>3. e \in 1 .. n /\ e <= e
    BY <1>1, <2>1
  <2>4. PointOf(s, n, f, p.first) /\ PointOf(s, n, e, p.last)
    BY <1>1, <1>4, <2>1, <2>2, <2>3, PointVerifies
  <2>5. /\ q.from <= Time(s, f) /\ Time(s, f) < q.until
        /\ q.from <= Time(s, e) /\ Time(s, e) < q.until
    BY <1>6, <2>1, <2>2, <2>3
  <2>6. /\ p.first.revision = p.window.first /\ p.last.revision = p.window.last
        /\ InTime(q, p.first) /\ InTime(q, p.last)
    BY <2>1, <2>2, <2>4, <2>5 DEF PointOf, InTime
  <2>7. LowerBracket(q, p)
    <3>1. (k + 1 = 1 <=> k = 0) /\ (k + 1) - 1 = k
      OBVIOUS
    <3>2. QED
      BY <3>1, <2>1, <1>7, <1>8 DEF LowerBracket
  <2>8. UpperBracket(q, p)
    BY <2>1, <1>5, <1>9, <1>10, <1>11 DEF UpperBracket
  <2>9. QED
    BY <1>12, <2>6, <2>7, <2>8 DEF WindowBracketed
<1>13. CASE p.window = NoRange
  <2>1. k = e
    BY <1>3, <1>13
  <2>2. /\ p.predecessor # NoPoint => p.predecessor.occurredAt < q.from
        /\ p.successor # NoPoint => p.successor.occurredAt >= q.until
    BY <1>7, <1>8, <1>10, <1>11
  <2>3. NoRoomForAnEvent(p)
    <3>1. CASE k = 0
      <4>1. e # n /\ e + 1 = 1
        BY <3>1, <2>1, <1>1
      <4>2. p.predecessor = NoPoint /\ p.successor.revision = 1
        BY <4>1, <3>1, <1>8, <1>9
      <4>3. QED
        BY <4>2 DEF NoRoomForAnEvent
    <3>2. CASE k # 0 /\ k = n
      <4>1. p.predecessor # NoPoint /\ p.predecessor.revision = p.pinned.revision /\ p.successor = NoPoint
        BY <3>2, <2>1, <1>5, <1>7, <1>10
      <4>2. QED
        BY <4>1 DEF NoRoomForAnEvent
    <3>3. CASE k # 0 /\ k # n
      <4>1. k # MaxUint
        BY <3>3, <1>1, <2>1
      <4>2. /\ p.predecessor # NoPoint /\ p.successor # NoPoint /\ p.predecessor.revision # MaxUint
            /\ p.predecessor.revision + 1 = p.successor.revision
        BY <4>1, <3>3, <2>1, <1>7, <1>9
      <4>3. QED
        BY <4>2 DEF NoRoomForAnEvent
    <3>4. QED
      BY <3>1, <3>2, <3>3
  <2>4. QED
    BY <1>4, <1>13, <2>1, <2>2, <2>3 DEF EmptyWindowBracketed
<1>14. QED
  BY <1>12, <1>13

(* verifyRevisionStreamQueryPage accepts it.                               *)
LEMMA CoreVerifies ==
  ASSUME NEW s, NEW n, NEW live, NEW q, NEW p, NEW k \in Nat, NEW e \in Nat, NEW a \in Nat, NEW m \in Nat,
         Asked(s, n, live, q, k, e, a, m), CoreIs(s, n, live, p, k, e, a, m)
  PROVE  verifyRevisionStreamQueryPage(q, p)
<1>1. n \in 0 .. MaxUint /\ History(s, n)
  BY AskedType
<1>2. p.pinned = HeadAt(s, n) /\ p.proofRoot = p.pinned.proof.root
  BY DEF CoreIs
<1>3. EntriesAre(s, n, p, a, m)
  BY EntriesOfCore
<1>4. Len(p.entryProofs) = Len(p.entries)
  BY <1>3 DEF EntriesAre, CoreIs
<1>5. /\ p.predecessor # NoPoint => verifyRevisionStreamProofPoint(Stream, p.pinned, p.predecessor)
      /\ p.first # NoPoint => verifyRevisionStreamProofPoint(Stream, p.pinned, p.first)
      /\ p.last # NoPoint => verifyRevisionStreamProofPoint(Stream, p.pinned, p.last)
      /\ p.successor # NoPoint => verifyRevisionStreamProofPoint(Stream, p.pinned, p.successor)
      /\ p.pageSuccessor # NoPoint => verifyRevisionStreamProofPoint(Stream, p.pinned, p.pageSuccessor)
  <2>1. \A r : PointAt(s, n, r) # NoPoint => verifyRevisionStreamProofPoint(Stream, HeadAt(s, n), PointAt(s, n, r))
    BY <1>1, CorePoints DEF PointOf
  <2>2. k <= e
    BY AskedType
  <2>3. /\ p.predecessor = PointAt(s, n, k) /\ p.successor = PointAt(s, n, e + 1)
        /\ p.first = NoPoint \/ p.first = PointAt(s, n, k + 1)
        /\ p.last = NoPoint \/ p.last = PointAt(s, n, e)
        /\ p.pageSuccessor = NoPoint \/ p.pageSuccessor = PointAt(s, n, a + m + 1)
    BY <2>2 DEF CoreIs
  <2>4. QED
    BY <1>2, <2>1, <2>3
<1>6. PICK points : points = <<p.predecessor, p.first, p.last, p.successor, p.pageSuccessor>>
  OBVIOUS
<1>7. \A i \in DOMAIN points : points[i] # NoPoint => verifyRevisionStreamProofPoint(Stream, p.pinned, points[i])
  <2>1. /\ DOMAIN points = 1 .. 5
        /\ points[1] = p.predecessor /\ points[2] = p.first /\ points[3] = p.last /\ points[4] = p.successor
        /\ points[5] = p.pageSuccessor
    BY <1>6
  <2>2. \A i \in 1 .. 5 : i = 1 \/ i = 2 \/ i = 3 \/ i = 4 \/ i = 5
    OBVIOUS
  <2>3. QED
    BY <1>5, <2>1, <2>2
<1>8. IF p.window # NoRange THEN WindowBracketed(q, p) ELSE EmptyWindowBracketed(q, p)
  BY CoreBrackets
<1>9. PageFollowsCursor(q, p) /\ EntriesChained(q, p) /\ TailAuthenticated(p)
  BY CoreFollowsCursor, CoreEntriesChained, CoreTail
<1>10. RangesOf(p, n, k, e, a, m)
  BY RangesOfCore
<1>11. p.hasMore <=> p.page # NoRange /\ p.window # NoRange /\ p.page.last < p.window.last
  <2>1. p.hasMore <=> m # 0 /\ a + m < e
    BY DEF CoreIs
  <2>2. /\ (p.page # NoRange <=> m # 0) /\ (p.window # NoRange <=> k # e)
        /\ m # 0 => k # e /\ p.page.last = a + m /\ p.window.last = e
    BY <1>10 DEF RangesOf
  <2>3. QED
    BY <2>1, <2>2
<1>12. p.next = IF p.hasMore THEN p.page.last ELSE 0
  <2>1. /\ p.hasMore <=> m # 0 /\ a + m < e
        /\ m # 0 /\ a + m < e => p.next = a + m
        /\ ~(m # 0 /\ a + m < e) => p.next = 0
    BY DEF CoreIs
  <2>2. m # 0 => p.page.last = a + m
    BY <1>10 DEF RangesOf
  <2>3. QED
    BY <2>1, <2>2
<1>13. QED
  BY <1>2, <1>4, <1>6, <1>7, <1>8, <1>9, <1>11, <1>12 DEF verifyRevisionStreamQueryPage

(* decodeRevisionStreamQueryPage accepts it.                               *)
LEMMA CoreAccepted ==
  ASSUME NEW s, NEW n, NEW live, NEW q, NEW p, NEW k \in Nat, NEW e \in Nat, NEW a \in Nat, NEW m \in Nat,
         Asked(s, n, live, q, k, e, a, m), CoreIs(s, n, live, p, k, e, a, m)
  PROVE  decodeRevisionStreamQueryPage(q, p)
<1>1. /\ p.pinned # NoHead /\ validateRevisionStreamHead(Stream, p.pinned)
      /\ p.live # NoHead /\ validateRevisionStreamHead(Stream, p.live)
      /\ q.pinned # NoHead => p.pinned = q.pinned
      /\ LiveHeadChecked(q, p)
  BY HeadsAccepted
<1>2. RangesOf(p, n, k, e, a, m)
  BY RangesOfCore
<1>3. /\ (p.window = NoRange <=> k = e) /\ (p.page = NoRange <=> m = 0)
      /\ k # e => p.window.first = k + 1 /\ p.window.last = e
      /\ m # 0 => p.page.first = a + 1 /\ p.page.last = a + m
      /\ n \in Nat /\ k <= e /\ e <= n
  BY <1>2 DEF RangesOf
<1>4. p.pinned.revision = n
  BY HeadFields DEF CoreIs
<1>5. decodeRevisionStreamRange(p.window)
  BY <1>3 DEF decodeRevisionStreamRange
<1>6. decodeRevisionStreamRange(p.page)
  BY <1>3 DEF decodeRevisionStreamRange
<1>7. p.window # NoRange => p.window.last <= p.pinned.revision
  BY <1>3, <1>4
<1>8. /\ q.after = 0 => q.window = NoRange
      /\ q.after # 0 => /\ a = q.after /\ k < a /\ a < e
                        /\ q.window = [first |-> k + 1, last |-> e]
                        /\ q.previousRoot = EventAt(s, a).root
  BY DEF Asked
<1>9. q.window # NoRange => p.window = q.window
  <2>1. SUFFICES ASSUME q.window # NoRange PROVE p.window = q.window
    OBVIOUS
  <2>2. k < e /\ q.window = [first |-> k + 1, last |-> e]
    BY <1>8, <2>1
  <2>3. p.window = [first |-> k + 1, last |-> e]
    BY <2>2 DEF CoreIs
  <2>4. QED
    BY <2>2, <2>3
<1>10. EntriesAre(s, n, p, a, m)
  BY EntriesOfCore
<1>11. \A i \in DOMAIN p.entries : p.entries[i].revision \in 1 .. p.pinned.revision
  BY <1>4, <1>10 DEF EntriesAre
<1>12. q.after # 0 /\ p.entries # <<>> => p.entries[1].previousRoot = q.previousRoot
  <2>1. SUFFICES ASSUME q.after # 0, p.entries # <<>> PROVE p.entries[1].previousRoot = q.previousRoot
    OBVIOUS
  <2>2. m # 0
    BY <1>10, <2>1 DEF EntriesAre
  <2>3. 1 \in 1 .. m
    BY <2>2
  <2>4. p.entries[1] = EventAt(s, a + 1) /\ a + 1 \in 1 .. n
    BY <1>10, <2>3 DEF EntriesAre
  <2>5. PICK r \in 1 .. n : r = a + 1 /\ r - 1 = a /\ r - 1 # 0
    <3>1. a + 1 \in 1 .. n /\ (a + 1) - 1 = a /\ a # 0
      BY <1>8, <2>1, <2>4
    <3>2. QED
      BY <3>1
  <2>6. EventFacts(s, r)
    BY AskedType DEF History
  <2>7. EventAt(s, r).previousRoot = EventAt(s, a).root
    BY <2>5, <2>6 DEF EventFacts, PreviousRoot
  <2>8. QED
    BY <1>8, <2>1, <2>4, <2>5, <2>7
<1>13. PageInWindow(q, p) /\ verifyRevisionStreamQueryPage(q, p)
  BY CorePageInWindow, CoreVerifies
<1>14. QED
  BY <1>1, <1>5, <1>6, <1>7, <1>9, <1>11, <1>12, <1>13 DEF decodeRevisionStreamQueryPage

(* What the reader's state and Core's knowledge make of a request.         *)
LEMMA ReaderAsks ==
  ASSUME NEW s, NEW live \in 0 .. MaxUint, History(s, live), NEW n \in 1 .. live, NEW q, RequestShaped(q), NEW es,
         ReaderState(q, "open", es),
         q.pinned # NoHead => q.pinned = HeadAt(s, n), q.pinned = NoHead => n = live,
         q.minimumLive # NoHead => \E r \in 1 .. live : q.minimumLive = HeadAt(s, r)
  PROVE  \E k, e, a, m \in Nat :
           /\ Asked(s, n, live, q, k, e, a, m)
           /\ q.after # 0 => a = q.after
           /\ q.after = 0 => a = k
           /\ m = (IF a + q.limit < e THEN q.limit ELSE e - a)
<1>1. n \in Nat /\ n \in 1 .. MaxUint /\ n \in 0 .. live
  BY WidthType
<1>2. History(s, n)
  BY <1>1, HistoryShorter
<1>3. q.from \in Int /\ q.until \in Int /\ q.limit \in Nat /\ q.after \in Nat
  BY DEF RequestShaped
<1>4. q.limit # 0 /\ (q.after = 0 => q.window = NoRange) /\ (q.after # 0 => q.pinned # NoHead)
  BY DEF ReaderState
<1>5. PICK from, until \in Int : from = q.from /\ until = q.until
  BY <1>3
<1>6. PICK k, e \in Nat : WindowIs(s, n, from, until, k, e)
  BY <1>1, <1>2, WindowExists
<1>7. WindowIs(s, n, q.from, q.until, k, e) /\ k <= e
  BY <1>5, <1>6 DEF WindowIs
<1>8. PICK a \in Nat : (q.after # 0 => a = q.after) /\ (q.after = 0 => a = k)
  BY <1>3
<1>9. q.after # 0 => /\ k < a /\ a < e /\ q.window = [first |-> k + 1, last |-> e]
                     /\ q.previousRoot = EventAt(s, a).root
  <2>1. SUFFICES ASSUME q.after # 0
                 PROVE  /\ k < a /\ a < e /\ q.window = [first |-> k + 1, last |-> e]
                        /\ q.previousRoot = EventAt(s, a).root
    OBVIOUS
  <2>2. \E k2, e2, c \in Nat : HoldsEvents(s, n, q, "open", es, k2, e2, c)
    BY <1>1, <1>2, <1>4, <2>1 DEF ReaderState
  <2>3. PICK k2, e2, c \in Nat : HoldsEvents(s, n, q, "open", es, k2, e2, c)
    BY <2>2
  <2>4. /\ WindowIs(s, n, q.from, q.until, k2, e2)
        /\ q.after = k2 + c /\ c # 0 /\ q.after < e2
        /\ q.window = [first |-> k2 + 1, last |-> e2]
        /\ q.previousRoot = EventAt(s, q.after).root
    BY <2>1, <2>3 DEF HoldsEvents
  <2>5. WindowIs(s, n, from, until, k2, e2)
    BY <2>4, <1>5
  <2>6. k2 = k /\ e2 = e
    BY <2>5, <1>1, <1>6, WindowUnique
  <2>7. QED
    BY <2>1, <2>4, <2>6, <1>8
<1>10. k <= a /\ a <= e
  BY <1>7, <1>8, <1>9
<1>11. PICK m \in Nat : m = (IF a + q.limit < e THEN q.limit ELSE e - a)
  BY <1>3, <1>10
<1>12. a + m <= e /\ m <= q.limit /\ (a < e => m # 0)
  BY <1>3, <1>4, <1>10, <1>11
<1>13. Asked(s, n, live, q, k, e, a, m)
  BY <1>3, <1>4, <1>7, <1>8, <1>9, <1>10, <1>12 DEF Asked
<1>14. QED
  BY <1>8, <1>11, <1>13

(* The right answer is that page.                                          *)
LEMMA CorePageIs ==
  ASSUME NEW s, NEW n, NEW live, NEW q, RequestShaped(q), NEW k \in Nat, NEW e \in Nat, NEW a \in Nat, NEW m \in Nat,
         Asked(s, n, live, q, k, e, a, m), q.after # 0 => a = q.after, q.after = 0 => a = k,
         m = (IF a + q.limit < e THEN q.limit ELSE e - a)
  PROVE  CoreIs(s, n, live, CorePage(s, n, live, q.from, q.until, q.after, q.limit), k, e, a, m)
<1>1. n \in Nat /\ k <= e /\ e <= n
  BY AskedType
<1>2. k <= a /\ a + m <= e
  BY DEF Asked
<1>3. q.limit \in Nat /\ q.after \in Nat
  BY DEF RequestShaped
<1>4. PICK from, until, after, limit : from = q.from /\ until = q.until /\ after = q.after /\ limit = q.limit
  OBVIOUS
<1>5. /\ Cardinality({r \in 1 .. n : EventAt(s, r).occurredAt < from}) = k
      /\ Cardinality(Revisions(s, n, from, until)) = e - k
  BY <1>4 DEF Asked, WindowIs, Skipped
<1>6. k + (e - k) = e
  OBVIOUS
<1>7. (IF after = 0 THEN k + 1 ELSE after + 1) = a + 1
  BY <1>4
<1>8. (IF a + 1 + limit - 1 < e THEN a + 1 + limit - 1 ELSE e) = a + m
  <2>1. a + 1 + limit - 1 = a + limit
    BY <1>3, <1>4
  <2>2. QED
    BY <2>1, <1>2, <1>3, <1>4
<1>9. CorePage(s, n, live, from, until, after, limit) = PageOf(s, n, live, RangeOf(k, e), k, a + 1, a + m)
  BY <1>5, <1>6, <1>7, <1>8 DEF CorePage, RangeOf
<1>10. PICK p : p = CorePage(s, n, live, from, until, after, limit)
  OBVIOUS
<1>11. CoreIs(s, n, live, p, k, e, a, m)
  BY <1>1, <1>2, <1>9, <1>10, PageOfIs
<1>12. QED
  BY <1>4, <1>10, <1>11

(* ReaderInv implies the property.                                         *)
LEMMA ReaderAccepts ==
  ASSUME ReaderInv
  PROVE  RightAnswerAccepted
<1>1. SUFFICES ASSUME phase = "open", NEW s \in {store, lost}, HeadOf(s) # NoHead, Knows(s, request.pinned),
                      Knows(s, request.minimumLive)
               PROVE  decodeRevisionStreamQueryPage(request, RightAnswer(s, request))
  BY DEF RightAnswerAccepted
<1>2. PICK q, es : q = request /\ es = entries
  OBVIOUS
<1>3. Canonical(s) /\ RequestShaped(q) /\ ReaderState(q, "open", es)
  BY <1>1, <1>2 DEF ReaderInv, QueryInv, StreamInv
<1>4. PICK live : live = HeadOf(s).revision
  OBVIOUS
<1>5. live \in 0 .. MaxUint /\ History(s, live)
  BY <1>3, <1>4, CanonicalHead
<1>6. PICK n \in 1 .. live : /\ RightAnswer(s, q) = CorePage(s, n, live, q.from, q.until, q.after, q.limit)
                             /\ q.pinned # NoHead => q.pinned = HeadAt(s, n)
                             /\ q.pinned = NoHead => n = live
  BY <1>1, <1>2, <1>3, <1>4, RightAnswerIs
<1>7. q.minimumLive # NoHead => \E r \in 1 .. live : q.minimumLive = HeadAt(s, r)
  BY <1>1, <1>2, <1>4 DEF Knows
<1>8. PICK k, e, a, m \in Nat :
           /\ Asked(s, n, live, q, k, e, a, m)
           /\ q.after # 0 => a = q.after
           /\ q.after = 0 => a = k
           /\ m = (IF a + q.limit < e THEN q.limit ELSE e - a)
  BY <1>3, <1>5, <1>6, <1>7, ReaderAsks
<1>9. CoreIs(s, n, live, RightAnswer(s, q), k, e, a, m)
  BY <1>3, <1>6, <1>8, CorePageIs
<1>10. decodeRevisionStreamQueryPage(q, RightAnswer(s, q))
  BY <1>8, <1>9, CoreAccepted
<1>11. QED
  BY <1>2, <1>10

(* The decoder refuses no right page: the answer of a Core that knows the  *)
(* pinned head and the live head shown before is accepted, whatever was    *)
(* appended since (decodeRevisionStreamQueryPage,                          *)
(* revision_stream.go:1254-1349).                                          *)
THEOREM RightAnswersAccepted == Spec => []RightAnswerAccepted
BY ReaderInvariant, ReaderAccepts, PTL

=============================================================================
