--------------------------- MODULE HashTable_proofs ---------------------------
(***************************************************************************)
(* Theorems about the hash table, for any keys, values and hashes and for  *)
(* tables of any size: its probes meet every bucket, a resize places every *)
(* node where its probe finds it, and so the table is a dictionary.         *)
(***************************************************************************)
EXTENDS HashTable, FiniteSetTheorems, FunctionTheorems, WellFoundedInduction, TLAPS

USE HashTableAssumption DEF Empty, Tombstone

-----------------------------------------------------------------------------
(* Induction over numbers, by the least counterexample *)

\* A set of numbers that is not empty has a least element.
LEMMA LeastNumber ==
    ASSUME NEW S \in SUBSET Nat, S # {}
    PROVE  \E n \in S : \A m \in S : n <= m
<1> DEFINE R == {ss \in Nat \X Nat : ss[1] < ss[2]}
<1>1. IsWellFoundedOn(R, Nat)
  BY NatLessThanWellFounded, Zenon DEF OpToRel
<1> HIDE DEF R
<1>2. PICK n \in S : \A m \in S : <<m, n>> \notin R
  BY <1>1, WFMin
<1>3. ASSUME NEW m \in S PROVE n <= m
  <2>1. <<m, n>> \notin R
    BY <1>2
  <2> QED BY <2>1 DEF R
<1> QED BY <1>3

\* A set of numbers that has 0, and with a number the next one, has all.
LEMMA AllNumbers ==
    ASSUME NEW S, 0 \in S, \A n \in Nat : n \in S => n + 1 \in S
    PROVE  Nat \subseteq S
<1> SUFFICES ASSUME Nat \ S # {} PROVE FALSE
  OBVIOUS
<1>1. PICK n \in Nat \ S : \A m \in Nat \ S : n <= m
  BY LeastNumber
<1>2. n # 0 /\ n - 1 \in Nat /\ n = (n - 1) + 1
  BY <1>1
<1>3. n - 1 \in S
  <2>1. ~(n <= n - 1)
    BY <1>1
  <2> QED BY <1>1, <1>2, <2>1
<1> QED BY <1>1, <1>2, <1>3

-----------------------------------------------------------------------------
(* Powers of two *)

\* A power of two is the number of the subsets of a set.
LEMMA PowerCounts ==
    ASSUME NEW n \in Nat
    PROVE  /\ IsFiniteSet(SUBSET (1..n)) /\ Cardinality(SUBSET (1..n)) = 2 ^ n
           /\ 2 ^ n \in Nat
<1>1. IsFiniteSet(1..n) /\ Cardinality(1..n) = n
  BY FS_Interval
<1>2. IsFiniteSet(SUBSET (1..n)) /\ Cardinality(SUBSET (1..n)) = 2 ^ Cardinality(1..n)
  BY <1>1, FS_SUBSET
<1>3. Cardinality(SUBSET (1..n)) = 2 ^ n
  BY <1>1, <1>2
<1> QED BY <1>2, <1>3, FS_CardinalityType

\* The next power of two: the subsets with the new element and those without it.
LEMMA PowerDoubles ==
    ASSUME NEW n \in Nat
    PROVE  2 ^ (n + 1) = 2 * 2 ^ n
<1> DEFINE A == SUBSET (1..n)
           B == {T \cup {n + 1} : T \in A}
           f == [T \in A |-> T \cup {n + 1}]
<1>1. IsFiniteSet(A) /\ Cardinality(A) = 2 ^ n /\ 2 ^ n \in Nat
  BY PowerCounts
<1>2. f \in Bijection(A, B)
  <2>1. f \in [A -> B]
    OBVIOUS
  <2>2. \A b \in B : \E a \in A : f[a] = b
    OBVIOUS
  <2>3. ASSUME NEW x \in A, NEW y \in A, f[x] = f[y] PROVE x = y
    <3>1. x = f[x] \ {n + 1} /\ y = f[y] \ {n + 1}
      OBVIOUS
    <3> QED BY <3>1, <2>3
  <2> HIDE DEF f, A, B
  <2> QED BY <2>1, <2>2, <2>3 DEF Bijection, Surjection, Injection, IsInjective
<1>3. IsFiniteSet(B) /\ Cardinality(B) = 2 ^ n
  BY <1>1, <1>2, FS_Bijection DEF ExistsBijection
<1>4. A \cap B = {}
  OBVIOUS
<1>5. SUBSET (1..(n + 1)) = A \cup B
  <2>1. ASSUME NEW T \in SUBSET (1..(n + 1)) PROVE T \in A \cup B
    <3>1. CASE n + 1 \in T
      <4>1. T \ {n + 1} \in A
        BY <2>1
      <4>2. T = (T \ {n + 1}) \cup {n + 1}
        BY <3>1
      <4> QED BY <4>1, <4>2
    <3>2. CASE n + 1 \notin T
      BY <2>1, <3>2
    <3> QED BY <3>1, <3>2
  <2>2. A \subseteq SUBSET (1..(n + 1)) /\ B \subseteq SUBSET (1..(n + 1))
    <3>1. 1..n \subseteq 1..(n + 1) /\ n + 1 \in 1..(n + 1)
      OBVIOUS
    <3> QED BY <3>1
  <2> HIDE DEF A, B
  <2> QED BY <2>1, <2>2
<1>6. Cardinality(A \cup B) = 2 ^ n + 2 ^ n
  <2> HIDE DEF A, B
  <2>1. Cardinality(A \cup B) = 2 ^ n + 2 ^ n - Cardinality({})
    BY <1>1, <1>3, <1>4, FS_Union
  <2> QED BY <2>1, <1>1, FS_EmptySet
<1>7. Cardinality(SUBSET (1..(n + 1))) = 2 ^ (n + 1)
  BY PowerCounts
<1>8. 2 ^ (n + 1) = 2 ^ n + 2 ^ n
  <2> HIDE DEF A, B
  <2> QED BY <1>5, <1>6, <1>7
<1>9. \A x \in Nat : x + x = 2 * x
  OBVIOUS
<1> QED BY <1>1, <1>8, <1>9

\* Powers of two are greater than their exponents, and grow with them.
LEMMA PowerGrows ==
    /\ \A n \in Nat : 2 ^ n \in Nat /\ n < 2 ^ n /\ 2 ^ n > 0
    /\ \A m, n \in Nat : m <= n => 2 ^ m <= 2 ^ n
<1>1. \A n \in Nat : 2 ^ n \in Nat
  BY PowerCounts
<1>2. \A n \in Nat : n < 2 ^ n
  <2> DEFINE S == {n \in Nat : n < 2 ^ n}
  <2>1. 0 \in S
    OBVIOUS
  <2>2. ASSUME NEW n \in Nat, n \in S PROVE n + 1 \in S
    <3>1. 2 ^ (n + 1) = 2 * 2 ^ n /\ 2 ^ n \in Nat
      BY <1>1, PowerDoubles
    <3> QED BY <2>2, <3>1
  <2>3. Nat \subseteq S
    <3> HIDE DEF S
    <3> QED BY <2>1, <2>2, AllNumbers
  <2> QED BY <2>3
<1>3. ASSUME NEW m \in Nat PROVE \A n \in Nat : m <= n => 2 ^ m <= 2 ^ n
  <2> DEFINE S == {n \in Nat : m <= n => 2 ^ m <= 2 ^ n}
  <2>1. 0 \in S
    <3>1. ASSUME m <= 0 PROVE 2 ^ m <= 2 ^ 0
      <4>1. m = 0
        BY <3>1
      <4>2. 2 ^ m = 2 ^ 0 /\ 2 ^ m \in Nat
        BY <4>1, <1>1
      <4>3. \A x \in Nat : x <= x
        OBVIOUS
      <4> QED BY <4>2, <4>3
    <3> QED BY <3>1
  <2>2. ASSUME NEW n \in Nat, n \in S PROVE n + 1 \in S
    <3>1. 2 ^ (n + 1) = 2 * 2 ^ n /\ 2 ^ n \in Nat /\ 2 ^ m \in Nat
      BY <1>1, PowerDoubles
    <3>2. CASE m = n + 1
      BY <3>1, <3>2
    <3>3. CASE m # n + 1
      BY <2>2, <3>1, <3>3
    <3> QED BY <3>2, <3>3
  <2>3. Nat \subseteq S
    <3> HIDE DEF S
    <3> QED BY <2>1, <2>2, AllNumbers
  <2> QED BY <2>3
<1>4. \A n \in Nat : 2 ^ n > 0
  BY <1>1, <1>2
<1> QED BY <1>1, <1>2, <1>3, <1>4

-----------------------------------------------------------------------------
(* Probes *)

\* What the growing steps of a probe add up to
Triangle(t) == (t * (t + 1)) \div 2

\* The division by two in a probe's step loses nothing.
LEMMA TriangleDoubled ==
    ASSUME NEW t \in Nat
    PROVE  Triangle(t) \in Nat /\ 2 * Triangle(t) = t * (t + 1)
<1>1. PICK q \in Nat : t = 2 * q \/ t = 2 * q + 1
  <2>1. t = 2 * (t \div 2) + (t % 2) /\ t % 2 \in {0, 1} /\ t \div 2 \in Nat
    OBVIOUS
  <2> QED BY <2>1
<1>2. \E c \in Nat : t * (t + 1) = 2 * c
  <2>1. CASE t = 2 * q
    <3>1. t * (t + 1) = 2 * (q * (2 * q + 1)) /\ q * (2 * q + 1) \in Nat
      BY <2>1
    <3> QED BY <3>1
  <2>2. CASE t = 2 * q + 1
    <3>1. t * (t + 1) = 2 * ((2 * q + 1) * (q + 1)) /\ (2 * q + 1) * (q + 1) \in Nat
      BY <2>2
    <3> QED BY <3>1
  <2> QED BY <1>1, <2>1, <2>2
<1>3. \A c \in Nat : (2 * c) \div 2 = c
  OBVIOUS
<1> QED BY <1>2, <1>3 DEF Triangle

\* A power of two that divides a product divides a factor if the other is odd.
LEMMA OddFactor ==
    ASSUME NEW a \in Int, NEW q \in Int, a = 2 * q + 1
    PROVE  \A n \in Nat : \A b, c \in Int : a * b = c * 2 ^ n => \E d \in Int : b = d * 2 ^ n
<1> DEFINE S == {n \in Nat : \A b, c \in Int : a * b = c * 2 ^ n => \E d \in Int : b = d * 2 ^ n}
<1>1. 0 \in S
  <2>1. 2 ^ 0 = 1
    OBVIOUS
  <2>2. \A b \in Int : b = b * 1
    OBVIOUS
  <2> QED BY <2>1, <2>2
<1>2. ASSUME NEW n \in Nat, n \in S PROVE n + 1 \in S
  <2>1. 2 ^ (n + 1) = 2 * 2 ^ n /\ 2 ^ n \in Nat
    BY PowerDoubles, PowerGrows
  <2>2. ASSUME NEW b \in Int, NEW c \in Int, a * b = c * 2 ^ (n + 1)
        PROVE  \E d \in Int : b = d * 2 ^ (n + 1)
    <3>1. ASSUME NEW x \in Nat, a * b = c * (2 * x) PROVE \E e \in Int : b = 2 * e /\ a * e = c * x
      <4>1. b = 2 * (c * x - q * b)
        <5>1. a * b = 2 * (q * b) + b
          BY SMT
        <5>2. c * (2 * x) = 2 * (c * x)
          OBVIOUS
        <5> QED BY <3>1, <5>1, <5>2
      <4> DEFINE e == c * x - q * b
      <4>2. e \in Int
        OBVIOUS
      <4> HIDE DEF e
      <4>3. b = 2 * e
        BY <4>1 DEF e
      <4>4. a * b = 2 * (a * e) /\ c * (2 * x) = 2 * (c * x)
        BY <4>2, <4>3
      <4>5. a * e \in Int /\ c * x \in Int
        BY <4>2
      <4>6. a * e = c * x
        <5>1. 2 * (a * e) = 2 * (c * x)
          BY <3>1, <4>4
        <5>2. \A y, z \in Int : 2 * y = 2 * z => y = z
          OBVIOUS
        <5> QED BY <5>1, <5>2, <4>5
      <4> QED BY <4>2, <4>3, <4>6
    <3>2. PICK e \in Int : b = 2 * e /\ a * e = c * 2 ^ n
      BY <2>1, <2>2, <3>1
    <3>3. PICK d \in Int : e = d * 2 ^ n
      BY <1>2, <3>2
    <3>4. \A x \in Nat : 2 * (d * x) = d * (2 * x)
      OBVIOUS
    <3> QED BY <2>1, <3>2, <3>3, <3>4
  <2> QED BY <2>2
<1>3. Nat \subseteq S
  <2> HIDE DEF S
  <2> QED BY <1>1, <1>2, AllNumbers
<1> QED BY <1>3

\* Numbers with the same remainder differ by a multiple.
LEMMA SameRemainder ==
    ASSUME NEW a \in Int, NEW c \in Int, NEW m \in Nat, m > 0, a % m = c % m
    PROVE  \E k \in Int : a - c = k * m
<1>1. a = m * (a \div m) + (a % m) /\ c = m * (c \div m) + (c % m)
  OBVIOUS
<1>2. a \div m \in Int /\ c \div m \in Int
  OBVIOUS
<1> DEFINE k == a \div m - c \div m
<1>3. k \in Int /\ a - c = k * m
  BY <1>1, <1>2
<1> HIDE DEF k
<1> QED BY <1>3

\* Within as many steps as there are buckets, a probe meets none of them twice.
LEMMA ProbeMeetsOnce ==
    ASSUME NEW h \in Nat, NEW s \in Nat, NEW t \in 0..(2 ^ s - 1), NEW u \in 0..(2 ^ s - 1), u < t,
           h % prime_mod[s + 1] \in Nat
    PROVE  Probe(h, t, s) # Probe(h, u, s)
<1> SUFFICES ASSUME Probe(h, t, s) = Probe(h, u, s) PROVE FALSE
  OBVIOUS
<1> DEFINE x == h % prime_mod[s + 1]
<1>0. 2 ^ s \in Nat /\ 2 ^ s > 0 /\ t \in Nat /\ u \in Nat /\ 2 ^ (s + 1) = 2 * 2 ^ s
      /\ 2 ^ (s + 1) \in Nat /\ x \in Nat /\ t < 2 ^ s /\ u < 2 ^ s
  BY PowerGrows, PowerDoubles
<1> HIDE DEF x
<1>1. Triangle(t) \in Nat /\ 2 * Triangle(t) = t * (t + 1)
      /\ Triangle(u) \in Nat /\ 2 * Triangle(u) = u * (u + 1)
  BY <1>0, TriangleDoubled
<1>2. PICK k \in Int : (x + Triangle(t)) - (x + Triangle(u)) = k * 2 ^ s
  <2>1. (x + Triangle(t)) % 2 ^ s = (x + Triangle(u)) % 2 ^ s
    BY DEF Probe, Triangle, x
  <2>2. x + Triangle(t) \in Int /\ x + Triangle(u) \in Int /\ 2 ^ s \in Nat /\ 2 ^ s > 0
    BY <1>0, <1>1
  <2> QED BY <2>1, <2>2, SameRemainder
<1>3. Triangle(t) - Triangle(u) = k * 2 ^ s
  <2> k * 2 ^ s \in Int
    BY <1>0
  <2> QED BY <1>0, <1>1, <1>2
<1>4. (t - u) * (t + u + 1) = k * 2 ^ (s + 1)
  <2>1. (t - u) * (t + u + 1) = t * (t + 1) - u * (u + 1)
    BY <1>0
  <2>2. t * (t + 1) - u * (u + 1) = 2 * (k * 2 ^ s)
    BY <1>0, <1>1, <1>3
  <2>3. \A y \in Nat : 2 * (k * y) = k * (2 * y)
    OBVIOUS
  <2> QED BY <1>0, <2>1, <2>2, <2>3
<1>5. \A d \in Int, y \in Nat, z \in Nat : 0 < z /\ z < y => z # d * y
  OBVIOUS
<1>6. PICK q \in Int : t - u = 2 * q + 1 \/ t + u + 1 = 2 * q + 1
  <2>1. t - u = 2 * ((t - u) \div 2) + ((t - u) % 2) /\ (t - u) % 2 \in {0, 1}
        /\ (t - u) \div 2 \in Int
    BY <1>0
  <2>2. CASE (t - u) % 2 = 1
    BY <2>1, <2>2
  <2>3. CASE (t - u) % 2 = 0
    <3>1. t + u + 1 = 2 * (u + (t - u) \div 2) + 1
      BY <1>0, <2>1, <2>3
    <3> QED BY <1>0, <2>1, <3>1
  <2> QED BY <2>1, <2>2, <2>3
<1>7. CASE t - u = 2 * q + 1
  <2>0. t - u \in Int /\ t + u + 1 \in Int /\ s + 1 \in Nat
    BY <1>0
  <2>1. PICK d \in Int : t + u + 1 = d * 2 ^ (s + 1)
    <3>1. \A n \in Nat : \A b, c \in Int : (t - u) * b = c * 2 ^ n => \E d \in Int : b = d * 2 ^ n
      BY <1>7, <2>0, OddFactor
    <3> QED BY <1>4, <2>0, <3>1
  <2>2. t + u + 1 < 2 ^ (s + 1) /\ t + u + 1 > 0
    BY <1>0
  <2> QED BY <1>0, <2>1, <2>2, <1>5
<1>8. CASE t + u + 1 = 2 * q + 1
  <2>1. (t + u + 1) * (t - u) = k * 2 ^ (s + 1)
    BY <1>0, <1>4
  <2>0. t - u \in Int /\ t + u + 1 \in Int /\ s + 1 \in Nat
    BY <1>0
  <2>2. PICK d \in Int : t - u = d * 2 ^ (s + 1)
    <3>1. \A n \in Nat : \A b, c \in Int : (t + u + 1) * b = c * 2 ^ n => \E d \in Int : b = d * 2 ^ n
      BY <1>8, <2>0, OddFactor
    <3> QED BY <2>0, <2>1, <3>1
  <2>3. t - u < 2 ^ (s + 1) /\ t - u > 0
    BY <1>0
  <2> QED BY <1>0, <2>2, <2>3, <1>5
<1> QED BY <1>6, <1>7, <1>8

\* The divisors of first buckets are positive, up to the largest table.
LEMMA ModIsPositive ==
    ASSUME NEW s \in 0..31
    PROVE  prime_mod[s + 1] \in Nat /\ prime_mod[s + 1] > 0
<1>1. s + 1 \in 1..32
  OBVIOUS
<1> QED BY <1>1 DEF prime_mod

Buckets(s) == 0..(2 ^ s - 1)

\* A table of shift s has 2^s buckets.
LEMMA BucketsCount ==
    ASSUME NEW s \in Nat
    PROVE  IsFiniteSet(Buckets(s)) /\ Cardinality(Buckets(s)) = 2 ^ s /\ Buckets(s) \subseteq Nat
<1>1. 2 ^ s \in Nat /\ 2 ^ s > 0
  BY PowerGrows
<1>2. \A n \in Nat : n > 0 => IsFiniteSet(0..(n - 1)) /\ Cardinality(0..(n - 1)) = n
  BY FS_Interval
<1>3. 0..(2 ^ s - 1) \subseteq Nat
  BY <1>1
<1> QED BY <1>1, <1>2, <1>3 DEF Buckets

\* Within as many steps as there are buckets, a probe meets all of them.
LEMMA ProbeMeetsAll ==
    ASSUME NEW h \in Nat, NEW s \in 0..31
    PROVE  /\ \A t \in Nat : Probe(h, t, s) \in Buckets(s)
           /\ \A b \in Buckets(s) : \E t \in Buckets(s) : Probe(h, t, s) = b
<1> DEFINE f == [t \in Buckets(s) |-> Probe(h, t, s)]
<1>0. s \in Nat /\ 2 ^ s \in Nat /\ 2 ^ s > 0 /\ h % prime_mod[s + 1] \in Nat
  <2>1. \A p \in Nat : p > 0 => h % p \in Nat
    OBVIOUS
  <2> QED BY <2>1, ModIsPositive, PowerGrows
<1>1. ASSUME NEW t \in Nat PROVE Probe(h, t, s) \in Buckets(s)
  <2>1. Triangle(t) \in Nat
    BY TriangleDoubled
  <2>2. \A x \in Nat, n \in Nat : n > 0 => x % n \in 0..(n - 1)
    OBVIOUS
  <2>3. (h % prime_mod[s + 1]) + Triangle(t) \in Nat
    BY <1>0, <2>1
  <2> QED BY <1>0, <2>2, <2>3 DEF Probe, Triangle, Buckets
<1>2. f \in Injection(Buckets(s), Buckets(s))
  <2>1. f \in [Buckets(s) -> Buckets(s)]
    BY <1>0, <1>1, BucketsCount
  <2>2. ASSUME NEW t \in Buckets(s), NEW u \in Buckets(s), f[t] = f[u] PROVE t = u
    <3>1. Probe(h, t, s) = Probe(h, u, s)
      BY <2>2
    <3>2. t \in Nat /\ u \in Nat
      BY <1>0, BucketsCount
    <3>3. ~(u < t)
      BY <1>0, <3>1, ProbeMeetsOnce DEF Buckets
    <3>4. ~(t < u)
      BY <1>0, <3>1, ProbeMeetsOnce DEF Buckets
    <3> QED BY <3>2, <3>3, <3>4
  <2> HIDE DEF f
  <2> QED BY <2>1, <2>2 DEF Injection, IsInjective
<1>3. f \in Surjection(Buckets(s), Buckets(s))
  <2> HIDE DEF f
  <2> QED BY <1>0, <1>2, BucketsCount, FS_Injection
<1>4. \A b \in Buckets(s) : \E t \in Buckets(s) : f[t] = b
  <2> HIDE DEF f
  <2> QED BY <1>3 DEF Surjection
<1> QED BY <1>1, <1>4

-----------------------------------------------------------------------------
(* A resize *)

\* The first free bucket of a probe is free, and all before it are taken.
LEMMA FirstFreeIsFree ==
    ASSUME NEW h \in Nat, NEW s \in 0..31, NEW taken, Buckets(s) \ taken # {}
    PROVE  \E t \in Buckets(s) : /\ FirstFree(h, taken, s) = Probe(h, t, s)
                                 /\ Probe(h, t, s) \in Buckets(s) \ taken
                                 /\ \A u \in 0..(t - 1) : Probe(h, u, s) \in taken
<1> DEFINE S == {t \in Buckets(s) : Probe(h, t, s) \notin taken}
<1>1. Buckets(s) \subseteq Nat
  BY BucketsCount
<1>2. S # {} /\ S \in SUBSET Nat
  <2>1. PICK b \in Buckets(s) : b \notin taken
    OBVIOUS
  <2>2. PICK t \in Buckets(s) : Probe(h, t, s) = b
    BY ProbeMeetsAll
  <2> QED BY <1>1, <2>1, <2>2
<1>3. PICK t \in S : \A m \in S : t <= m
  <2> HIDE DEF S
  <2> QED BY <1>2, LeastNumber
<1>4. \A u \in 0..(t - 1) : Probe(h, u, s) \in taken
  <2>1. ASSUME NEW u \in 0..(t - 1) PROVE u \in Buckets(s) /\ ~(t <= u)
    BY <1>1, PowerGrows DEF Buckets
  <2> QED BY <1>3, <2>1
<1> DEFINE First(r) == Probe(h, r, s) \notin taken /\ \A u \in 0..(r - 1) : Probe(h, u, s) \in taken
           r == CHOOSE r \in 0..(2 ^ s - 1) : First(r)
<1>5. \E w \in 0..(2 ^ s - 1) : First(w)
  BY <1>3, <1>4 DEF Buckets
<1>6. r \in 0..(2 ^ s - 1) /\ First(r)
  <2> HIDE DEF First
  <2> QED BY <1>5
<1>7. FirstFree(h, taken, s) = Probe(h, r, s)
  BY DEF FirstFree
<1> HIDE DEF r
<1>8. Probe(h, r, s) \in Buckets(s)
  BY <1>1, <1>6, ProbeMeetsAll DEF Buckets
<1> QED BY <1>6, <1>7, <1>8 DEF Buckets

\* The loop of a resize gives a node the first bucket on its probe that it has
\* not given to one before: the definition of Placement is that of a function.
LEMMA PlacementIsLoop ==
    ASSUME NEW old, NEW s, NEW m \in Nat, DOMAIN old \subseteq 0..(m - 1)
    PROVE  Placement(old, s) =
              [i \in Live(old) |->
                  FirstFree(old[i].key_hash,
                            {Placement(old, s)[j] : j \in {k \in Live(old) : k < i}}, s)]
<1> DEFINE L == Live(old)
           Below(n) == {k \in L : k < n}
           Step(p, i) == FirstFree(old[i].key_hash, {p[j] : j \in {k \in L : k < i}}, s)
           S == {n \in Nat : \E p : p = [i \in Below(n) |-> Step(p, i)]}
<1>1. \A k \in L : k \in Nat /\ 0 <= k /\ k < m
  BY DEF Live
<1> HIDE DEF L
<1>2. 0 \in S
  <2>1. Below(0) = {}
    <3>1. \A k \in L : ~(k < 0)
      BY <1>1
    <3> QED BY <3>1
  <2> DEFINE p == [i \in Below(0) |-> 0]
  <2>2. p = [i \in Below(0) |-> Step(p, i)]
    <3> HIDE DEF Step
    <3> QED BY <2>1
  <2> QED BY <2>2
<1>3. ASSUME NEW n \in Nat, n \in S PROVE n + 1 \in S
  <2>1. PICK p : p = [i \in Below(n) |-> Step(p, i)]
    BY <1>3
  <2> DEFINE q == [i \in Below(n + 1) |-> Step(p, i)]
  <2>2. ASSUME NEW i \in Below(n + 1) PROVE Step(p, i) = Step(q, i)
    <3>1. ASSUME NEW j \in {k \in L : k < i} PROVE p[j] = q[j]
      <4>1. j \in Below(n) /\ j \in Below(n + 1)
        BY <1>1, <2>2, <3>1
      <4>2. p[j] = Step(p, j)
        <5> HIDE DEF Step, Below
        <5> QED BY <2>1, <4>1
      <4>3. q[j] = Step(p, j)
        <5> HIDE DEF Step, Below
        <5> QED BY <4>1
      <4> QED BY <4>2, <4>3
    <3>2. {p[j] : j \in {k \in L : k < i}} = {q[j] : j \in {k \in L : k < i}}
      <4> HIDE DEF q
      <4> QED BY <3>1
    <3> QED BY <3>2
  <2>3. q = [i \in Below(n + 1) |-> Step(q, i)]
    <3>1. \A i \in Below(n + 1) : q[i] = Step(q, i)
      <4> HIDE DEF Step, Below
      <4> QED BY <2>2
    <3>2. q = [i \in Below(n + 1) |-> q[i]]
      OBVIOUS
    <3> HIDE DEF Step, Below, q
    <3> QED BY <3>1, <3>2
  <2> HIDE DEF q, Step, Below
  <2> QED BY <2>3
<1>4. m \in S
  <2> HIDE DEF S
  <2> QED BY <1>2, <1>3, AllNumbers
<1>5. Below(m) = L
  BY <1>1
<1>6. \E p : p = [i \in L |-> Step(p, i)]
  <2>1. \E p : p = [i \in Below(m) |-> Step(p, i)]
    BY <1>4
  <2> HIDE DEF Below, Step
  <2> QED BY <2>1, <1>5
<1> DEFINE p == CHOOSE p : p = [i \in L |-> Step(p, i)]
<1>7. p = [i \in L |-> Step(p, i)]
  <2> HIDE DEF Step
  <2> QED BY <1>6
<1>8. Placement(old, s) = p
  BY DEF Placement, L
<1> HIDE DEF p
<1> QED BY <1>7, <1>8 DEF L

-----------------------------------------------------------------------------
(* What holds of the buckets between two operations *)

\* The buckets that are not empty
Occupied(table) == {i \in DOMAIN table : table[i].key_hash # Empty}

\* The probe of hash h comes to bucket i, and over no empty one before
Comes(table, s, h, i) ==
    \E t \in Buckets(s) :
        /\ Probe(h, t, s) = i
        /\ \A u \in 0..(t - 1) : table[Probe(h, u, s)].key_hash # Empty

\* The probe of a node comes to its bucket
Reached(table, s, i) == Comes(table, s, table[i].key_hash, i)

\* A table of 2^s buckets in which lookups find what is stored
IsTable(table, s) ==
    /\ table \in [Buckets(s) -> HashNode]
    /\ \A i \in Live(table) : /\ table[i].key \in Keys /\ table[i].value \in Vals
                             /\ table[i].key_hash = HashValue(table[i].key)
    /\ \A i, j \in Live(table) : table[i].key = table[j].key => i = j
    /\ \A i \in Live(table) : Reached(table, s, i)

\* What the nodes of a table hold
Held(table) ==
    [k \in Keys |->
        IF \E i \in Live(table) : table[i].key = k
        THEN table[CHOOSE i \in Live(table) : table[i].key = k].value
        ELSE NULL]

\* The node of a key is the one that holds its value.
LEMMA HeldBy ==
    ASSUME NEW table, \A i, j \in Live(table) : table[i].key = table[j].key => i = j,
           NEW i \in Live(table), table[i].key \in Keys
    PROVE  Held(table)[table[i].key] = table[i].value
<1> DEFINE k == table[i].key
           c == CHOOSE j \in Live(table) : table[j].key = k
<1>1. c \in Live(table) /\ table[c].key = k
  OBVIOUS
<1>2. c = i
  BY <1>1
<1>3. Held(table)[k] = table[c].value
  BY DEF Held
<1> QED BY <1>2, <1>3

\* A key that no node has is not held.
LEMMA NotHeld ==
    ASSUME NEW table, NEW k \in Keys, \A i \in Live(table) : table[i].key # k
    PROVE  Held(table)[k] = NULL
  BY DEF Held

\* A table with the same keys and values holds the same.
LEMMA SameHeld ==
    ASSUME NEW old, NEW new,
           \A i, j \in Live(old) : old[i].key = old[j].key => i = j,
           \A i, j \in Live(new) : new[i].key = new[j].key => i = j,
           \A i \in Live(old) : \E b \in Live(new) : new[b].key = old[i].key /\ new[b].value = old[i].value,
           \A b \in Live(new) : \E i \in Live(old) : new[b].key = old[i].key /\ new[b].value = old[i].value
    PROVE  Held(new) = Held(old)
<1>1. ASSUME NEW k \in Keys PROVE Held(new)[k] = Held(old)[k]
  <2>1. CASE \E i \in Live(old) : old[i].key = k
    <3>1. PICK i \in Live(old) : old[i].key = k
      BY <2>1
    <3>2. PICK b \in Live(new) : new[b].key = k /\ new[b].value = old[i].value
      BY <3>1
    <3>3. Held(old)[k] = old[i].value
      BY <3>1, HeldBy
    <3>4. Held(new)[k] = new[b].value
      BY <3>2, HeldBy
    <3> QED BY <3>2, <3>3, <3>4
  <2>2. CASE \A i \in Live(old) : old[i].key # k
    <3>1. \A b \in Live(new) : new[b].key # k
      BY <2>2
    <3> QED BY <2>2, <3>1, NotHeld
  <2> QED BY <2>1, <2>2
<1>2. Held(new) = [k \in Keys |-> Held(new)[k]] /\ Held(old) = [k \in Keys |-> Held(old)[k]]
  BY DEF Held
<1> QED BY <1>1, <1>2

\* The probe of a node in the new table comes to the bucket it is given over
\* buckets given to nodes
OverPlaced(old, s, i) ==
    \E t \in Buckets(s) :
        /\ Probe(old[i].key_hash, t, s) = Placement(old, s)[i]
        /\ \A u \in 0..(t - 1) : \E j \in Live(old) :
               Probe(old[i].key_hash, u, s) = Placement(old, s)[j]

\* The loop of a resize gives each node a bucket of its own, where its probe in the
\* new table comes to over the buckets of nodes placed before it.
LEMMA PlacementKeeps ==
    ASSUME NEW old, NEW r \in 0..31, IsTable(old, r), NEW s \in 0..31,
           Cardinality(Live(old)) < 2 ^ s, NEW i \in Live(old)
    PROVE  /\ Placement(old, s)[i] \in Buckets(s)
           /\ \A j \in Live(old) : j < i => Placement(old, s)[i] # Placement(old, s)[j]
           /\ OverPlaced(old, s, i)
<1> DEFINE L == Live(old)
           p == Placement(old, s)
           B == {k \in L : k < i}
           taken == {p[j] : j \in B}
<1>0. r \in Nat /\ s \in Nat /\ DOMAIN old = Buckets(r) /\ L \subseteq Buckets(r) /\ Buckets(r) \subseteq Nat
  BY BucketsCount DEF IsTable, Live
<1>1. p = [j \in L |-> FirstFree(old[j].key_hash, {p[k] : k \in {k \in L : k < j}}, s)]
  <2>1. 2 ^ r \in Nat
    BY <1>0, PowerGrows
  <2> QED BY <1>0, <2>1, PlacementIsLoop DEF Buckets
<1>2. p[i] = FirstFree(old[i].key_hash, taken, s)
  <2> HIDE DEF p, L
  <2> QED BY <1>1 DEF L
<1>3. IsFiniteSet(L) /\ IsFiniteSet(B) /\ Cardinality(B) <= Cardinality(L)
  <2>1. IsFiniteSet(L)
    BY <1>0, BucketsCount, FS_Subset
  <2>2. B \in SUBSET L
    OBVIOUS
  <2> HIDE DEF B, L
  <2> QED BY <2>1, <2>2, FS_Subset
<1>4. IsFiniteSet(taken) /\ Cardinality(taken) <= Cardinality(B)
  <2> DEFINE g == [j \in B |-> p[j]]
  <2>1. g \in Surjection(B, taken)
    <3> HIDE DEF p, L, B
    <3> QED BY DEF Surjection
  <2> HIDE DEF g, taken, B
  <2> QED BY <1>3, <2>1, FS_Surjection
<1>5. Buckets(s) \ taken # {}
  <2>1. ASSUME Buckets(s) \subseteq taken PROVE FALSE
    <3>1. Cardinality(Buckets(s)) <= Cardinality(taken)
      <4> HIDE DEF taken
      <4> QED BY <1>4, <2>1, FS_Subset
    <3>2. Cardinality(Buckets(s)) = 2 ^ s /\ 2 ^ s \in Nat
      BY <1>0, BucketsCount, PowerGrows
    <3>3. Cardinality(B) \in Nat /\ Cardinality(L) \in Nat /\ Cardinality(taken) \in Nat
      <4> HIDE DEF taken, B, L
      <4> QED BY <1>3, <1>4, FS_CardinalityType
    <3> HIDE DEF taken, B
    <3> QED BY <1>3, <1>4, <3>1, <3>2, <3>3
  <2> HIDE DEF taken
  <2> QED BY <2>1
<1>6. old[i].key_hash \in Nat
  BY <1>0 DEF IsTable, HashNode
<1>7. PICK t \in Buckets(s) :
          /\ FirstFree(old[i].key_hash, taken, s) = Probe(old[i].key_hash, t, s)
          /\ Probe(old[i].key_hash, t, s) \in Buckets(s) \ taken
          /\ \A u \in 0..(t - 1) : Probe(old[i].key_hash, u, s) \in taken
  <2> HIDE DEF taken
  <2> QED BY <1>5, <1>6, FirstFreeIsFree
<1> HIDE DEF p
<1> QED BY <1>2, <1>7 DEF p, OverPlaced

\* A resize keeps what the table holds, and leaves no tombstone.
LEMMA RehashKeeps ==
    ASSUME NEW old, NEW r \in 0..31, IsTable(old, r), NEW s \in 0..31,
           Cardinality(Live(old)) < 2 ^ s
    PROVE  /\ IsTable(Rehashed(old, s), s)
           /\ Held(Rehashed(old, s)) = Held(old)
           /\ Cardinality(Live(Rehashed(old, s))) = Cardinality(Live(old))
           /\ Occupied(Rehashed(old, s)) = Live(Rehashed(old, s))
<1> DEFINE L == Live(old)
           p == Placement(old, s)
           new == Rehashed(old, s)
<1>0. r \in Nat /\ s \in Nat /\ DOMAIN old = Buckets(r) /\ L \subseteq Buckets(r) /\ Buckets(r) \subseteq Nat
  BY BucketsCount DEF IsTable, Live
<1>1. \A i \in L : /\ old[i] \in HashNode /\ old[i].key_hash > Tombstone
                   /\ old[i].key \in Keys /\ old[i].value \in Vals
                   /\ old[i].key_hash = HashValue(old[i].key)
  BY <1>0 DEF IsTable, Live
<1>2. \A i \in L : p[i] \in Buckets(s)
  BY PlacementKeeps
<1>a. ASSUME NEW i \in L
      PROVE  \E t \in Buckets(s) :
                /\ Probe(old[i].key_hash, t, s) = p[i]
                /\ \A u \in 0..(t - 1) : \E j \in L : Probe(old[i].key_hash, u, s) = p[j]
  <2>1. OverPlaced(old, s, i)
    BY PlacementKeeps
  <2> QED BY <2>1 DEF OverPlaced
<1>3. \A i, j \in L : p[i] = p[j] => i = j
  <2>1. ASSUME NEW i \in L, NEW j \in L, p[i] = p[j] PROVE ~(i < j)
    <3>1. \A k \in L : k < j => p[j] # p[k]
      BY PlacementKeeps
    <3> QED BY <2>1, <3>1
  <2>2. \A i \in L : i \in Nat
    BY <1>0
  <2> HIDE DEF p, L
  <2> QED BY <2>1, <2>2
<1>4. \A i \in L : new[p[i]] = old[i]
  <2>1. ASSUME NEW i \in L PROVE new[p[i]] = old[i]
    <3>1. (CHOOSE k \in Live(old) : p[k] = p[i]) = i
      <4> HIDE DEF p
      <4> QED BY <1>3
    <3>2. p[i] \in 0..(2 ^ s - 1)
      BY <1>2 DEF Buckets
    <3>3. new[p[i]] = old[CHOOSE k \in Live(old) : p[k] = p[i]]
      BY <3>2 DEF Rehashed
    <3> HIDE DEF new, p
    <3> QED BY <3>1, <3>3
  <2> QED BY <2>1
<1>5. \A b \in Buckets(s) : (\A i \in L : p[i] # b) => new[b] = EmptyNode
  <2>1. ASSUME NEW b \in Buckets(s), \A i \in L : p[i] # b PROVE new[b] = EmptyNode
    BY <2>1 DEF Rehashed, Buckets
  <2> QED BY <2>1
<1>6. DOMAIN new = Buckets(s) /\ new = [b \in Buckets(s) |-> new[b]]
  BY DEF Rehashed, Buckets
<1>7. EmptyNode \in HashNode /\ EmptyNode.key_hash = Empty
  BY DEF EmptyNode, HashNode
<1> HIDE DEF new, p
<1>8. Live(new) = {p[i] : i \in L} /\ Occupied(new) = Live(new)
  <2>1. ASSUME NEW b \in Buckets(s) PROVE new[b] = EmptyNode \/ \E i \in L : p[i] = b /\ new[b] = old[i]
    BY <1>4, <1>5
  <2>2. \A i \in L : p[i] \in Live(new) /\ p[i] \in Occupied(new)
    BY <1>1, <1>2, <1>4, <1>6 DEF Live, Occupied
  <2>3. \A b \in Live(new) : \E i \in L : p[i] = b
    BY <1>6, <1>7, <2>1 DEF Live
  <2>4. \A b \in Occupied(new) : \E i \in L : p[i] = b
    BY <1>6, <1>7, <2>1 DEF Occupied
  <2> HIDE DEF L
  <2> QED BY <2>2, <2>3, <2>4
<1>9. new \in [Buckets(s) -> HashNode]
  <2>1. \A b \in Buckets(s) : new[b] \in HashNode
    BY <1>1, <1>4, <1>5, <1>7
  <2> QED BY <1>6, <2>1
<1>10. \A b \in Live(new) : \E i \in L : b = p[i] /\ new[b] = old[i]
  BY <1>4, <1>8
<1>11. \A b, c \in Live(new) : new[b].key = new[c].key => b = c
  <2>1. ASSUME NEW b \in Live(new), NEW c \in Live(new), new[b].key = new[c].key PROVE b = c
    <3>1. PICK i \in L : b = p[i] /\ new[b] = old[i]
      BY <1>10
    <3>2. PICK j \in L : c = p[j] /\ new[c] = old[j]
      BY <1>10
    <3>3. i = j
      BY <2>1, <3>1, <3>2 DEF IsTable
    <3> QED BY <3>1, <3>2, <3>3
  <2> QED BY <2>1
<1>12. \A b \in Live(new) : Reached(new, s, b)
  <2>1. ASSUME NEW i \in L PROVE Reached(new, s, p[i])
    <3>1. PICK t \in Buckets(s) :
              /\ Probe(old[i].key_hash, t, s) = p[i]
              /\ \A u \in 0..(t - 1) : \E j \in L : Probe(old[i].key_hash, u, s) = p[j]
      BY <1>a
    <3>2. \A u \in 0..(t - 1) : new[Probe(old[i].key_hash, u, s)].key_hash # Empty
      BY <1>1, <1>4, <3>1
    <3>3. new[p[i]] = old[i]
      BY <1>4
    <3> QED BY <3>1, <3>2, <3>3 DEF Reached, Comes
  <2> QED BY <1>10, <2>1
<1>13. IsTable(new, s)
  <2>1. \A b \in Live(new) : /\ new[b].key \in Keys /\ new[b].value \in Vals
                             /\ new[b].key_hash = HashValue(new[b].key)
    BY <1>1, <1>10
  <2> QED BY <1>9, <1>11, <1>12, <2>1 DEF IsTable
<1>14. Held(new) = Held(old)
  <2>1. \A i, j \in Live(old) : old[i].key = old[j].key => i = j
    BY DEF IsTable
  <2>2. \A i \in Live(old) : \E b \in Live(new) : new[b].key = old[i].key /\ new[b].value = old[i].value
    BY <1>4, <1>8
  <2>3. \A b \in Live(new) : \E i \in Live(old) : new[b].key = old[i].key /\ new[b].value = old[i].value
    BY <1>10
  <2> QED BY <1>11, <2>1, <2>2, <2>3, SameHeld
<1>15. Cardinality(Live(new)) = Cardinality(Live(old))
  <2> DEFINE f == [i \in L |-> p[i]]
  <2>1. f \in Bijection(L, Live(new))
    <3> HIDE DEF L
    <3> QED BY <1>3, <1>8 DEF Bijection, Surjection, Injection, IsInjective
  <2>2. IsFiniteSet(L)
    BY <1>0, BucketsCount, FS_Subset
  <2> HIDE DEF f, L
  <2> QED BY <2>1, <2>2, FS_Bijection DEF ExistsBijection, L
<1> QED BY <1>8, <1>13, <1>14, <1>15 DEF new

-----------------------------------------------------------------------------
(* The size of a table *)

\* The shift for n nodes exists, is at most the largest one, leaves more than half
\* of the buckets free and no more than three quarters, but in the smallest table.
LEMMA ShiftFits ==
    ASSUME NEW n \in Nat, n <= MaxNodes
    PROVE  /\ ShiftFromSize(n * 2) \in HASH_TABLE_MIN_SHIFT..30
           /\ n * 2 < 2 ^ ShiftFromSize(n * 2)
           /\ \/ ShiftFromSize(n * 2) = HASH_TABLE_MIN_SHIFT
              \/ 2 ^ ShiftFromSize(n * 2) <= n * 4
<1> DEFINE m == n * 2
           S == {b \in Nat : m < 2 ^ b}
           c == ClosestShift(m)
<1>1. m \in Nat /\ 2 ^ 30 \in Nat /\ m < 2 ^ 30
  <2>1. 2 ^ (29 + 1) = 2 * 2 ^ 29 /\ 2 ^ 29 \in Nat /\ 2 ^ (29 + 1) \in Nat
    BY PowerDoubles, PowerGrows
  <2>2. 2 ^ 30 = 2 ^ (29 + 1)
    OBVIOUS
  <2> QED BY <2>1, <2>2
<1>2. PICK b \in S : \A x \in S : b <= x
  <2>1. m \in S
    BY <1>1, PowerGrows
  <2> HIDE DEF S
  <2>2. S \in SUBSET Nat
    BY DEF S
  <2> QED BY <2>1, <2>2, LeastNumber
<1>3. b \in 0..m /\ m < 2 ^ b /\ (b = 0 \/ 2 ^ (b - 1) <= m)
  <2>1. m \in S
    BY <1>1, PowerGrows
  <2>2. b <= m /\ b \in Nat /\ m < 2 ^ b
    BY <1>2, <2>1
  <2>3. ASSUME b # 0 PROVE 2 ^ (b - 1) <= m
    <3>1. b - 1 \in Nat /\ ~(b <= b - 1)
      BY <2>2, <2>3
    <3>2. b - 1 \notin S
      BY <1>2, <3>1
    <3>3. 2 ^ (b - 1) \in Nat
      BY <3>1, PowerGrows
    <3>4. ~(m < 2 ^ (b - 1))
      BY <3>1, <3>2
    <3> HIDE DEF m
    <3> QED BY <1>1, <3>3, <3>4
  <2> QED BY <1>1, <2>2, <2>3
<1>4. c \in 0..m /\ m < 2 ^ c /\ (c = 0 \/ 2 ^ (c - 1) <= m)
  <2> DEFINE Good(x) == m < 2 ^ x /\ (x = 0 \/ 2 ^ (x - 1) <= m)
  <2>1. c = CHOOSE x \in 0..m : Good(x)
    BY DEF ClosestShift
  <2>2. Good(b)
    BY <1>3
  <2> HIDE DEF m, c
  <2>3. c \in 0..m /\ Good(c)
    <3> HIDE DEF Good
    <3> QED BY <1>3, <2>1, <2>2
  <2> QED BY <2>3
<1> HIDE DEF c
<1>5. c \in Nat /\ c <= 30
  <2>1. c \in Nat
    BY <1>1, <1>4
  <2>2. ASSUME c > 30 PROVE FALSE
    <3>1. c - 1 \in Nat /\ 30 <= c - 1 /\ 30 \in Nat
      BY <2>1, <2>2
    <3>2. 2 ^ 30 <= 2 ^ (c - 1) /\ 2 ^ (c - 1) \in Nat
      BY <3>1, PowerGrows
    <3>3. 2 ^ (c - 1) <= m
      BY <1>4, <3>1
    <3> HIDE DEF m
    <3> QED BY <1>1, <3>2, <3>3
  <2> QED BY <2>1, <2>2
<1> DEFINE s == ShiftFromSize(m)
<1>6. CASE c < HASH_TABLE_MIN_SHIFT
  <2>1. s = HASH_TABLE_MIN_SHIFT
    BY <1>6 DEF ShiftFromSize, c
  <2>2. 2 ^ c <= 2 ^ HASH_TABLE_MIN_SHIFT /\ 2 ^ c \in Nat /\ 2 ^ HASH_TABLE_MIN_SHIFT \in Nat
    <3>1. c <= HASH_TABLE_MIN_SHIFT /\ HASH_TABLE_MIN_SHIFT \in Nat
      BY <1>5, <1>6
    <3> QED BY <1>5, <3>1, PowerGrows
  <2>3. m < 2 ^ s
    <3> HIDE DEF m
    <3> QED BY <1>1, <1>4, <2>1, <2>2
  <2> QED BY <2>1, <2>3
<1>7. CASE ~(c < HASH_TABLE_MIN_SHIFT)
  <2>1. s = c
    BY <1>7 DEF ShiftFromSize, c
  <2>2. c \in HASH_TABLE_MIN_SHIFT..30
    BY <1>5, <1>7
  <2>3. c # 0 /\ c - 1 \in Nat /\ c = (c - 1) + 1
    BY <2>2
  <2>4. 2 ^ c = 2 * 2 ^ (c - 1) /\ 2 ^ (c - 1) \in Nat
    <3>1. 2 ^ ((c - 1) + 1) = 2 * 2 ^ (c - 1) /\ 2 ^ (c - 1) \in Nat
      BY <2>3, PowerDoubles, PowerGrows
    <3> QED BY <2>3, <3>1
  <2>5. 2 ^ c <= n * 4
    BY <1>4, <2>3, <2>4
  <2> QED BY <1>4, <2>1, <2>2, <2>5
<1> QED BY <1>6, <1>7

-----------------------------------------------------------------------------
(* Lookups *)

\* With an empty bucket in the table every probe stops, at one step.
LEMMA ProbeStops ==
    ASSUME shift \in 0..31, NEW k \in Keys, NEW b \in Buckets(shift), nodes[b].key_hash = Empty
    PROVE  \E t \in Buckets(shift) :
              /\ StopStep(k) = {t}
              /\ \/ nodes[Probe(HashValue(k), t, shift)].key_hash = Empty
                 \/ Matches(nodes[Probe(HashValue(k), t, shift)], k)
              /\ \A u \in 0..(t - 1) :
                    /\ nodes[Probe(HashValue(k), u, shift)].key_hash # Empty
                    /\ ~Matches(nodes[Probe(HashValue(k), u, shift)], k)
<1> DEFINE Stops(t) == LET node == nodes[Probe(HashValue(k), t, shift)] IN
                       node.key_hash = Empty \/ Matches(node, k)
           S == {t \in 0..(2 ^ shift - 1) : Stops(t)}
<1>1. HashValue(k) \in Nat
  BY DEF HashValue
<1>2. S \in SUBSET Nat /\ Buckets(shift) \subseteq Nat
  BY BucketsCount DEF Buckets
<1>3. S # {}
  <2>0. \A c \in Buckets(shift) : \E t \in Buckets(shift) : Probe(HashValue(k), t, shift) = c
    BY <1>1, ProbeMeetsAll
  <2>1. PICK t \in Buckets(shift) : Probe(HashValue(k), t, shift) = b
    BY <2>0
  <2> QED BY <2>1 DEF Buckets
<1>4. PICK t \in S : \A m \in S : t <= m
  <2> HIDE DEF S
  <2> QED BY <1>2, <1>3, LeastNumber
<1>5. StopStep(k) = {x \in S : \A u \in S : x <= u}
  BY DEF StopStep
<1>6. StopStep(k) = {t}
  <2>1. ASSUME NEW x \in S, x <= t PROVE x = t
    <3> HIDE DEF S
    <3>1. t <= x /\ x \in Nat /\ t \in Nat
      BY <1>2, <1>4, <2>1
    <3> QED BY <2>1, <3>1
  <2> HIDE DEF S
  <2> QED BY <1>4, <1>5, <2>1
<1>7. \A u \in 0..(t - 1) : ~Stops(u)
  <2>1. ASSUME NEW u \in 0..(t - 1) PROVE u \in 0..(2 ^ shift - 1) /\ ~(t <= u)
    <3>1. 2 ^ shift \in Nat
      BY PowerGrows
    <3>2. t \in 0..(2 ^ shift - 1)
      OBVIOUS
    <3> QED BY <3>1, <3>2
  <2> QED BY <1>4, <2>1
<1>8. Stops(t) /\ t \in Buckets(shift)
  BY DEF Buckets
<1> QED BY <1>6, <1>7, <1>8

\* A node that a lookup matches holds data, and the key.
LEMMA MatchIsLive ==
    ASSUME NEW table, NEW k \in Keys, NEW i \in DOMAIN table, Matches(table[i], k)
    PROVE  i \in Live(table) /\ table[i].key = k
<1>1. HashValue(k) > Tombstone
  BY DEF HashValue
<1> QED BY <1>1 DEF Matches, Live

\* A stored node is where the probe for its key stops; for a key that is not stored
\* the probe stops at an empty bucket.
LEMMA LookupFinds ==
    ASSUME shift \in 0..31, IsTable(nodes, shift), NEW b \in Buckets(shift), nodes[b].key_hash = Empty,
           NEW k \in Keys
    PROVE  /\ \A i \in Live(nodes) : nodes[i].key = k => LookupNode(k) = {i}
           /\ (\A i \in Live(nodes) : nodes[i].key # k) =>
                 \E i \in Buckets(shift) : LookupNode(k) = {i} /\ nodes[i].key_hash = Empty
<1>1. PICK t \in Buckets(shift) :
              /\ StopStep(k) = {t}
              /\ \/ nodes[Probe(HashValue(k), t, shift)].key_hash = Empty
                 \/ Matches(nodes[Probe(HashValue(k), t, shift)], k)
              /\ \A u \in 0..(t - 1) :
                    /\ nodes[Probe(HashValue(k), u, shift)].key_hash # Empty
                    /\ ~Matches(nodes[Probe(HashValue(k), u, shift)], k)
  BY ProbeStops
<1> DEFINE at == Probe(HashValue(k), t, shift)
<1>2. LookupNode(k) = {at}
  BY <1>1 DEF LookupNode
<1>3. HashValue(k) \in Nat /\ t \in Nat /\ Buckets(shift) \subseteq Nat
  BY BucketsCount DEF HashValue
<1>4. at \in Buckets(shift) /\ DOMAIN nodes = Buckets(shift)
  BY <1>3, ProbeMeetsAll DEF IsTable
<1>5. Matches(nodes[at], k) => at \in Live(nodes) /\ nodes[at].key = k
  BY <1>4, MatchIsLive
<1>6. ASSUME NEW i \in Live(nodes), nodes[i].key = k PROVE at = i
  <2>1. nodes[i].key_hash = HashValue(k) /\ Reached(nodes, shift, i)
    BY <1>6 DEF IsTable
  <2>2. PICK w \in Buckets(shift) :
            /\ Probe(HashValue(k), w, shift) = i
            /\ \A u \in 0..(w - 1) : nodes[Probe(HashValue(k), u, shift)].key_hash # Empty
    BY <2>1 DEF Reached, Comes
  <2>3. Matches(nodes[i], k)
    BY <1>6, <2>1 DEF Matches
  <2>4. ~(w < t)
    <3>1. w \in Nat
      BY <1>3
    <3>2. ASSUME w < t PROVE FALSE
      <4>1. w \in 0..(t - 1)
        BY <1>3, <3>1, <3>2
      <4> QED BY <1>1, <2>2, <2>3, <4>1
    <3> QED BY <3>2
  <2>5. CASE w = t
    BY <2>2, <2>5
  <2>6. CASE w # t
    <3>1. t \in 0..(w - 1)
      BY <1>3, <2>4, <2>6
    <3>2. Matches(nodes[at], k)
      BY <1>1, <2>2, <3>1
    <3> QED BY <1>5, <1>6, <3>2 DEF IsTable
  <2> QED BY <2>5, <2>6
<1> HIDE DEF at
<1>7. (\A i \in Live(nodes) : nodes[i].key # k) => nodes[at].key_hash = Empty
  BY <1>1, <1>5 DEF at
<1> QED BY <1>2, <1>4, <1>6, <1>7

\* An insertion chooses the node of its key; or, when the key is not stored, a bucket
\* without data to which the probe of the key comes over no empty one.
LEMMA InsertionNode ==
    ASSUME shift \in 0..31, IsTable(nodes, shift), NEW b \in Buckets(shift), nodes[b].key_hash = Empty,
           NEW k \in Keys
    PROVE  \E i \in Buckets(shift) :
              /\ LookupNodeForInsertion(k) = {i}
              /\ \/ i \in Live(nodes) /\ nodes[i].key = k
                 \/ /\ nodes[i].key_hash <= Tombstone
                    /\ \A j \in Live(nodes) : nodes[j].key # k
                    /\ Comes(nodes, shift, HashValue(k), i)
<1> DEFINE P(t) == Probe(HashValue(k), t, shift)
           stone(u) == nodes[P(u)].key_hash = Tombstone
           first(u) == stone(u) /\ \A w \in 0..(u - 1) : ~ stone(w)
<1>1. PICK t \in Buckets(shift) :
              /\ StopStep(k) = {t}
              /\ nodes[P(t)].key_hash = Empty \/ Matches(nodes[P(t)], k)
              /\ \A u \in 0..(t - 1) : nodes[P(u)].key_hash # Empty /\ ~Matches(nodes[P(u)], k)
  BY ProbeStops
<1> DEFINE r == CHOOSE u \in 0..(t - 1) : first(u)
           c == IF Matches(nodes[P(t)], k) \/ \A u \in 0..(t - 1) : ~ stone(u) THEN P(t) ELSE P(r)
<1>2. LookupNodeForInsertion(k) = {c}
  BY <1>1 DEF LookupNodeForInsertion
<1>3. HashValue(k) \in Nat /\ t \in Nat /\ Buckets(shift) \subseteq Nat /\ DOMAIN nodes = Buckets(shift)
  BY BucketsCount DEF HashValue, IsTable
<1>4. \A u \in Nat : P(u) \in Buckets(shift)
  BY <1>3, ProbeMeetsAll
<1>5. \A u \in 0..t : u \in Buckets(shift)
  <2>1. t \in 0..(2 ^ shift - 1) /\ 2 ^ shift \in Nat
    BY PowerGrows DEF Buckets
  <2> QED BY <2>1 DEF Buckets
<1>6. \A i \in Live(nodes) : nodes[i].key = k => P(t) = i
  <2>1. \A i \in Live(nodes) : nodes[i].key = k => LookupNode(k) = {i}
    BY LookupFinds
  <2>2. LookupNode(k) = {P(t)}
    BY <1>1 DEF LookupNode
  <2> QED BY <2>1, <2>2
<1>7. \A i \in Live(nodes) : nodes[i].key_hash > Tombstone /\ nodes[i].key_hash = HashValue(nodes[i].key)
  BY DEF Live, IsTable
<1> HIDE DEF P
<1>8. CASE Matches(nodes[P(t)], k)
  <2>1. P(t) \in Live(nodes) /\ nodes[P(t)].key = k
    BY <1>3, <1>4, <1>8, MatchIsLive
  <2>2. c = P(t)
    BY <1>8
  <2> QED BY <1>2, <1>3, <1>4, <2>1, <2>2
<1>9. CASE ~Matches(nodes[P(t)], k)
  <2>1. nodes[P(t)].key_hash = Empty
    BY <1>1, <1>9
  <2>2. \A j \in Live(nodes) : nodes[j].key # k
    BY <1>6, <1>7, <2>1
  <2>3. CASE \A u \in 0..(t - 1) : ~ stone(u)
    <3>1. c = P(t) /\ P(t) \in Buckets(shift)
      BY <1>3, <1>4, <2>3
    <3>2. nodes[P(t)].key_hash <= Tombstone
      BY <2>1
    <3>3. \E w \in Buckets(shift) : P(w) = c /\ \A u \in 0..(w - 1) : nodes[P(u)].key_hash # Empty
      <4> HIDE DEF c
      <4> QED BY <1>1, <3>1
    <3> HIDE DEF c
    <3> QED BY <1>2, <2>2, <3>1, <3>2, <3>3 DEF P, Comes
  <2>4. CASE \E u \in 0..(t - 1) : stone(u)
    <3> DEFINE S == {u \in 0..(t - 1) : stone(u)}
    <3>1. PICK v \in S : \A m \in S : v <= m
      <4>1. S \in SUBSET Nat /\ S # {}
        BY <2>4
      <4> HIDE DEF S
      <4> QED BY <4>1, LeastNumber
    <3>2. first(v)
      <4>1. ASSUME NEW w \in 0..(v - 1), stone(w) PROVE FALSE
        <5>1. w \in 0..(t - 1) /\ ~(v <= w)
          BY <1>3
        <5> QED BY <3>1, <4>1, <5>1
      <4> QED BY <4>1
    <3>3. r \in 0..(t - 1) /\ first(r)
      <4>1. v \in 0..(t - 1)
        OBVIOUS
      <4> HIDE DEF first
      <4> QED BY <3>2, <4>1
    <3> HIDE DEF r
    <3>4. c = P(r)
      BY <1>9, <2>4
    <3>5. r \in 0..t /\ \A u \in 0..(r - 1) : u \in 0..(t - 1)
      BY <1>3, <3>3
    <3>6. r \in Buckets(shift) /\ \A u \in 0..(r - 1) : nodes[P(u)].key_hash # Empty
      BY <1>1, <1>5, <3>5
    <3>7. P(r) \in Buckets(shift) /\ nodes[P(r)].key_hash <= Tombstone
      BY <1>3, <1>4, <3>3, <3>6
    <3> HIDE DEF c
    <3>8. Comes(nodes, shift, HashValue(k), P(r))
      BY <3>6 DEF P, Comes
    <3> QED BY <1>2, <2>2, <3>4, <3>7, <3>8
  <2> QED BY <2>3, <2>4
<1> QED BY <1>8, <1>9

-----------------------------------------------------------------------------
(* What the operations do to the buckets *)

\* A bucket that was not empty is not empty in a table in which no bucket became so:
\* what was reached is reached.
LEMMA StillReached ==
    ASSUME NEW old, NEW new, NEW s \in 0..31, NEW i, DOMAIN old = Buckets(s),
           old[i].key_hash \in Nat, new[i].key_hash = old[i].key_hash,
           \A j \in Buckets(s) : old[j].key_hash # Empty => new[j].key_hash # Empty,
           Reached(old, s, i)
    PROVE  Reached(new, s, i)
<1> DEFINE h == old[i].key_hash
<1>1. PICK t \in Buckets(s) :
          /\ Probe(h, t, s) = i
          /\ \A u \in 0..(t - 1) : old[Probe(h, u, s)].key_hash # Empty
  BY DEF Reached, Comes
<1>2. \A u \in 0..(t - 1) : Probe(h, u, s) \in Buckets(s)
  <2>1. \A u \in 0..(t - 1) : u \in Nat
    OBVIOUS
  <2> QED BY <2>1, ProbeMeetsAll
<1>3. \A u \in 0..(t - 1) : new[Probe(h, u, s)].key_hash # Empty
  BY <1>1, <1>2
<1> QED BY <1>1, <1>3 DEF Reached, Comes

\* A table of empty buckets holds nothing.
LEMMA EmptyTable ==
    ASSUME NEW s \in 0..31, NEW table, table = [i \in Buckets(s) |-> EmptyNode]
    PROVE  /\ IsTable(table, s)
           /\ Live(table) = {} /\ Occupied(table) = {}
           /\ Held(table) = [k \in Keys |-> NULL]
<1>1. EmptyNode \in HashNode /\ EmptyNode.key_hash = Empty
  BY DEF EmptyNode, HashNode
<1>2. Live(table) = {} /\ Occupied(table) = {}
  <2>1. DOMAIN table = Buckets(s) /\ \A i \in DOMAIN table : table[i].key_hash = Empty
    BY <1>1
  <2> QED BY <2>1 DEF Live, Occupied
<1>3. table \in [Buckets(s) -> HashNode]
  BY <1>1
<1> QED BY <1>2, <1>3 DEF IsTable, Held

\* A table of 2^s buckets that differs from another in one, which has the node
Written(new, table, s, i, node) ==
    /\ DOMAIN new = Buckets(s)
    /\ new[i] = node
    /\ \A j \in Buckets(s) : j # i => new[j] = table[j]
    /\ new = [j \in Buckets(s) |-> new[j]]

\* An assignment to a bucket
LEMMA WrittenByExcept ==
    ASSUME NEW table, NEW s \in 0..31, IsTable(table, s), NEW i \in Buckets(s), NEW node
    PROVE  Written([table EXCEPT ![i] = node], table, s, i, node)
<1>1. table \in [Buckets(s) -> HashNode]
  BY DEF IsTable
<1> QED BY <1>1 DEF Written

\* The node of a new key, and a tombstone
DataNode(k, v) == [key |-> k, value |-> v, key_hash |-> HashValue(k)]
Stone == [EmptyNode EXCEPT !.key_hash = Tombstone]

\* A node written over a bucket without data, on the probe of its key, is stored.
LEMMA Inserted ==
    ASSUME NEW table, NEW s \in 0..31, IsTable(table, s), NEW k \in Keys, NEW v \in Vals,
           NEW i \in Buckets(s), table[i].key_hash <= Tombstone,
           \A j \in Live(table) : table[j].key # k,
           Comes(table, s, HashValue(k), i),
           NEW new, Written(new, table, s, i, DataNode(k, v))
    PROVE  /\ IsTable(new, s)
           /\ Live(new) = Live(table) \cup {i} /\ i \notin Live(table)
           /\ Occupied(new) = Occupied(table) \cup {i}
           /\ Held(new) = [Held(table) EXCEPT ![k] = v]
<1>w. /\ DOMAIN new = Buckets(s)
      /\ new[i] = DataNode(k, v)
      /\ \A j \in Buckets(s) : j # i => new[j] = table[j]
      /\ new = [j \in Buckets(s) |-> new[j]]
  BY DEF Written
<1> DEFINE node == DataNode(k, v)
<1>1. node \in HashNode /\ node.key_hash > Tombstone /\ node.key_hash # Empty
      /\ node.key = k /\ node.value = v /\ node.key_hash = HashValue(k) /\ HashValue(k) \in Nat
  BY DEF DataNode, HashNode, HashValue
<1>2. table \in [Buckets(s) -> HashNode] /\ DOMAIN table = Buckets(s)
  BY DEF IsTable
<1>3. new[i] = node /\ DOMAIN new = Buckets(s) /\ \A j \in Buckets(s) : j # i => new[j] = table[j]
  BY <1>w
<1> HIDE DEF node
<1>4. Live(new) = Live(table) \cup {i} /\ i \notin Live(table)
  <2>1. i \notin Live(table)
    <3>1. table[i].key_hash \in Nat
      BY <1>2 DEF HashNode
    <3> QED BY <3>1 DEF Live
  <2> QED BY <1>1, <1>2, <1>3, <2>1 DEF Live
<1>5. Occupied(new) = Occupied(table) \cup {i}
  BY <1>1, <1>2, <1>3 DEF Occupied
<1>6. \A j \in Live(table) : j \in Buckets(s) /\ j # i /\ new[j] = table[j]
  BY <1>2, <1>3, <1>4 DEF Live
<1>7. new \in [Buckets(s) -> HashNode]
  <2>1. \A j \in Buckets(s) : new[j] \in HashNode
    BY <1>1, <1>2, <1>3
  <2> QED BY <1>w, <2>1
<1>8. \A a, c \in Live(new) : new[a].key = new[c].key => a = c
  <2>1. \A a, c \in Live(table) : table[a].key = table[c].key => a = c
    BY DEF IsTable
  <2> QED BY <1>1, <1>3, <1>4, <1>6, <2>1
<1>9. \A j \in Live(new) : Reached(new, s, j)
  <2>1. \A j \in Buckets(s) : table[j].key_hash # Empty => new[j].key_hash # Empty
    BY <1>1, <1>3
  <2>2. ASSUME NEW j \in Live(table) PROVE Reached(new, s, j)
    <3>1. Reached(table, s, j) /\ table[j].key_hash \in Nat
      BY <1>2, <1>6 DEF IsTable, HashNode
    <3> QED BY <1>2, <1>6, <2>1, <3>1, StillReached
  <2>3. Reached(new, s, i)
    <3> PICK w \in Buckets(s) :
            /\ Probe(HashValue(k), w, s) = i
            /\ \A u \in 0..(w - 1) : table[Probe(HashValue(k), u, s)].key_hash # Empty
      BY DEF Comes
    <3>1. \A u \in 0..(w - 1) : Probe(HashValue(k), u, s) \in Buckets(s)
      <4>1. \A u \in 0..(w - 1) : u \in Nat
        OBVIOUS
      <4> QED BY <1>1, <4>1, ProbeMeetsAll
    <3>2. \A u \in 0..(w - 1) : new[Probe(HashValue(k), u, s)].key_hash # Empty
      BY <2>1, <3>1
    <3> QED BY <1>1, <1>3, <3>2 DEF Reached, Comes
  <2> QED BY <1>4, <2>2, <2>3
<1>10. \A j \in Live(new) : /\ new[j].key \in Keys /\ new[j].value \in Vals
                            /\ new[j].key_hash = HashValue(new[j].key)
  BY <1>1, <1>3, <1>4, <1>6 DEF IsTable
<1>11. Held(new) = [Held(table) EXCEPT ![k] = v]
  <2>1. Held(new)[k] = v
    BY <1>1, <1>3, <1>4, <1>8, HeldBy
  <2>2. ASSUME NEW x \in Keys, x # k PROVE Held(new)[x] = Held(table)[x]
    <3>1. CASE \E j \in Live(table) : table[j].key = x
      <4>1. PICK j \in Live(table) : table[j].key = x
        BY <3>1
      <4>2. Held(table)[x] = table[j].value
        BY <4>1, HeldBy DEF IsTable
      <4>3. j \in Live(new) /\ new[j].key = x
        BY <1>4, <1>6, <4>1
      <4>4. Held(new)[x] = new[j].value
        BY <1>8, <4>3, HeldBy
      <4> QED BY <1>6, <4>2, <4>4
    <3>2. CASE \A j \in Live(table) : table[j].key # x
      <4>1. \A j \in Live(new) : new[j].key # x
        BY <1>1, <1>3, <1>4, <1>6, <2>2, <3>2
      <4> QED BY <3>2, <4>1, NotHeld
    <3> QED BY <3>1, <3>2
  <2>3. Held(new) = [x \in Keys |-> Held(new)[x]] /\ Held(table) = [x \in Keys |-> Held(table)[x]]
    BY DEF Held
  <2> QED BY <2>1, <2>2, <2>3
<1> QED BY <1>4, <1>5, <1>7, <1>8, <1>9, <1>10, <1>11 DEF IsTable

\* A value written to a node replaces the value of its key.
LEMMA Replaced ==
    ASSUME NEW table, NEW s \in 0..31, IsTable(table, s), NEW v \in Vals,
           NEW i \in Live(table),
           NEW new, Written(new, table, s, i, [table[i] EXCEPT !.value = v])
    PROVE  /\ IsTable(new, s)
           /\ Live(new) = Live(table) /\ Occupied(new) = Occupied(table)
           /\ Held(new) = [Held(table) EXCEPT ![table[i].key] = v]
<1>w. /\ DOMAIN new = Buckets(s)
      /\ new[i] = [table[i] EXCEPT !.value = v]
      /\ \A j \in Buckets(s) : j # i => new[j] = table[j]
      /\ new = [j \in Buckets(s) |-> new[j]]
  BY DEF Written
<1>1. table \in [Buckets(s) -> HashNode] /\ DOMAIN table = Buckets(s) /\ i \in Buckets(s)
  BY DEF IsTable, Live
<1>2. /\ DOMAIN new = Buckets(s) /\ new[i].value = v /\ new[i] \in HashNode
      /\ \A j \in Buckets(s) : /\ new[j].key = table[j].key
                               /\ new[j].key_hash = table[j].key_hash
                               /\ j # i => new[j] = table[j]
  <2>2. table[i] \in HashNode
    BY <1>1
  <2>3. [table[i] EXCEPT !.value = v].value = v
    BY <2>2 DEF HashNode
  <2>4. [table[i] EXCEPT !.value = v].key = table[i].key
        /\ [table[i] EXCEPT !.value = v].key_hash = table[i].key_hash
    BY <2>2 DEF HashNode
  <2>5. [table[i] EXCEPT !.value = v] \in HashNode
    BY <2>2 DEF HashNode
  <2> QED BY <1>w, <1>1, <2>3, <2>4, <2>5
<1>3. Live(new) = Live(table) /\ Occupied(new) = Occupied(table)
  BY <1>1, <1>2 DEF Live, Occupied
<1>4. new \in [Buckets(s) -> HashNode]
  <2>1. \A j \in Buckets(s) : new[j] \in HashNode
    BY <1>1, <1>2
  <2> QED BY <1>w, <2>1
<1>5. \A a, c \in Live(new) : new[a].key = new[c].key => a = c
  <2>1. \A a \in Live(table) : new[a].key = table[a].key
    BY <1>1, <1>2 DEF Live
  <2> QED BY <1>3, <2>1 DEF IsTable
<1>6. \A j \in Live(new) : Reached(new, s, j)
  <2>1. ASSUME NEW j \in Live(table) PROVE Reached(new, s, j)
    <3>1. Reached(table, s, j) /\ j \in Buckets(s)
      BY <1>1 DEF IsTable, Live
    <3>2. table[j].key_hash \in Nat
      BY <1>1, <3>1 DEF HashNode
    <3> QED BY <1>1, <1>2, <3>1, <3>2, StillReached
  <2> QED BY <1>3, <2>1
<1>7. \A j \in Live(new) : /\ new[j].key \in Keys /\ new[j].value \in Vals
                           /\ new[j].key_hash = HashValue(new[j].key)
  <2>1. ASSUME NEW j \in Live(table)
        PROVE  /\ new[j].key \in Keys /\ new[j].value \in Vals
               /\ new[j].key_hash = HashValue(new[j].key)
    <3>1. j \in Buckets(s)
      BY <1>1 DEF Live
    <3>2. table[j].key \in Keys /\ table[j].value \in Vals /\ table[j].key_hash = HashValue(table[j].key)
      BY DEF IsTable
    <3> QED BY <1>2, <3>1, <3>2
  <2> QED BY <1>3, <2>1
<1>8. Held(new) = [Held(table) EXCEPT ![table[i].key] = v]
  <2> DEFINE k == table[i].key
  <2>0. k \in Keys /\ new[i].key = k /\ i \in Live(new)
    BY <1>1, <1>2, <1>3 DEF IsTable
  <2>1. Held(new)[k] = v
    <3>1. new[i].key \in Keys
      BY <2>0
    <3>2. Held(new)[new[i].key] = new[i].value
      BY <1>5, <2>0, <3>1, HeldBy
    <3> QED BY <1>2, <2>0, <3>2
  <2>2. ASSUME NEW x \in Keys, x # k PROVE Held(new)[x] = Held(table)[x]
    <3>1. CASE \E j \in Live(table) : table[j].key = x
      <4>1. PICK j \in Live(table) : table[j].key = x
        BY <3>1
      <4>2. Held(table)[x] = table[j].value
        BY <4>1, HeldBy DEF IsTable
      <4>3. j \in Buckets(s) /\ j # i
        BY <1>1, <2>2, <4>1 DEF Live
      <4>4. j \in Live(new) /\ new[j].key = x /\ new[j] = table[j]
        BY <1>2, <1>3, <4>1, <4>3
      <4>5. Held(new)[x] = new[j].value
        BY <1>5, <4>4, HeldBy
      <4> QED BY <4>2, <4>4, <4>5
    <3>2. CASE \A j \in Live(table) : table[j].key # x
      <4>1. \A j \in Live(new) : new[j].key # x
        BY <1>1, <1>2, <1>3, <3>2 DEF Live
      <4> QED BY <3>2, <4>1, NotHeld
    <3> QED BY <3>1, <3>2
  <2>3. Held(new) = [x \in Keys |-> Held(new)[x]] /\ Held(table) = [x \in Keys |-> Held(table)[x]]
    BY DEF Held
  <2> QED BY <2>0, <2>1, <2>2, <2>3
<1> QED BY <1>3, <1>4, <1>5, <1>6, <1>7, <1>8 DEF IsTable

\* A tombstone erected over a node takes its key away and leaves the other probes.
LEMMA Removed ==
    ASSUME NEW table, NEW s \in 0..31, IsTable(table, s),
           NEW i \in Live(table),
           NEW new, Written(new, table, s, i, Stone)
    PROVE  /\ IsTable(new, s)
           /\ Live(new) = Live(table) \ {i} /\ Occupied(new) = Occupied(table)
           /\ Held(new) = [Held(table) EXCEPT ![table[i].key] = NULL]
<1>w. /\ DOMAIN new = Buckets(s)
      /\ new[i] = Stone
      /\ \A j \in Buckets(s) : j # i => new[j] = table[j]
      /\ new = [j \in Buckets(s) |-> new[j]]
  BY DEF Written
<1>0. Stone \in HashNode /\ Stone.key_hash = Tombstone
  BY DEF Stone, EmptyNode, HashNode
<1>1. table \in [Buckets(s) -> HashNode] /\ DOMAIN table = Buckets(s) /\ i \in Buckets(s)
  BY DEF IsTable, Live
<1>3. Live(new) = Live(table) \ {i}
  BY <1>w, <1>0, <1>1 DEF Live
<1>4. Occupied(new) = Occupied(table)
  <2>1. table[i].key_hash # Empty
    BY DEF Live
  <2> QED BY <1>w, <1>0, <1>1, <2>1 DEF Occupied
<1>5. \A j \in Live(new) : j \in Live(table) /\ j \in Buckets(s) /\ j # i /\ new[j] = table[j]
  BY <1>w, <1>1, <1>3 DEF Live
<1>6. new \in [Buckets(s) -> HashNode]
  <2>1. \A j \in Buckets(s) : new[j] \in HashNode
    BY <1>w, <1>0, <1>1
  <2> QED BY <1>w, <2>1
<1>7. \A a, c \in Live(new) : new[a].key = new[c].key => a = c
  BY <1>5 DEF IsTable
<1>8. \A j \in Live(new) : Reached(new, s, j)
  <2>1. \A j \in Buckets(s) : table[j].key_hash # Empty => new[j].key_hash # Empty
    BY <1>w, <1>0
  <2>2. ASSUME NEW j \in Live(new) PROVE Reached(new, s, j)
    <3>1. Reached(table, s, j) /\ table[j].key_hash \in Nat
      BY <1>1, <1>5 DEF IsTable, HashNode
    <3> QED BY <1>1, <1>5, <2>1, <3>1, StillReached
  <2> QED BY <2>2
<1>9. \A j \in Live(new) : /\ new[j].key \in Keys /\ new[j].value \in Vals
                           /\ new[j].key_hash = HashValue(new[j].key)
  BY <1>5 DEF IsTable
<1>10. Held(new) = [Held(table) EXCEPT ![table[i].key] = NULL]
  <2> DEFINE k == table[i].key
  <2>0. k \in Keys
    BY DEF IsTable
  <2>1. Held(new)[k] = NULL
    <3>1. \A j \in Live(new) : new[j].key # k
      BY <1>5 DEF IsTable
    <3> QED BY <2>0, <3>1, NotHeld
  <2>2. ASSUME NEW x \in Keys, x # k PROVE Held(new)[x] = Held(table)[x]
    <3>1. CASE \E j \in Live(table) : table[j].key = x
      <4>1. PICK j \in Live(table) : table[j].key = x
        BY <3>1
      <4>2. Held(table)[x] = table[j].value
        BY <4>1, HeldBy DEF IsTable
      <4>3. j \in Live(new) /\ new[j] = table[j]
        BY <1>3, <1>5, <2>2, <4>1
      <4>4. Held(new)[x] = new[j].value
        BY <1>7, <4>1, <4>3, HeldBy
      <4> QED BY <4>2, <4>3, <4>4
    <3>2. CASE \A j \in Live(table) : table[j].key # x
      <4>1. \A j \in Live(new) : new[j].key # x
        BY <1>5, <3>2
      <4> QED BY <3>2, <4>1, NotHeld
    <3> QED BY <3>1, <3>2
  <2>3. Held(new) = [x \in Keys |-> Held(new)[x]] /\ Held(table) = [x \in Keys |-> Held(table)[x]]
    BY DEF Held
  <2> QED BY <2>0, <2>1, <2>2, <2>3
<1> QED BY <1>3, <1>4, <1>6, <1>7, <1>8, <1>9, <1>10 DEF IsTable

-----------------------------------------------------------------------------
(* The steps *)

\* The counters count, and the size fits them.
Counts(table, s, n, o) ==
    /\ n = Cardinality(Live(table))
    /\ o = Cardinality(Occupied(table))
    /\ 2 ^ s <= n * 4 \/ 2 ^ s = 2 ^ HASH_TABLE_MIN_SHIFT
    /\ o + o \div 16 < 2 ^ s

\* The sets that the counters count are finite.
LEMMA CountsAreNumbers ==
    ASSUME NEW s \in 0..31, NEW table, DOMAIN table = Buckets(s)
    PROVE  /\ IsFiniteSet(Live(table)) /\ Cardinality(Live(table)) \in Nat
           /\ IsFiniteSet(Occupied(table)) /\ Cardinality(Occupied(table)) \in Nat
<1>1. IsFiniteSet(Buckets(s))
  BY BucketsCount
<1>2. Live(table) \in SUBSET Buckets(s) /\ Occupied(table) \in SUBSET Buckets(s)
  BY DEF Live, Occupied
<1>3. IsFiniteSet(Live(table)) /\ IsFiniteSet(Occupied(table))
  BY <1>1, <1>2, FS_Subset
<1> QED BY <1>3, FS_CardinalityType

\* A table that is not full has an empty bucket.
LEMMA SomeEmpty ==
    ASSUME NEW s \in 0..31, NEW table, DOMAIN table = Buckets(s),
           NEW o, o = Cardinality(Occupied(table)), o + o \div 16 < 2 ^ s
    PROVE  \E b \in Buckets(s) : table[b].key_hash = Empty
<1>1. o \in Nat /\ o <= o + o \div 16
  <2>1. o \in Nat
    BY CountsAreNumbers
  <2> QED BY <2>1
<1>2. Cardinality(Buckets(s)) = 2 ^ s /\ 2 ^ s \in Nat
  BY BucketsCount, PowerGrows
<1>3. Occupied(table) # Buckets(s)
  BY <1>1, <1>2
<1> QED BY <1>3 DEF Occupied

\* The end of an insertion or a removal keeps what the table holds, and its counters count.
LEMMA Resized ==
    ASSUME shift \in HASH_TABLE_MIN_SHIFT..30,
           NEW table, IsTable(table, shift),
           NEW n \in Nat, n <= MaxNodes, n = Cardinality(Live(table)),
           NEW o \in Nat, o = Cardinality(Occupied(table)),
           MaybeResize(table, n, o)
    PROVE  /\ shift' \in HASH_TABLE_MIN_SHIFT..30
           /\ IsTable(nodes', shift')
           /\ Counts(nodes', shift', nnodes', noccupied')
           /\ nnodes' = n
           /\ Held(nodes') = Held(table)
<1>0. HASH_TABLE_MIN_SHIFT \in Nat /\ shift \in Nat /\ shift \in 0..31 /\ HASH_TABLE_MIN_SHIFT <= shift
  OBVIOUS
<1>1. CASE Unfit(n, o)
  <2> DEFINE s == ShiftFromSize(n * 2)
  <2>1. shift' = s /\ nodes' = Rehashed(table, s) /\ noccupied' = n /\ nnodes' = n
    BY <1>1 DEF MaybeResize
  <2>2. s \in HASH_TABLE_MIN_SHIFT..30 /\ n * 2 < 2 ^ s /\ (s = HASH_TABLE_MIN_SHIFT \/ 2 ^ s <= n * 4)
    BY ShiftFits
  <2> HIDE DEF s
  <2>3. s \in 0..31 /\ 2 ^ s \in Nat
    <3>1. s \in 0..31 /\ s \in Nat
      BY <2>2
    <3> QED BY <3>1, PowerGrows
  <2>4. n < 2 ^ s /\ n + n \div 16 < 2 ^ s
    BY <2>2, <2>3
  <2>5. /\ IsTable(Rehashed(table, s), s)
        /\ Held(Rehashed(table, s)) = Held(table)
        /\ Cardinality(Live(Rehashed(table, s))) = Cardinality(Live(table))
        /\ Occupied(Rehashed(table, s)) = Live(Rehashed(table, s))
    BY <1>0, <2>3, <2>4, RehashKeeps
  <2>6. Counts(nodes', shift', nnodes', noccupied')
    BY <2>1, <2>2, <2>4, <2>5 DEF Counts
  <2> QED BY <2>1, <2>2, <2>5, <2>6
<1>2. CASE ~Unfit(n, o)
  <2>1. nodes' = table /\ noccupied' = o /\ nnodes' = n /\ shift' = shift
    BY <1>2 DEF MaybeResize
  <2>2. /\ 2 ^ shift \in Nat /\ 2 ^ HASH_TABLE_MIN_SHIFT \in Nat
        /\ 2 ^ HASH_TABLE_MIN_SHIFT <= 2 ^ shift
    BY <1>0, PowerGrows
  <2>3. /\ ~(2 ^ shift > n * 4 /\ 2 ^ shift > 2 ^ HASH_TABLE_MIN_SHIFT)
        /\ ~(2 ^ shift <= o + (o \div 16))
    BY <1>2 DEF Unfit
  <2>4. 2 ^ shift <= n * 4 \/ 2 ^ shift = 2 ^ HASH_TABLE_MIN_SHIFT
    BY <2>2, <2>3
  <2>5. o + o \div 16 < 2 ^ shift
    BY <2>2, <2>3
  <2>6. Counts(nodes', shift', nnodes', noccupied')
    BY <2>1, <2>4, <2>5 DEF Counts
  <2> QED BY <2>1, <2>6
<1> QED BY <1>1, <1>2

\* The inductive invariant: the table is one in which lookups find what is stored, its
\* counters count, the number of nodes is within the bound, one key and one value are
\* owned for each node, and a destroyed table has none.
Inv ==
    /\ live \in BOOLEAN
    /\ shift \in HASH_TABLE_MIN_SHIFT..30
    /\ IsTable(nodes, shift)
    /\ nnodes = Cardinality(Live(nodes)) /\ nnodes <= MaxNodes
    /\ noccupied = Cardinality(Occupied(nodes))
    /\ 2 ^ shift <= nnodes * 4 \/ 2 ^ shift = 2 ^ HASH_TABLE_MIN_SHIFT \/ live = FALSE
    /\ noccupied + noccupied \div 16 < 2 ^ shift
    /\ key_alloc = nnodes /\ val_alloc = nnodes
    /\ live = FALSE => Live(nodes) = {}

\* What the invariant says of the numbers
LEMMA InvFacts ==
    ASSUME Inv
    PROVE  /\ shift \in 0..31 /\ DOMAIN nodes = Buckets(shift)
           /\ nnodes \in Nat /\ noccupied \in Nat
           /\ IsFiniteSet(Live(nodes)) /\ IsFiniteSet(Occupied(nodes))
           /\ \E b \in Buckets(shift) : nodes[b].key_hash = Empty
<1>1. shift \in 0..31 /\ DOMAIN nodes = Buckets(shift)
  BY DEF Inv, IsTable
<1>2. /\ nnodes \in Nat /\ noccupied \in Nat
      /\ IsFiniteSet(Live(nodes)) /\ IsFiniteSet(Occupied(nodes))
  BY <1>1, CountsAreNumbers DEF Inv
<1>3. \E b \in Buckets(shift) : nodes[b].key_hash = Empty
  BY <1>1, SomeEmpty DEF Inv
<1> QED BY <1>1, <1>2, <1>3

\* The table of hash_table_new and of Init satisfies the invariant and holds nothing.
LEMMA FreshTable ==
    ASSUME NEW table, table = [i \in 0..(2 ^ HASH_TABLE_MIN_SHIFT - 1) |-> EmptyNode]
    PROVE  /\ IsTable(table, HASH_TABLE_MIN_SHIFT)
           /\ Cardinality(Live(table)) = 0 /\ Cardinality(Occupied(table)) = 0
           /\ Held(table) = [k \in Keys |-> NULL]
           /\ 0 + 0 \div 16 < 2 ^ HASH_TABLE_MIN_SHIFT
<1>1. HASH_TABLE_MIN_SHIFT \in 0..31 /\ HASH_TABLE_MIN_SHIFT \in Nat
  OBVIOUS
<1>2. table = [i \in Buckets(HASH_TABLE_MIN_SHIFT) |-> EmptyNode]
  BY DEF Buckets
<1>3. IsTable(table, HASH_TABLE_MIN_SHIFT) /\ Live(table) = {} /\ Occupied(table) = {}
      /\ Held(table) = [k \in Keys |-> NULL]
  BY <1>1, <1>2, EmptyTable
<1>4. 2 ^ HASH_TABLE_MIN_SHIFT \in Nat /\ 2 ^ HASH_TABLE_MIN_SHIFT > 0
  BY <1>1, PowerGrows
<1>5. Cardinality(Live(table)) = 0 /\ Cardinality(Occupied(table)) = 0
  BY <1>3, FS_EmptySet
<1>6. \A x \in Nat : x > 0 => 0 + 0 \div 16 < x
  OBVIOUS
<1>7. 0 + 0 \div 16 < 2 ^ HASH_TABLE_MIN_SHIFT
  BY <1>4, <1>6
<1> QED BY <1>3, <1>5, <1>7

\* The table that hash_table_new returns at the start.
LEMMA InvInit ==
    ASSUME Init
    PROVE  Inv /\ Held(nodes) = [k \in Keys |-> NULL]
<1>1. nodes = [i \in 0..(2 ^ HASH_TABLE_MIN_SHIFT - 1) |-> EmptyNode]
  BY DEF Init
<1>2. /\ IsTable(nodes, HASH_TABLE_MIN_SHIFT)
      /\ Cardinality(Live(nodes)) = 0 /\ Cardinality(Occupied(nodes)) = 0
      /\ Held(nodes) = [k \in Keys |-> NULL]
      /\ 0 + 0 \div 16 < 2 ^ HASH_TABLE_MIN_SHIFT
  BY <1>1, FreshTable
<1>3. live = TRUE /\ shift = HASH_TABLE_MIN_SHIFT /\ nnodes = 0 /\ noccupied = 0
      /\ key_alloc = 0 /\ val_alloc = 0
  BY DEF Init
<1>4. HASH_TABLE_MIN_SHIFT \in HASH_TABLE_MIN_SHIFT..30 /\ 0 <= MaxNodes
  OBVIOUS
<1> QED BY <1>2, <1>3, <1>4 DEF Inv

\* A table made after one was destroyed is empty, and owns nothing.
LEMMA NewStep ==
    ASSUME Inv, hash_table_new
    PROVE  Inv' /\ Held(nodes') = [k \in Keys |-> NULL]
<1>1. nodes' = [i \in 0..(2 ^ HASH_TABLE_MIN_SHIFT - 1) |-> EmptyNode]
  BY DEF hash_table_new, Fresh
<1>2. /\ IsTable(nodes', HASH_TABLE_MIN_SHIFT)
      /\ Cardinality(Live(nodes')) = 0 /\ Cardinality(Occupied(nodes')) = 0
      /\ Held(nodes') = [k \in Keys |-> NULL]
      /\ 0 + 0 \div 16 < 2 ^ HASH_TABLE_MIN_SHIFT
  BY <1>1, FreshTable
<1>3. live = FALSE /\ live' = TRUE /\ shift' = HASH_TABLE_MIN_SHIFT /\ nnodes' = 0 /\ noccupied' = 0
      /\ key_alloc' = key_alloc /\ val_alloc' = val_alloc
  BY DEF hash_table_new, Fresh
<1>4. key_alloc = 0 /\ val_alloc = 0
  BY <1>3, FS_EmptySet DEF Inv
<1>5. HASH_TABLE_MIN_SHIFT \in HASH_TABLE_MIN_SHIFT..30 /\ 0 <= MaxNodes
  OBVIOUS
<1> QED BY <1>2, <1>3, <1>4, <1>5 DEF Inv

\* What follows of an operation on a table that exists
LEMMA InvFromCounts ==
    ASSUME live' \in BOOLEAN, shift' \in HASH_TABLE_MIN_SHIFT..30, IsTable(nodes', shift'),
           Counts(nodes', shift', nnodes', noccupied'), nnodes' <= MaxNodes, live' = TRUE,
           key_alloc' = nnodes', val_alloc' = nnodes'
    PROVE  Inv'
  BY DEF Inv, Counts

\* An insertion of a stored key replaces its value where it is.
LEMMA ReplaceStep ==
    ASSUME Inv, NEW k \in Keys, NEW v \in Vals, live = TRUE, ReplaceValue(k, v)
    PROVE  Inv' /\ Held(nodes') = [Held(nodes) EXCEPT ![k] = v]
<1>1. /\ shift \in 0..31 /\ DOMAIN nodes = Buckets(shift)
      /\ \E b \in Buckets(shift) : nodes[b].key_hash = Empty
      /\ IsTable(nodes, shift)
  BY InvFacts DEF Inv
<1>2. PICK i \in Buckets(shift) :
          /\ LookupNodeForInsertion(k) = {i}
          /\ \/ i \in Live(nodes) /\ nodes[i].key = k
             \/ nodes[i].key_hash <= Tombstone
  BY <1>1, InsertionNode
<1>3. /\ nodes[i].key_hash > Tombstone
      /\ nodes' = [nodes EXCEPT ![i].value = v]
      /\ UNCHANGED <<live, shift, nnodes, noccupied, key_alloc, val_alloc>>
  BY <1>2 DEF ReplaceValue
<1>4. i \in Live(nodes) /\ nodes[i].key = k
  <2>1. nodes[i].key_hash \in Nat
    BY <1>1 DEF IsTable, HashNode
  <2> QED BY <1>2, <1>3, <2>1
<1>5. Written(nodes', nodes, shift, i, [nodes[i] EXCEPT !.value = v])
  <2>1. nodes' = [nodes EXCEPT ![i] = [nodes[i] EXCEPT !.value = v]]
    BY <1>3
  <2> QED BY <1>1, <2>1, WrittenByExcept
<1>6. /\ IsTable(nodes', shift)
      /\ Live(nodes') = Live(nodes) /\ Occupied(nodes') = Occupied(nodes)
      /\ Held(nodes') = [Held(nodes) EXCEPT ![nodes[i].key] = v]
  BY <1>1, <1>4, <1>5, Replaced
<1>7. Held(nodes') = [Held(nodes) EXCEPT ![k] = v]
  BY <1>4, <1>6
<1>8. Inv'
  BY <1>3, <1>6 DEF Inv
<1> QED BY <1>7, <1>8

\* An insertion of a new key adds it, over a tombstone or with the resize that follows.
LEMMA NewNodeStep ==
    ASSUME Inv, NEW k \in Keys, NEW v \in Vals, live = TRUE, NewNode(k, v)
    PROVE  Inv' /\ Held(nodes') = [Held(nodes) EXCEPT ![k] = v]
<1>1. /\ shift \in 0..31 /\ DOMAIN nodes = Buckets(shift)
      /\ \E b \in Buckets(shift) : nodes[b].key_hash = Empty
      /\ IsTable(nodes, shift)
      /\ nnodes \in Nat /\ noccupied \in Nat
      /\ IsFiniteSet(Live(nodes)) /\ IsFiniteSet(Occupied(nodes))
  BY InvFacts DEF Inv
<1>2. PICK i \in Buckets(shift) :
          /\ LookupNodeForInsertion(k) = {i}
          /\ \/ i \in Live(nodes)
             \/ /\ \A j \in Live(nodes) : nodes[j].key # k
                /\ Comes(nodes, shift, HashValue(k), i)
  BY <1>1, InsertionNode
<1> DEFINE table == [nodes EXCEPT ![i] = DataNode(k, v)]
<1>3. /\ nodes[i].key_hash <= Tombstone
      /\ nnodes < MaxNodes
      /\ IF nodes[i].key_hash = Empty
         THEN MaybeResize(table, nnodes + 1, noccupied + 1)
         ELSE /\ nodes' = table
              /\ nnodes' = nnodes + 1
              /\ UNCHANGED <<shift, noccupied>>
      /\ key_alloc' = key_alloc + 1
      /\ val_alloc' = val_alloc + 1
      /\ UNCHANGED live
  BY <1>2 DEF NewNode, DataNode
<1>4. nodes \in [Buckets(shift) -> HashNode]
  BY <1>1 DEF IsTable
<1>5. Comes(nodes, shift, HashValue(k), i)
  <2>1. i \notin Live(nodes)
    <3>1. nodes[i].key_hash \in Nat
      BY <1>4 DEF HashNode
    <3> QED BY <1>3, <3>1 DEF Live
  <2> QED BY <1>2, <2>1
<1>6. \A j \in Live(nodes) : nodes[j].key # k
  <2>1. i \notin Live(nodes)
    <3>1. nodes[i].key_hash \in Nat
      BY <1>4 DEF HashNode
    <3> QED BY <1>3, <3>1 DEF Live
  <2> QED BY <1>2, <2>1
<1>7. Written(table, nodes, shift, i, DataNode(k, v))
  BY <1>1, WrittenByExcept
<1> HIDE DEF table
<1>8. /\ IsTable(table, shift)
      /\ Live(table) = Live(nodes) \cup {i} /\ i \notin Live(nodes)
      /\ Occupied(table) = Occupied(nodes) \cup {i}
      /\ Held(table) = [Held(nodes) EXCEPT ![k] = v]
  BY <1>1, <1>3, <1>5, <1>6, <1>7, Inserted
<1>9. Cardinality(Live(table)) = nnodes + 1 /\ nnodes + 1 <= MaxNodes
  <2>1. Cardinality(Live(nodes) \cup {i}) = Cardinality(Live(nodes)) + 1
    BY <1>1, <1>8, FS_AddElement
  <2> QED BY <1>1, <1>3, <1>8, <2>1 DEF Inv
<1>10. CASE nodes[i].key_hash = Empty
  <2>1. MaybeResize(table, nnodes + 1, noccupied + 1)
    BY <1>3, <1>10
  <2>2. Cardinality(Occupied(table)) = noccupied + 1
    <3>1. i \notin Occupied(nodes)
      BY <1>10 DEF Occupied
    <3>2. Cardinality(Occupied(nodes) \cup {i}) = Cardinality(Occupied(nodes)) + 1
      BY <1>1, <3>1, FS_AddElement
    <3> QED BY <1>8, <3>2 DEF Inv
  <2>3. nnodes + 1 \in Nat /\ noccupied + 1 \in Nat /\ shift \in HASH_TABLE_MIN_SHIFT..30
    BY <1>1 DEF Inv
  <2>4. /\ shift' \in HASH_TABLE_MIN_SHIFT..30
        /\ IsTable(nodes', shift')
        /\ Counts(nodes', shift', nnodes', noccupied')
        /\ nnodes' = nnodes + 1
        /\ Held(nodes') = Held(table)
    BY <1>8, <1>9, <2>1, <2>2, <2>3, Resized
  <2>5. key_alloc' = nnodes' /\ val_alloc' = nnodes'
    BY <1>3, <2>4 DEF Inv
  <2>6. live' = TRUE /\ nnodes' <= MaxNodes
    BY <1>3, <1>9, <2>4
  <2>7. Inv'
    BY <2>4, <2>5, <2>6, InvFromCounts
  <2> QED BY <1>8, <2>4, <2>7
<1>11. CASE nodes[i].key_hash # Empty
  <2>1. nodes' = table /\ nnodes' = nnodes + 1 /\ shift' = shift /\ noccupied' = noccupied
        /\ live' = TRUE
    BY <1>3, <1>11
  <2>2. Occupied(table) = Occupied(nodes)
    BY <1>1, <1>8, <1>11 DEF Occupied
  <2>3. 2 ^ shift <= nnodes * 4 \/ 2 ^ shift = 2 ^ HASH_TABLE_MIN_SHIFT
    BY DEF Inv
  <2>4. 2 ^ shift \in Nat
    BY <1>1, PowerGrows
  <2>5. 2 ^ shift <= nnodes' * 4 \/ 2 ^ shift = 2 ^ HASH_TABLE_MIN_SHIFT
    BY <1>1, <2>1, <2>3, <2>4
  <2>6. Counts(nodes', shift', nnodes', noccupied')
    BY <1>9, <2>1, <2>2, <2>5 DEF Counts, Inv
  <2>7. key_alloc' = nnodes' /\ val_alloc' = nnodes'
    BY <1>3, <2>1 DEF Inv
  <2>8. shift' \in HASH_TABLE_MIN_SHIFT..30 /\ IsTable(nodes', shift') /\ nnodes' <= MaxNodes
    BY <1>8, <1>9, <2>1 DEF Inv
  <2>9. Inv'
    BY <2>1, <2>6, <2>7, <2>8, InvFromCounts
  <2> QED BY <1>8, <2>1, <2>9
<1> QED BY <1>10, <1>11

\* A removal takes one key away, that was held, through the resize that follows.
LEMMA RemoveStep ==
    ASSUME Inv, NEW k \in Keys, hash_table_remove(k)
    PROVE  Inv' /\ Held(nodes)[k] # NULL /\ Held(nodes') = [Held(nodes) EXCEPT ![k] = NULL]
<1>1. /\ shift \in 0..31 /\ DOMAIN nodes = Buckets(shift)
      /\ \E b \in Buckets(shift) : nodes[b].key_hash = Empty
      /\ IsTable(nodes, shift)
      /\ nnodes \in Nat /\ noccupied \in Nat
      /\ IsFiniteSet(Live(nodes)) /\ IsFiniteSet(Occupied(nodes))
  BY InvFacts DEF Inv
<1>2. PICK i \in LookupNode(k) :
          /\ nodes[i].key_hash # Empty
          /\ MaybeResize([nodes EXCEPT ![i] = Stone], nnodes - 1, noccupied)
  BY DEF hash_table_remove, Stone
<1>3. i \in Live(nodes) /\ nodes[i].key = k
  <2>1. \A j \in Live(nodes) : nodes[j].key = k => LookupNode(k) = {j}
    BY <1>1, LookupFinds
  <2>2. (\A j \in Live(nodes) : nodes[j].key # k) =>
           \E j \in Buckets(shift) : LookupNode(k) = {j} /\ nodes[j].key_hash = Empty
    BY <1>1, LookupFinds
  <2> QED BY <1>2, <2>1, <2>2
<1> DEFINE table == [nodes EXCEPT ![i] = Stone]
<1>4. i \in Buckets(shift) /\ nodes \in [Buckets(shift) -> HashNode]
  BY <1>1, <1>3 DEF IsTable, Live
<1>5. Written(table, nodes, shift, i, Stone)
  BY <1>1, <1>4, WrittenByExcept
<1> HIDE DEF table
<1>6. /\ IsTable(table, shift)
      /\ Live(table) = Live(nodes) \ {i} /\ Occupied(table) = Occupied(nodes)
      /\ Held(table) = [Held(nodes) EXCEPT ![nodes[i].key] = NULL]
  BY <1>1, <1>3, <1>5, Removed
<1>7. Cardinality(Live(table)) = nnodes - 1 /\ nnodes - 1 \in Nat /\ nnodes - 1 <= MaxNodes
  <2>1. Cardinality(Live(nodes) \ {i}) = Cardinality(Live(nodes)) - 1
    BY <1>1, <1>3, FS_RemoveElement
  <2>2. Live(nodes) # {}
    BY <1>3
  <2>3. nnodes # 0
    BY <1>1, <2>2, FS_EmptySet DEF Inv
  <2>4. nnodes = Cardinality(Live(nodes)) /\ nnodes <= MaxNodes
    BY DEF Inv
  <2> QED BY <1>1, <1>6, <2>1, <2>3, <2>4
<1>8. MaybeResize(table, nnodes - 1, noccupied)
  BY <1>2 DEF table
<1>9. noccupied = Cardinality(Occupied(table)) /\ shift \in HASH_TABLE_MIN_SHIFT..30
  BY <1>6 DEF Inv
<1>10. /\ shift' \in HASH_TABLE_MIN_SHIFT..30
       /\ IsTable(nodes', shift')
       /\ Counts(nodes', shift', nnodes', noccupied')
       /\ nnodes' = nnodes - 1
       /\ Held(nodes') = Held(table)
  BY <1>1, <1>6, <1>7, <1>8, <1>9, Resized
<1>11. live' = TRUE /\ key_alloc' = nnodes' /\ val_alloc' = nnodes' /\ nnodes' <= MaxNodes
  <2>1. live = TRUE /\ live' = live /\ key_alloc' = key_alloc - 1 /\ val_alloc' = val_alloc - 1
    BY DEF hash_table_remove
  <2> QED BY <1>7, <1>10, <2>1 DEF Inv
<1>12. Inv'
  BY <1>10, <1>11, InvFromCounts
<1>13. Held(nodes)[k] # NULL
  <2>1. \A a, b \in Live(nodes) : nodes[a].key = nodes[b].key => a = b
    BY <1>1 DEF IsTable
  <2>2. nodes[i].key \in Keys
    BY <1>3
  <2>3. Held(nodes)[nodes[i].key] = nodes[i].value
    BY <1>3, <2>1, <2>2, HeldBy
  <2>4. nodes[i].value \in Vals
    BY <1>1, <1>3 DEF IsTable
  <2> QED BY <1>3, <2>3, <2>4
<1> QED BY <1>3, <1>6, <1>10, <1>12, <1>13

\* hash_table_remove_all leaves an empty table of the smallest fitting size.
LEMMA RemoveAllStep ==
    ASSUME Inv, hash_table_remove_all
    PROVE  Inv' /\ Held(nodes') = [k \in Keys |-> NULL]
<1>1. shift \in 0..31 /\ DOMAIN nodes = Buckets(shift) /\ nnodes \in Nat
  BY InvFacts
<1> DEFINE table == [i \in Buckets(shift) |-> EmptyNode]
<1>2. /\ IsTable(table, shift) /\ Live(table) = {} /\ Occupied(table) = {}
      /\ Held(table) = [k \in Keys |-> NULL]
  BY <1>1, EmptyTable
<1>3. MaybeResize(table, 0, 0)
  BY <1>1 DEF hash_table_remove_all
<1> HIDE DEF table
<1>4. Cardinality(Live(table)) = 0 /\ Cardinality(Occupied(table)) = 0 /\ 0 \in Nat /\ 0 <= MaxNodes
  BY <1>2, FS_EmptySet
<1>5. shift \in HASH_TABLE_MIN_SHIFT..30
  BY DEF Inv
<1>6. /\ shift' \in HASH_TABLE_MIN_SHIFT..30
      /\ IsTable(nodes', shift')
      /\ Counts(nodes', shift', nnodes', noccupied')
      /\ nnodes' = 0
      /\ Held(nodes') = Held(table)
  BY <1>2, <1>3, <1>4, <1>5, Resized
<1>7. live' = TRUE /\ key_alloc' = nnodes' /\ val_alloc' = nnodes' /\ nnodes' <= MaxNodes
  <2>1. /\ live = TRUE /\ live' = live
        /\ key_alloc' = key_alloc - Cardinality(Live(nodes))
        /\ val_alloc' = val_alloc - Cardinality(Live(nodes))
    BY DEF hash_table_remove_all, DestroyContents
  <2>2. nnodes = Cardinality(Live(nodes)) /\ key_alloc = nnodes /\ val_alloc = nnodes
    BY DEF Inv
  <2> QED BY <1>1, <1>4, <1>6, <2>1, <2>2
<1>8. Inv'
  BY <1>6, <1>7, InvFromCounts
<1> QED BY <1>2, <1>6, <1>8

\* hash_table_destroy leaves nothing owned.
LEMMA DestroyStep ==
    ASSUME Inv, hash_table_destroy
    PROVE  Inv' /\ Held(nodes') = [k \in Keys |-> NULL]
<1>1. shift \in 0..31 /\ DOMAIN nodes = Buckets(shift) /\ nnodes \in Nat
  BY InvFacts
<1>2. /\ live' = FALSE /\ nnodes' = 0 /\ noccupied' = 0 /\ shift' = shift
      /\ nodes' = [i \in Buckets(shift) |-> EmptyNode]
      /\ key_alloc' = key_alloc - Cardinality(Live(nodes))
      /\ val_alloc' = val_alloc - Cardinality(Live(nodes))
  BY <1>1 DEF hash_table_destroy, DestroyContents
<1>3. /\ IsTable(nodes', shift) /\ Live(nodes') = {} /\ Occupied(nodes') = {}
      /\ Held(nodes') = [k \in Keys |-> NULL]
  BY <1>1, <1>2, EmptyTable
<1>4. Cardinality(Live(nodes')) = 0 /\ Cardinality(Occupied(nodes')) = 0
  BY <1>3, FS_EmptySet
<1>5. key_alloc' = 0 /\ val_alloc' = 0
  <2>1. nnodes = Cardinality(Live(nodes)) /\ key_alloc = nnodes /\ val_alloc = nnodes
    BY DEF Inv
  <2> QED BY <1>1, <1>2, <2>1
<1>6. 0 + 0 \div 16 < 2 ^ shift
  <2>1. 2 ^ shift \in Nat /\ 2 ^ shift > 0
    BY <1>1, PowerGrows
  <2>2. \A x \in Nat : x > 0 => 0 + 0 \div 16 < x
    OBVIOUS
  <2> QED BY <2>1, <2>2
<1>7. shift \in HASH_TABLE_MIN_SHIFT..30 /\ 0 <= MaxNodes
  BY DEF Inv
<1> QED BY <1>2, <1>3, <1>4, <1>5, <1>6, <1>7 DEF Inv

-----------------------------------------------------------------------------
(* The theorems *)

\* An insertion keeps the invariant and writes the dictionary.
LEMMA InsertStep ==
    ASSUME Inv, NEW k \in Keys, NEW v \in Vals, hash_table_insert(k, v)
    PROVE  Inv' /\ Held(nodes') = [Held(nodes) EXCEPT ![k] = v]
<1>1. live = TRUE /\ (ReplaceValue(k, v) \/ NewNode(k, v))
  BY DEF hash_table_insert
<1> QED BY <1>1, ReplaceStep, NewNodeStep

\* Every step keeps the invariant.
LEMMA InvNext ==
    ASSUME Inv, [Next]_vars
    PROVE  Inv'
<1>1. ASSUME hash_table_new PROVE Inv'
  BY <1>1, NewStep
<1>2. ASSUME NEW k \in Keys, NEW v \in Vals, hash_table_insert(k, v) PROVE Inv'
  BY <1>2, InsertStep
<1>3. ASSUME NEW k \in Keys, hash_table_remove(k) PROVE Inv'
  BY <1>3, RemoveStep
<1>4. ASSUME hash_table_remove_all PROVE Inv'
  BY <1>4, RemoveAllStep
<1>5. ASSUME hash_table_destroy PROVE Inv'
  BY <1>5, DestroyStep
<1>6. ASSUME UNCHANGED vars PROVE Inv'
  <2>1. live' = live /\ shift' = shift /\ nodes' = nodes /\ nnodes' = nnodes
        /\ noccupied' = noccupied /\ key_alloc' = key_alloc /\ val_alloc' = val_alloc
    BY <1>6 DEF vars
  <2> QED BY <2>1 DEF Inv
<1> QED BY <1>1, <1>2, <1>3, <1>4, <1>5, <1>6 DEF Next

\* The invariant holds throughout.
THEOREM TableInvariant == Spec => []Inv
<1>1. Init => Inv
  BY InvInit
<1>2. Inv /\ [Next]_vars => Inv'
  BY InvNext
<1> QED BY <1>1, <1>2, PTL DEF Spec

\* The fields of the table keep their types, and its size fits an int.
THEOREM TableTypes == Spec => []TypeOK
<1>1. ASSUME Inv PROVE TypeOK
  <2>1. nnodes \in Nat /\ noccupied \in Nat
    BY <1>1, InvFacts
  <2>2. key_alloc \in Int /\ val_alloc \in Int
    BY <1>1, <2>1 DEF Inv
  <2>3. nodes \in [0..(2 ^ shift - 1) -> HashNode]
    BY <1>1 DEF Inv, IsTable, Buckets
  <2> QED BY <1>1, <2>1, <2>2, <2>3 DEF Inv, TypeOK
<1> QED BY <1>1, TableInvariant, PTL

\* A lookup answers what the table holds, and answers, after any sequence of
\* insertions, replacements, removals and resizes.
THEOREM LookupsAnswer == Spec => []StoredIsFound
<1>1. ASSUME Inv PROVE StoredIsFound
  <2>1. PICK b \in Buckets(shift) : nodes[b].key_hash = Empty
    BY <1>1, InvFacts
  <2>2. shift \in 0..31 /\ IsTable(nodes, shift)
    BY <1>1, InvFacts DEF Inv
  <2>3. ASSUME NEW i \in Live(nodes)
        PROVE  nodes[i].key_hash = HashValue(nodes[i].key) /\ LookupNode(nodes[i].key) = {i}
    <3>1. nodes[i].key \in Keys /\ nodes[i].key_hash = HashValue(nodes[i].key)
      BY <2>2 DEF IsTable
    <3>2. \A j \in Live(nodes) : nodes[j].key = nodes[i].key => LookupNode(nodes[i].key) = {j}
      BY <2>1, <2>2, <3>1, LookupFinds
    <3> QED BY <3>1, <3>2
  <2>4. ASSUME NEW k \in Keys PROVE StopStep(k) # {}
    <3>1. \E t \in Buckets(shift) : StopStep(k) = {t}
      BY <2>1, <2>2, ProbeStops
    <3> QED BY <3>1
  <2>5. ASSUME NEW k \in Keys PROVE hash_table_lookup(k) = Contents[k]
    <3>0. Contents = Held(nodes)
      BY DEF Contents, Held
    <3>1. CASE \E i \in Live(nodes) : nodes[i].key = k
      <4>1. PICK i \in Live(nodes) : nodes[i].key = k
        BY <3>1
      <4>2. LookupNode(k) = {i}
        BY <2>3, <4>1
      <4>3. live = TRUE
        BY <1>1, <4>1 DEF Inv
      <4>4. nodes[i].key_hash # Empty
        BY DEF Live
      <4>5. hash_table_lookup(k) = nodes[i].value
        BY <4>2, <4>3, <4>4 DEF hash_table_lookup
      <4>6. Held(nodes)[nodes[i].key] = nodes[i].value
        <5>1. \A a, c \in Live(nodes) : nodes[a].key = nodes[c].key => a = c
          BY <2>2 DEF IsTable
        <5>2. nodes[i].key \in Keys
          BY <4>1
        <5> QED BY <5>1, <5>2, HeldBy
      <4> QED BY <3>0, <4>1, <4>5, <4>6
    <3>2. CASE \A i \in Live(nodes) : nodes[i].key # k
      <4>1. \E i \in Buckets(shift) : LookupNode(k) = {i} /\ nodes[i].key_hash = Empty
        BY <2>1, <2>2, <3>2, LookupFinds
      <4>2. hash_table_lookup(k) = NULL
        BY <4>1 DEF hash_table_lookup
      <4>3. Held(nodes)[k] = NULL
        BY <3>2, NotHeld
      <4> QED BY <3>0, <4>2, <4>3
    <3> QED BY <3>1, <3>2
  <2> QED BY <2>3, <2>4, <2>5 DEF StoredIsFound
<1> QED BY <1>1, TableInvariant, PTL

\* The counters from which a resize is decided count what the buckets hold, and between
\* two operations the table is neither too sparse nor full.
THEOREM CountersCount == Spec => []CountsAgree
<1>1. ASSUME Inv PROVE CountsAgree
  <2>1. Occupied(nodes) = {i \in DOMAIN nodes : nodes[i].key_hash # Empty}
    BY DEF Occupied
  <2> HIDE DEF Empty
  <2> QED BY <1>1, <2>1 DEF Inv, CountsAgree
<1> QED BY <1>1, TableInvariant, PTL

\* Every key and value handed to the table is owned by one node or was destroyed.
THEOREM NodesOwn == Spec => []Ownership
<1>1. Inv => Ownership
  BY DEF Inv, Ownership
<1> QED BY <1>1, TableInvariant, PTL

\* A step of the table is a step of the dictionary that its buckets hold.
LEMMA DictStep ==
    ASSUME Inv, [Next]_vars
    PROVE  [Abstract!Next]_Contents
<1>0. Contents = Held(nodes) /\ Contents' = Held(nodes')
  BY DEF Contents, Held
<1> USE DEF Abstract!Next, Abstract!Insert, Abstract!Remove, Abstract!RemoveAll
<1>1. ASSUME hash_table_new PROVE Abstract!Next
  BY <1>0, <1>1, NewStep
<1>2. ASSUME NEW k \in Keys, NEW v \in Vals, hash_table_insert(k, v) PROVE Abstract!Next
  BY <1>0, <1>2, InsertStep
<1>3. ASSUME NEW k \in Keys, hash_table_remove(k) PROVE Abstract!Next
  BY <1>0, <1>3, RemoveStep
<1>4. ASSUME hash_table_remove_all PROVE Abstract!Next
  BY <1>0, <1>4, RemoveAllStep
<1>5. ASSUME hash_table_destroy PROVE Abstract!Next
  BY <1>0, <1>5, DestroyStep
<1>6. ASSUME UNCHANGED vars PROVE UNCHANGED Contents
  BY <1>0, <1>6 DEF vars
<1> QED BY <1>1, <1>2, <1>3, <1>4, <1>5, <1>6 DEF Next

\* The table is a dictionary: no collision, tombstone, growth or shrinking loses a key,
\* revives one or answers another key's value.
THEOREM TableIsDict == Spec => ImplementsDict
<1>1. Init => Abstract!Init
  BY InvInit DEF Abstract!Init, Contents, Held
<1>2. Inv /\ [Next]_vars => [Abstract!Next]_Contents
  BY DictStep
<1> QED BY <1>1, <1>2, TableInvariant, PTL DEF Spec, ImplementsDict, Abstract!Spec
=============================================================================
