---------------------------- MODULE CommonFacts ----------------------------
(* What several proofs need: the arithmetic of the rings of core/, and sorted *)
(* sets.                                                                      *)
EXTENDS SortedSets, FiniteSetTheorems, TLAPS

\* Positions less than a ring apart are in different slots.
LEMMA SlotsDiffer ==
  ASSUME NEW n \in Nat \ {0}, NEW j \in Nat, NEW k \in Nat, j < k, k < j + n
  PROVE  j % n # k % n
<1> DEFINE qj == j \div n
           qk == k \div n
<1>1. /\ qj \in Nat /\ qk \in Nat
      /\ j = n * qj + (j % n) /\ k = n * qk + (k % n)
  OBVIOUS
<1>2. SUFFICES ASSUME j % n = k % n PROVE FALSE
  OBVIOUS
<1>3. k - j = n * (qk - qj)
  BY <1>1, <1>2
<1>4. qk > qj
  BY <1>1, <1>3
<1>5. n * (qk - qj) >= n
  BY <1>1, <1>4
<1> QED
  BY <1>3, <1>5

\* A remainder is known by any way of writing the number.
LEMMA Remainder ==
  ASSUME NEW n \in Nat \ {0}, NEW k \in Nat, NEW q \in Nat, NEW r \in 0 .. n - 1, k = n * q + r
  PROVE  k % n = r
<1> DEFINE p == k \div n
           s == k % n
<1>1. p \in Nat /\ s \in 0 .. n - 1 /\ k = n * p + s
  OBVIOUS
<1> HIDE DEF p, s
<1>2. n * p + s = n * q + r
  BY <1>1
<1>3. ASSUME p > q PROVE s = r
  <2>1. n * p >= n * (q + 1)
    BY <1>1, <1>3
  <2>2. n * (q + 1) = n * q + n
    OBVIOUS
  <2> QED
    BY <1>1, <1>2, <2>1, <2>2
<1>4. ASSUME p < q PROVE s = r
  <2>1. n * q >= n * (p + 1)
    BY <1>1, <1>4
  <2>2. n * (p + 1) = n * p + n
    BY <1>1
  <2> QED
    BY <1>1, <1>2, <2>1, <2>2
<1>5. ASSUME p = q PROVE s = r
  BY <1>1, <1>2, <1>5
<1>6. p > q \/ p < q \/ p = q
  BY <1>1
<1>7. s = r
  BY <1>3, <1>4, <1>5, <1>6
<1> QED
  BY <1>7 DEF s

\* A ring further is the same slot.
LEMMA NextLap ==
  ASSUME NEW n \in Nat \ {0}, NEW k \in Nat
  PROVE  (k + n) % n = k % n
<1>1. PICK q \in Nat, r \in 0 .. n - 1 : k = n * q + r
  <2>1. k \div n \in Nat /\ k % n \in 0 .. n - 1 /\ k = n * (k \div n) + (k % n)
    OBVIOUS
  <2> QED
    BY <2>1
<1>2. k + n = n * (q + 1) + r
  BY <1>1
<1> QED
  BY <1>1, <1>2, Remainder

\* The next slot is the next index, or the first.
LEMMA NextSlot ==
  ASSUME NEW n \in Nat \ {0}, NEW k \in Nat
  PROVE  (k + 1) % n = ((k % n) + 1) % n
<1>1. PICK q \in Nat, r \in 0 .. n - 1 : k = n * q + r
  <2>1. k \div n \in Nat /\ k % n \in 0 .. n - 1 /\ k = n * (k \div n) + (k % n)
    OBVIOUS
  <2> QED
    BY <2>1
<1>2. k % n = r
  BY <1>1, Remainder
<1>3. CASE r + 1 < n
  <2>1. k + 1 = n * q + (r + 1) /\ r + 1 \in 0 .. n - 1 /\ r + 1 = n * 0 + (r + 1)
       /\ k + 1 \in Nat /\ r + 1 \in Nat /\ 0 \in Nat
    BY <1>1, <1>3
  <2>2. (k + 1) % n = r + 1
    BY <2>1, Remainder
  <2>3. (r + 1) % n = r + 1
    BY <2>1, Remainder
  <2> QED
    BY <1>2, <2>2, <2>3
<1>4. CASE r + 1 = n
  <2>1. k + 1 = n * (q + 1) + 0 /\ r + 1 = n * 1 + 0 /\ 0 \in 0 .. n - 1 /\ r + 1 \in Nat
       /\ k + 1 \in Nat /\ q + 1 \in Nat /\ 1 \in Nat
    BY <1>1, <1>4
  <2>2. (k + 1) % n = 0
    BY <2>1, Remainder
  <2>3. (r + 1) % n = 0
    BY <2>1, Remainder
  <2> QED
    BY <1>2, <2>2, <2>3
<1> QED
  BY <1>3, <1>4

\* Sorted gives the members of a set in increasing order, each once.
LEMMA SortedFacts ==
  ASSUME NEW S \in SUBSET Int, IsFiniteSet(S)
  PROVE  /\ Cardinality(S) \in Nat
         /\ Sorted(S) \in [1 .. Cardinality(S) -> S]
         /\ \A x \in S : \E k \in 1 .. Cardinality(S) : Sorted(S)[k] = x
         /\ \A j, k \in 1 .. Cardinality(S) : j < k => Sorted(S)[j] < Sorted(S)[k]
<1> DEFINE n == Cardinality(S)
           upTo(x) == {y \in S : y <= x}
           rank(x) == Cardinality(upTo(x))
           ranks == [x \in S |-> rank(x)]
<1>1. n \in Nat /\ IsFiniteSet(1 .. n) /\ Cardinality(1 .. n) = n
  BY FS_CardinalityType, FS_Interval
<1>2. ASSUME NEW x \in S PROVE rank(x) \in 1 .. n
  <2>1. upTo(x) \in SUBSET S /\ x \in upTo(x)
    OBVIOUS
  <2>2. IsFiniteSet(upTo(x)) /\ rank(x) <= n
    BY <2>1, FS_Subset
  <2>3. rank(x) \in Nat /\ rank(x) # 0
    BY <2>1, <2>2, FS_CardinalityType, FS_EmptySet
  <2> QED
    BY <1>1, <2>2, <2>3
<1>3. ASSUME NEW x \in S, NEW z \in S, x < z PROVE rank(x) < rank(z)
  <2>1. upTo(x) \in SUBSET upTo(z) /\ z \in upTo(z) /\ z \notin upTo(x)
    <3>1. x \in Int /\ z \in Int /\ \A y \in S : y \in Int
      OBVIOUS
    <3>2. (\A y \in S : y <= x => y <= z) /\ z <= z /\ ~(z <= x)
      BY <1>3, <3>1
    <3> QED
      BY <3>2
  <2>2. IsFiniteSet(upTo(z))
    BY FS_Subset
  <2>3. rank(x) <= rank(z) /\ rank(x) # rank(z)
    BY <2>1, <2>2, FS_Subset
  <2>4. rank(x) \in 1 .. n /\ rank(z) \in 1 .. n
    BY <1>2
  <2> QED
    BY <1>1, <2>3, <2>4
<1> HIDE DEF upTo
<1>4. ranks \in Injection(S, 1 .. n)
  <2>1. ranks \in [S -> 1 .. n]
    BY <1>2
  <2>2. ASSUME NEW x \in S, NEW z \in S, rank(x) = rank(z) PROVE x = z
    <3>1. rank(x) \in Int /\ rank(z) \in Int
      BY <1>2
    <3> QED
      BY <1>3, <2>2, <3>1
  <2> QED
    BY <2>1, <2>2 DEF Injection, IsInjective
<1>5. ranks \in Surjection(S, 1 .. n)
  BY <1>1, <1>4, FS_Injection
<1>6. ASSUME NEW k \in 1 .. n PROVE \E x \in S : rank(x) = k
  BY <1>5 DEF Surjection
<1>7. Sorted(S) = [k \in 1 .. n |-> CHOOSE x \in S : rank(x) = k]
  BY DEF Sorted, upTo
<1>8. ASSUME NEW k \in 1 .. n PROVE Sorted(S)[k] \in S /\ rank(Sorted(S)[k]) = k
  BY <1>6, <1>7
<1>9. Sorted(S) \in [1 .. n -> S]
  BY <1>7, <1>8
<1>10. ASSUME NEW x \in S PROVE \E k \in 1 .. n : Sorted(S)[k] = x
  <2>1. rank(x) \in 1 .. n
    BY <1>2
  <2>2. Sorted(S)[rank(x)] \in S /\ rank(Sorted(S)[rank(x)]) = rank(x)
    BY <1>8, <2>1
  <2>3. ranks[Sorted(S)[rank(x)]] = ranks[x]
    BY <2>2
  <2>4. Sorted(S)[rank(x)] = x
    BY <1>4, <2>2, <2>3 DEF Injection, IsInjective
  <2> QED
    BY <2>1, <2>4
<1>11. ASSUME NEW j \in 1 .. n, NEW k \in 1 .. n, j < k PROVE Sorted(S)[j] < Sorted(S)[k]
  <2>1. /\ Sorted(S)[j] \in Int /\ Sorted(S)[k] \in Int
        /\ rank(Sorted(S)[j]) = j /\ rank(Sorted(S)[k]) = k
        /\ Sorted(S)[j] \in S /\ Sorted(S)[k] \in S
    BY <1>8
  <2>2. Sorted(S)[j] # Sorted(S)[k]
    BY <1>11, <2>1
  <2>3. ~(Sorted(S)[k] < Sorted(S)[j])
    <3> SUFFICES ASSUME Sorted(S)[k] < Sorted(S)[j] PROVE FALSE
      OBVIOUS
    <3>1. rank(Sorted(S)[k]) < rank(Sorted(S)[j])
      BY <1>3, <2>1
    <3> HIDE DEF rank
    <3> QED
      BY <1>11, <2>1, <3>1
  <2> QED
    BY <2>1, <2>2, <2>3
<1> QED
  BY <1>1, <1>9, <1>10, <1>11
=============================================================================
