---------------------------- MODULE OrderTheorems ----------------------------
(***************************************************************************)
(* Facts about finite sets of numbers and the sequences that list them in  *)
(* order, which the proofs about CPUs (cores and their threads) and about  *)
(* backups (rows by age) share.                                            *)
(***************************************************************************)
EXTENDS Integers, FiniteSets, TLAPS, WellFoundedInduction, FiniteSetTheorems

(* The naturals are well-founded.                                          *)
LEMMA Least ==
    ASSUME NEW T, T \subseteq Nat, T # {}
    PROVE  \E x \in T : \A y \in T : x <= y
<1> DEFINE R == {ss \in Nat \X Nat : ss[1] < ss[2]}
<1>1. IsWellFoundedOn(R, Nat)
  BY NatLessThanWellFounded DEF OpToRel
<1> HIDE DEF R
<1>2. PICK x \in T : \A y \in T : ~(<<y, x>> \in R)
  BY <1>1, WFMin
<1>3. ASSUME NEW y \in T PROVE x <= y
  <2>1. x \in Nat /\ y \in Nat
    OBVIOUS
  <2>2. <<y, x>> \in R <=> y < x
    BY <2>1 DEF R
  <2>3. QED
    BY <1>2, <2>1, <2>2
<1>4. QED
  BY <1>3

(* A finite set of numbers can be listed in ascending order.               *)
LEMMA Ascends ==
    ASSUME NEW S, S \subseteq Nat, IsFiniteSet(S)
    PROVE  \E s \in [1..Cardinality(S) -> S] :
              \A i, j \in 1..Cardinality(S) : i < j => s[i] < s[j]
<1> DEFINE n == Cardinality(S)
           Lower(x) == {y \in S : y < x}
           rank == [x \in S |-> Cardinality(Lower(x))]
<1>1. n \in Nat
  BY FS_CardinalityType
<1>2. \A x \in S : IsFiniteSet(Lower(x)) /\ Cardinality(Lower(x)) \in 0..(n - 1)
  <2> SUFFICES ASSUME NEW x \in S
               PROVE  IsFiniteSet(Lower(x)) /\ Cardinality(Lower(x)) \in 0..(n - 1)
    OBVIOUS
  <2>1. Lower(x) \subseteq S \ {x}
    OBVIOUS
  <2>2. IsFiniteSet(S \ {x}) /\ Cardinality(S \ {x}) = n - 1
    BY FS_RemoveElement
  <2> HIDE DEF Lower, n
  <2>3. /\ IsFiniteSet(Lower(x)) /\ Cardinality(Lower(x)) <= n - 1
        /\ Cardinality(Lower(x)) \in Nat
    BY <2>1, <2>2, FS_Subset, FS_CardinalityType
  <2>4. QED
    BY <1>1, <2>3
<1>3. \A x, y \in S : x < y => Cardinality(Lower(x)) < Cardinality(Lower(y))
  <2> SUFFICES ASSUME NEW x \in S, NEW y \in S, x < y
               PROVE  Cardinality(Lower(x)) < Cardinality(Lower(y))
    OBVIOUS
  <2>1. Lower(x) \subseteq Lower(y) \ {x} /\ x \in Lower(y)
    <3>1. \A z \in S : z \in Nat /\ (z < x => z < y /\ z # x)
      OBVIOUS
    <3>2. QED
      BY <3>1
  <2> HIDE DEF Lower, n
  <2>2. /\ IsFiniteSet(Lower(y) \ {x})
        /\ Cardinality(Lower(y) \ {x}) = Cardinality(Lower(y)) - 1
    BY <1>2, <2>1, FS_RemoveElement
  <2>3. Cardinality(Lower(x)) <= Cardinality(Lower(y)) - 1
    BY <2>1, <2>2, FS_Subset
  <2>4. QED
    BY <1>1, <1>2, <2>3
<1> HIDE DEF Lower, n
<1>4. \A x, y \in S : Cardinality(Lower(x)) < Cardinality(Lower(y)) => x < y
  BY <1>1, <1>2, <1>3
<1>5. rank \in Injection(S, 0..(n - 1))
  <2>1. rank \in [S -> 0..(n - 1)]
    BY <1>2
  <2>2. ASSUME NEW x \in S, NEW y \in S, rank[x] = rank[y] PROVE x = y
    <3>1. Cardinality(Lower(x)) = Cardinality(Lower(y))
      BY <2>2
    <3>2. ~(x < y) /\ ~(y < x)
      BY <1>1, <1>2, <1>3, <3>1
    <3>3. QED
      BY <3>2
  <2>3. QED
    BY <2>1, <2>2 DEF Injection, IsInjective
<1>6. rank \in Surjection(S, 0..(n - 1))
  <2>1. IsFiniteSet(0..(n - 1)) /\ Cardinality(0..(n - 1)) = n
    BY <1>1, FS_Interval
  <2> HIDE DEF rank
  <2>2. Cardinality(S) = Cardinality(0..(n - 1)) <=> rank \in Surjection(S, 0..(n - 1))
    BY <1>5, <2>1, FS_Injection
  <2>3. QED
    BY <2>1, <2>2 DEF n
<1>7. \A i \in 1..n : \E x \in S : Cardinality(Lower(x)) = i - 1
  <2> SUFFICES ASSUME NEW i \in 1..n PROVE \E x \in S : Cardinality(Lower(x)) = i - 1
    OBVIOUS
  <2>1. i - 1 \in 0..(n - 1)
    BY <1>1
  <2>2. PICK x \in S : rank[x] = i - 1
    BY <1>6, <2>1 DEF Surjection
  <2>3. QED
    BY <2>2
<1> DEFINE s == [i \in 1..n |-> CHOOSE x \in S : Cardinality(Lower(x)) = i - 1]
<1>8. \A i \in 1..n : s[i] \in S /\ Cardinality(Lower(s[i])) = i - 1
  BY <1>7
<1>9. s \in [1..n -> S]
  BY <1>8
<1>10. ASSUME NEW i \in 1..n, NEW j \in 1..n, i < j PROVE s[i] < s[j]
  <2>1. i - 1 < j - 1
    BY <1>1, <1>10
  <2> HIDE DEF s
  <2>2. QED
    BY <1>4, <1>8, <2>1
<1> HIDE DEF s
<1>11. QED
  BY <1>9, <1>10 DEF n

(* And in descending order.                                                *)
LEMMA Descends ==
    ASSUME NEW S, S \subseteq Nat, IsFiniteSet(S)
    PROVE  \E s \in [1..Cardinality(S) -> S] :
              \A i, j \in 1..Cardinality(S) : i < j => s[i] > s[j]
<1> DEFINE n == Cardinality(S)
<1>1. n \in Nat
  BY FS_CardinalityType
<1>2. PICK s \in [1..n -> S] : \A i, j \in 1..n : i < j => s[i] < s[j]
  BY Ascends
<1> HIDE DEF n
<1> DEFINE r == [i \in 1..n |-> s[n + 1 - i]]
<1>3. \A i \in 1..n : n + 1 - i \in 1..n
  BY <1>1
<1>4. r \in [1..n -> S]
  BY <1>3
<1>5. ASSUME NEW i \in 1..n, NEW j \in 1..n, i < j PROVE r[i] > r[j]
  <2>1. n + 1 - j < n + 1 - i
    BY <1>1, <1>5
  <2>2. s[n + 1 - j] < s[n + 1 - i]
    BY <1>2, <1>3, <2>1
  <2>3. s[n + 1 - j] \in Nat /\ s[n + 1 - i] \in Nat
    BY <1>2, <1>3
  <2>4. QED
    BY <2>2, <2>3
<1> HIDE DEF r
<1>6. QED
  BY <1>4, <1>5 DEF n

(* A list without repetitions as long as the set has every element.        *)
LEMMA ListsAll ==
    ASSUME NEW S, IsFiniteSet(S), NEW s \in [1..Cardinality(S) -> S],
           \A i, j \in 1..Cardinality(S) : i < j => s[i] # s[j]
    PROVE  \A x \in S : \E i \in 1..Cardinality(S) : s[i] = x
<1> DEFINE n == Cardinality(S)
<1>1. n \in Nat
  BY FS_CardinalityType
<1>2. IsFiniteSet(1..n) /\ Cardinality(1..n) = n
  BY <1>1, FS_Interval
<1>3. \A i, j \in 1..n : s[i] = s[j] => i = j
  <2> SUFFICES ASSUME NEW i \in 1..n, NEW j \in 1..n, i # j PROVE s[i] # s[j]
    OBVIOUS
  <2>1. i < j \/ j < i
    BY <1>1
  <2>2. QED
    BY <2>1
<1>4. s \in Injection(1..n, S)
  BY <1>3 DEF Injection, IsInjective
<1> HIDE DEF n
<1>5. s \in Surjection(1..n, S)
  <2>1. Cardinality(1..n) = Cardinality(S) <=> s \in Surjection(1..n, S)
    BY <1>4, FS_Injection
  <2>2. QED
    BY <1>2, <2>1 DEF n
<1>6. QED
  BY <1>5 DEF n, Surjection

(* A finite set of numbers has a greatest one.                             *)
LEMMA Greatest ==
    ASSUME NEW S, S \subseteq Nat, IsFiniteSet(S), S # {}
    PROVE  \E x \in S : \A y \in S : x >= y
<1> DEFINE n == Cardinality(S)
<1>1. n \in Nat /\ n # 0
  BY FS_CardinalityType, FS_EmptySet
<1>2. PICK s \in [1..n -> S] : \A i, j \in 1..n : i < j => s[i] > s[j]
  BY Descends
<1> HIDE DEF n
<1>3. \A i, j \in 1..n : i < j => s[i] # s[j]
  <2> SUFFICES ASSUME NEW i \in 1..n, NEW j \in 1..n, i < j PROVE s[i] # s[j]
    OBVIOUS
  <2>1. s[i] \in Nat /\ s[j] \in Nat /\ s[i] > s[j]
    BY <1>2
  <2>2. QED
    BY <2>1
<1>4. ASSUME NEW y \in S PROVE s[1] >= y
  <2>1. PICK i \in 1..n : s[i] = y
    <3>1. s \in [1..Cardinality(S) -> S]
      BY <1>2 DEF n
    <3>2. \A i, j \in 1..Cardinality(S) : i < j => s[i] # s[j]
      BY <1>3 DEF n
    <3>3. \A x \in S : \E i \in 1..Cardinality(S) : s[i] = x
      BY <3>1, <3>2, ListsAll
    <3>4. QED
      BY <3>3 DEF n
  <2>2. 1 \in 1..n /\ (i = 1 \/ 1 < i)
    BY <1>1
  <2>3. s[1] \in Nat /\ s[i] \in Nat
    BY <1>2, <2>2
  <2>4. QED
    BY <1>2, <2>1, <2>2, <2>3
<1>5. s[1] \in S
  BY <1>1, <1>2
<1>6. QED
  BY <1>4, <1>5

=============================================================================
