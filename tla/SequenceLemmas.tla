--------------------------- MODULE SequenceLemmas ---------------------------
(***************************************************************************)
(* Facts about numbers, sequences and folds that the proofs of several     *)
(* components rest on.                                                     *)
(***************************************************************************)
EXTENDS Integers, SequencesExt, FiniteSetTheorems, SequenceTheorems, WellFoundedInduction, TLAPS

-----------------------------------------------------------------------------
(* Induction.  The induction theorems of the library take a predicate; what*)
(* follows takes the set of the numbers that have it.                      *)

LessThan == {pair \in Nat \X Nat : pair[1] < pair[2]}

LEMMA LessThanIsOrder == LessThan = OpToRel(<, Nat)
BY DEF OpToRel, LessThan

LEMMA LeastNumber ==
  ASSUME NEW S, S \subseteq Nat, S # {}
  PROVE  \E m \in S : \A k \in S : m <= k
<1>1. IsWellFoundedOn(LessThan, Nat)
  BY NatLessThanWellFounded, LessThanIsOrder
<1>2. PICK m \in S : \A k \in S : ~ (<<k, m>> \in LessThan)
  BY <1>1, WFMin
<1>3. \A k, l \in Nat : <<k, l>> \in LessThan <=> k < l
  BY DEF LessThan
<1>4. \A k \in S : ~ (k < m)
  BY <1>2, <1>3
<1>5. \A k \in S : m <= k
  BY <1>4
<1> QED  BY <1>5

LEMMA Induction ==
  ASSUME NEW S, 0 \in S, \A n \in Nat : n \in S => n + 1 \in S
  PROVE  Nat \subseteq S
<1> DEFINE Rest == Nat \ S
<1> SUFFICES ASSUME Rest # {} PROVE FALSE
  OBVIOUS
<1>1. PICK m \in Rest : \A k \in Rest : m <= k
  BY LeastNumber
<1>2. m # 0 /\ m - 1 \in Nat /\ m - 1 \notin Rest
  BY <1>1
<1> QED  BY <1>2

(* The same up to a bound.                                                 *)
LEMMA InductionUpTo ==
  ASSUME NEW n \in Nat, NEW S, 0 \in S,
         \A k \in 1..n : k - 1 \in S => k \in S
  PROVE  0..n \subseteq S
<1> DEFINE T == {k \in Nat : k <= n => k \in S}
<1>1. 0 \in T
  OBVIOUS
<1>2. ASSUME NEW k \in Nat, k \in T PROVE k + 1 \in T
  <2>1. CASE k + 1 <= n
    <3>1. k + 1 \in 1..n /\ (k + 1) - 1 = k /\ k \in S
      BY <1>2, <2>1
    <3> QED  BY <3>1
  <2> QED  BY <2>1
<1>3. Nat \subseteq T
  BY <1>1, <1>2, Induction
<1> QED  BY <1>3

LEMMA MaxOfNumbers ==
  ASSUME NEW n \in Nat, NEW w \in SUBSET (1..n), w # {}
  PROVE  Max(w) \in w /\ \A x \in w : x <= Max(w)
<1> DEFINE Bounds == {k \in Nat : \A x \in w : x <= k}
<1>1. n \in Bounds
  OBVIOUS
<1>2. PICK m \in Bounds : \A k \in Bounds : m <= k
  BY <1>1, LeastNumber
<1>3. m \in w
  <2> SUFFICES ASSUME m \notin w PROVE FALSE
    OBVIOUS
  <2>1. PICK x \in w : TRUE
    OBVIOUS
  <2>2. m \in Nat /\ m # 0
    <3>1. x \in 1..n /\ x <= m
      BY <1>2, <2>1
    <3> QED  BY <3>1, <1>2
  <2>3. ASSUME NEW y \in w PROVE y <= m - 1
    <3>1. y \in 1..n /\ y <= m /\ y # m
      BY <1>2
    <3> QED  BY <3>1, <2>2
  <2>4. m - 1 \in Bounds
    BY <2>2, <2>3
  <2> QED  BY <1>2, <2>4
<1>4. \E x \in w : \A y \in w : x >= y
  BY <1>2, <1>3
<1> QED  BY <1>4 DEF Max

-----------------------------------------------------------------------------
(* Folds.  FoldLeft is defined by recursion over the sets of positions,    *)
(* from the largest position down; this is the equation for a step that is *)
(* a function of the result so far and the element.                        *)

Folding(it, base, s, n, step) ==
  it = [w \in SUBSET (1..n) |->
          IF w = {} THEN base ELSE step[<<it[w \ {Max(w)}], s[Max(w)]>>]]

LEMMA FoldingExists ==
  ASSUME NEW A, NEW E, NEW step \in [A \X E -> A], NEW base \in A, NEW s,
         NEW n \in Nat, \A k \in 1..n : s[k] \in E
  PROVE  \E it \in [SUBSET (1..n) -> A] : Folding(it, base, s, n, step)
<1> DEFINE Good == {m \in Nat : \E it \in [SUBSET (1..m) -> A] : Folding(it, base, s, m, step)}
<1>1. 0 \in Good
  <2> DEFINE it == [w \in SUBSET (1..0) |-> base]
  <2>1. 1..0 = {}
    OBVIOUS
  <2>2. it \in [SUBSET (1..0) -> A] /\ Folding(it, base, s, 0, step)
    BY <2>1 DEF Folding
  <2> QED  BY <2>2
<1>2. ASSUME NEW k \in 1..n, k - 1 \in Good PROVE k \in Good
  <2> DEFINE m == k - 1
  <2>0. m \in Nat /\ k = m + 1 /\ k \in Nat
    OBVIOUS
  <2>1. PICK it \in [SUBSET (1..m) -> A] : Folding(it, base, s, m, step)
    BY <1>2
  <2> DEFINE more == [w \in SUBSET (1..k) |->
                        IF k \in w THEN step[<<it[w \ {k}], s[k]>>] ELSE it[w]]
  <2>2. ASSUME NEW w \in SUBSET (1..k), k \in w
        PROVE  Max(w) = k /\ w \ {k} \in SUBSET (1..m)
    <3>1. Max(w) \in w /\ \A x \in w : x <= Max(w)
      BY <2>0, <2>2, MaxOfNumbers
    <3>2. Max(w) \in 1..k /\ k <= Max(w)
      BY <2>2, <3>1
    <3>3. ASSUME NEW x \in w \ {k} PROVE x \in 1..m
      <4>1. x \in 1..k /\ x # k
        OBVIOUS
      <4> QED  BY <4>1
    <3> QED  BY <3>2, <3>3
  <2>3. ASSUME NEW w \in SUBSET (1..k), k \notin w
        PROVE  w \in SUBSET (1..m) /\ (w # {} => Max(w) \in w)
    <3>1. w # {} => Max(w) \in w
      BY <2>0, MaxOfNumbers
    <3>2. ASSUME NEW x \in w PROVE x \in 1..m
      <4>1. x \in 1..k /\ x # k
        BY <2>3
      <4> QED  BY <4>1
    <3> QED  BY <3>1, <3>2
  <2>4. more \in [SUBSET (1..k) -> A]
    <3>1. ASSUME NEW w \in SUBSET (1..k) PROVE more[w] \in A
      <4>1. CASE k \in w
        <5>1. it[w \ {k}] \in A /\ s[k] \in E
          BY <2>1, <2>2, <4>1
        <5> QED  BY <4>1, <5>1
      <4>2. CASE k \notin w
        BY <2>1, <2>3, <4>2
      <4> QED  BY <4>1, <4>2
    <3> QED  BY <3>1
  <2>5. ASSUME NEW w \in SUBSET (1..k)
        PROVE  more[w] = IF w = {} THEN base ELSE step[<<more[w \ {Max(w)}], s[Max(w)]>>]
    <3>1. CASE k \in w
      <4>1. more[w \ {k}] = it[w \ {k}]
        BY <3>1
      <4> QED  BY <3>1, <4>1, <2>2
    <3>2. CASE k \notin w
      <4>1. more[w] = it[w]
        BY <3>2
      <4>2. it[w] = IF w = {} THEN base ELSE step[<<it[w \ {Max(w)}], s[Max(w)]>>]
        BY <2>1, <2>3, <3>2 DEF Folding
      <4>3. w # {} => more[w \ {Max(w)}] = it[w \ {Max(w)}]
        BY <2>3, <3>2
      <4> QED  BY <4>1, <4>2, <4>3
    <3> QED  BY <3>1, <3>2
  <2>6. more = [w \in SUBSET (1..k) |-> more[w]]
    OBVIOUS
  <2> HIDE DEF more
  <2>7. Folding(more, base, s, k, step)
    BY <2>5, <2>6 DEF Folding
  <2> QED  BY <2>0, <2>4, <2>7
<1> HIDE DEF Good
<1>3. 0..n \subseteq Good
  BY <1>1, <1>2, InductionUpTo
<1>4. n \in Good
  BY <1>3
<1> QED  BY <1>4 DEF Good

(* The largest of the first k positions, and what is left without it.      *)
LEMMA LastPosition ==
  ASSUME NEW n \in Nat, NEW k \in 1..n
  PROVE  /\ 1..k \in SUBSET (1..n) /\ 1..k # {}
         /\ Max(1..k) = k /\ (1..k) \ {k} = 1..(k - 1)
<1>1. 1..k \in SUBSET (1..n) /\ 1..k # {}
  OBVIOUS
<1>2. Max(1..k) \in 1..k /\ \A x \in 1..k : x <= Max(1..k)
  BY <1>1, MaxOfNumbers
<1>3. Max(1..k) = k
  BY <1>2
<1> QED  BY <1>1, <1>3

-----------------------------------------------------------------------------
(* Sequences and the sets of their elements                                *)

LEMMA BoundedSequences ==
  ASSUME NEW S, NEW n \in Nat
  PROVE  BoundedSeq(S, n) = {s \in Seq(S) : Len(s) <= n}
<1>1. \A s : s \in BoundedSeq(S, n) <=> \E m \in 0 .. n : s \in [1 .. m -> S]
  BY DEF BoundedSeq, SeqOf
<1>2. \A s \in BoundedSeq(S, n) : s \in Seq(S) /\ Len(s) <= n
  BY <1>1
<1>3. \A s \in Seq(S) : Len(s) <= n => s \in BoundedSeq(S, n)
  <2> SUFFICES ASSUME NEW s \in Seq(S), Len(s) <= n PROVE s \in BoundedSeq(S, n)
    OBVIOUS
  <2>1. Len(s) \in 0 .. n /\ s \in [1 .. Len(s) -> S]
    OBVIOUS
  <2> QED BY <1>1, <2>1
<1> QED BY <1>2, <1>3

LEMMA SequenceOf ==
  ASSUME NEW S, NEW n \in Nat, NEW f \in [1 .. n -> S]
  PROVE  f \in Seq(S) /\ Len(f) = n /\ DOMAIN f = 1 .. n
OBVIOUS

LEMMA Elements ==
  ASSUME NEW S, NEW s \in Seq(S)
  PROVE  /\ ToSet(s) = {s[i] : i \in 1 .. Len(s)}
         /\ ToSet(s) \subseteq S
BY DEF ToSet

LEMMA OnceEach ==
  ASSUME NEW S, NEW seq \in Seq(S), \A i, j \in 1 .. Len(seq) : seq[i] = seq[j] => i = j
  PROVE  IsFiniteSet(ToSet(seq)) /\ Cardinality(ToSet(seq)) = Len(seq)
<1>1. ToSet(seq) = {seq[i] : i \in 1 .. Len(seq)} /\ Len(seq) \in Nat
  BY DEF ToSet
<1>2. seq \in Bijection(1 .. Len(seq), ToSet(seq))
  BY <1>1 DEF Bijection, Injection, Surjection, IsInjective
<1>3. IsFiniteSet(1 .. Len(seq)) /\ Cardinality(1 .. Len(seq)) = Len(seq)
  <2> DEFINE n == Len(seq)
  <2>1. n \in Nat /\ 1 \in Int
    BY <1>1
  <2> HIDE DEF n
  <2>2. IsFiniteSet(1 .. n) /\ Cardinality(1 .. n) = n
    BY <2>1, FS_Interval
  <2> QED BY <2>2 DEF n
<1> QED BY <1>2, <1>3, FS_Bijection DEF ExistsBijection

-----------------------------------------------------------------------------
(* Sorting.  An order is a set of pairs, total and strict on a set.        *)

StrictlyOrders(R, T) ==
  /\ \A x \in T : <<x, x>> \notin R
  /\ \A x, y \in T : x # y => <<x, y>> \in R \/ <<y, x>> \in R
  /\ \A x, y, z \in T : <<x, y>> \in R /\ <<y, z>> \in R => <<x, z>> \in R

(* The order of the elements of a finite set is that of their ranks, which *)
(* number them: the sequence that inverts the ranks is sorted.             *)
LEMMA SortedExists ==
  ASSUME NEW T, IsFiniteSet(T), NEW R, StrictlyOrders(R, T)
  PROVE  \E s \in SetToSeqs(T) : \A i, j \in DOMAIN s : i < j => <<s[i], s[j]>> \in R
<1> DEFINE n == Cardinality(T)
           below(x) == {y \in T : <<y, x>> \in R}
           rank == [x \in T |-> Cardinality(below(x)) + 1]
<1>1. n \in Nat /\ IsFiniteSet(1 .. n) /\ Cardinality(1 .. n) = n
  BY FS_CardinalityType, FS_Interval
<1>2. ASSUME NEW x \in T
      PROVE  /\ IsFiniteSet(below(x)) /\ Cardinality(below(x)) \in Nat
             /\ Cardinality(below(x)) <= n - 1
  <2>1. IsFiniteSet(T \ {x}) /\ Cardinality(T \ {x}) = n - 1
    BY FS_RemoveElement
  <2>2. below(x) \in SUBSET (T \ {x})
    BY DEF StrictlyOrders
  <2> HIDE DEF below
  <2>3. IsFiniteSet(below(x)) /\ Cardinality(below(x)) <= n - 1
    BY <2>1, <2>2, FS_Subset
  <2> QED BY <2>3, FS_CardinalityType
<1>3. ASSUME NEW x \in T, NEW y \in T, <<x, y>> \in R
      PROVE  Cardinality(below(x)) < Cardinality(below(y))
  <2>1. below(x) \in SUBSET below(y) /\ x \in below(y) /\ x \notin below(x)
    BY <1>3 DEF StrictlyOrders
  <2> HIDE DEF below
  <2>2. Cardinality(below(x)) <= Cardinality(below(y))
        /\ (Cardinality(below(y)) = Cardinality(below(x)) => below(y) = below(x))
    BY <1>2, <2>1, FS_Subset
  <2> QED BY <1>2, <2>1, <2>2
<1>4. rank \in [T -> 1 .. n]
  <2>1. \A x \in T : Cardinality(below(x)) + 1 \in 1 .. n
    <3> HIDE DEF below
    <3> QED BY <1>1, <1>2
  <2> HIDE DEF below
  <2> QED BY <2>1
<1>5. \A x, y \in T : rank[x] = rank[y] => x = y
  <2> SUFFICES ASSUME NEW x \in T, NEW y \in T, rank[x] = rank[y], x # y PROVE FALSE
    OBVIOUS
  <2>1. <<x, y>> \in R \/ <<y, x>> \in R
    BY DEF StrictlyOrders
  <2>2. Cardinality(below(x)) = Cardinality(below(y))
    <3>1. Cardinality(below(x)) \in Nat /\ Cardinality(below(y)) \in Nat
      BY <1>2
    <3> HIDE DEF below
    <3> QED BY <3>1
  <2>3. Cardinality(below(x)) \in Nat /\ Cardinality(below(y)) \in Nat
    BY <1>2
  <2> HIDE DEF below
  <2> QED BY <1>3, <2>1, <2>2, <2>3
<1>6. \A x, y \in T : <<x, y>> \in R => rank[x] < rank[y]
  <2> SUFFICES ASSUME NEW x \in T, NEW y \in T, <<x, y>> \in R PROVE rank[x] < rank[y]
    OBVIOUS
  <2>1. Cardinality(below(x)) < Cardinality(below(y))
    BY <1>3
  <2>2. Cardinality(below(x)) \in Nat /\ Cardinality(below(y)) \in Nat
    BY <1>2
  <2> HIDE DEF below
  <2> QED BY <2>1, <2>2
<1> HIDE DEF rank
<1>7. \A i \in 1 .. n : \E x \in T : rank[x] = i
  <2>1. rank \in Injection(T, 1 .. n)
    BY <1>4, <1>5 DEF Injection, IsInjective
  <2>2. rank \in Surjection(T, 1 .. n)
    BY <1>1, <2>1, FS_Injection
  <2> QED BY <2>2 DEF Surjection
<1> DEFINE s == [i \in 1 .. n |-> CHOOSE x \in T : rank[x] = i]
<1>8. \A i \in 1 .. n : s[i] \in T /\ rank[s[i]] = i
  BY <1>7
<1>9. s \in [1 .. n -> T] /\ DOMAIN s = 1 .. n
  BY <1>8
<1> HIDE DEF s
<1>10. s \in SetToSeqs(T)
  BY <1>8, <1>9 DEF SetToSeqs
<1>11. ASSUME NEW i \in 1 .. n, NEW j \in 1 .. n, i < j PROVE <<s[i], s[j]>> \in R
  <2>1. s[i] \in T /\ s[j] \in T /\ rank[s[i]] = i /\ rank[s[j]] = j
    BY <1>8
  <2>2. s[i] # s[j] /\ ~(<<s[j], s[i]>> \in R)
    BY <1>1, <1>6, <1>11, <2>1
  <2> QED BY <2>1, <2>2 DEF StrictlyOrders
<1> QED BY <1>9, <1>10, <1>11

(* A sequence of all elements of a finite set has each of them, once.      *)
LEMMA SeqsCover ==
  ASSUME NEW T, IsFiniteSet(T), NEW s \in SetToSeqs(T)
  PROVE  /\ Cardinality(T) \in Nat /\ DOMAIN s = 1 .. Cardinality(T) /\ Len(s) = Cardinality(T)
         /\ s \in Seq(T) /\ ToSet(s) = T
         /\ \A x \in T : \E i \in 1 .. Cardinality(T) : s[i] = x
         /\ \A i, j \in 1 .. Cardinality(T) : s[i] = s[j] => i = j
<1> DEFINE n == Cardinality(T)
<1>1. n \in Nat /\ IsFiniteSet(1 .. n) /\ Cardinality(1 .. n) = n
  BY FS_CardinalityType, FS_Interval
<1>2. s \in [1 .. n -> T] /\ \A i, j \in 1 .. n : i # j => s[i] # s[j]
  BY DEF SetToSeqs
<1>3. s \in Injection(1 .. n, T)
  BY <1>2 DEF Injection, IsInjective
<1>4. s \in Surjection(1 .. n, T)
  BY <1>1, <1>3, FS_Injection
<1>5. \A x \in T : \E i \in 1 .. n : s[i] = x
  BY <1>4 DEF Surjection
<1>6. s \in Seq(T) /\ Len(s) = n /\ DOMAIN s = 1 .. n
  BY <1>1, <1>2
<1>7. ToSet(s) = T
  BY <1>2, <1>5, <1>6 DEF ToSet
<1> QED BY <1>1, <1>2, <1>5, <1>6, <1>7

(* In a sorted sequence of n elements, n - k are above the k-th.           *)
LEMMA RankFromAbove ==
  ASSUME NEW T, IsFiniteSet(T), NEW R, StrictlyOrders(R, T), NEW s \in SetToSeqs(T),
         \A i, j \in DOMAIN s : i < j => <<s[i], s[j]>> \in R,
         NEW k \in 1 .. Cardinality(T)
  PROVE  Cardinality({y \in T : <<s[k], y>> \in R}) = Cardinality(T) - k
<1> DEFINE n == Cardinality(T)
           above == {y \in T : <<s[k], y>> \in R}
           m == n - k
           t == [i \in 1 .. m |-> s[k + i]]
<1>1. /\ n \in Nat /\ DOMAIN s = 1 .. n /\ s \in Seq(T) /\ Len(s) = n
      /\ \A x \in T : \E i \in 1 .. n : s[i] = x
      /\ \A i, j \in 1 .. n : s[i] = s[j] => i = j
  BY SeqsCover
<1>2. m \in Nat /\ \A i \in 1 .. m : k + i \in 1 .. n
  BY <1>1
<1>3. \A i \in 1 .. m : s[k + i] \in above
  <2>1. \A i \in 1 .. m : k < k + i /\ s[k + i] \in T
    BY <1>1, <1>2
  <2> QED BY <1>1, <1>2, <2>1
<1>4. \A y \in above : \E i \in 1 .. m : s[k + i] = y
  <2> SUFFICES ASSUME NEW y \in above PROVE \E i \in 1 .. m : s[k + i] = y
    OBVIOUS
  <2>1. y \in T /\ <<s[k], y>> \in R
    OBVIOUS
  <2>2. PICK j \in 1 .. n : s[j] = y
    BY <1>1, <2>1
  <2>3. s[k] \in T
    BY <1>1
  <2>4. ~(j < k)
    BY <1>1, <2>1, <2>2, <2>3 DEF StrictlyOrders
  <2>5. j # k
    BY <2>1, <2>2, <2>3 DEF StrictlyOrders
  <2>6. j - k \in 1 .. m /\ k + (j - k) = j
    BY <1>1, <2>4, <2>5
  <2> QED BY <2>2, <2>6
<1> HIDE DEF above
<1>5. t \in Seq(above) /\ Len(t) = m
  BY <1>2, <1>3
<1>6. \A i, j \in 1 .. m : t[i] = t[j] => i = j
  BY <1>1, <1>2
<1>7. ToSet(t) = above
  BY <1>2, <1>3, <1>4 DEF ToSet
<1> HIDE DEF t, m
<1>8. Cardinality(above) = m
  BY <1>5, <1>6, <1>7, OnceEach
<1> QED BY <1>8 DEF above, m

(* A nonempty finite set of numbers has a greatest.                        *)
LEMMA GreatestNumber ==
  ASSUME NEW S, S \subseteq Nat, S # {}, IsFiniteSet(S)
  PROVE  \E m \in S : \A k \in S : k <= m
<1> DEFINE order == {p \in S \X S : p[1] < p[2]}
<1>1. \A a, b \in S : <<a, b>> \in order <=> a < b
  OBVIOUS
<1>2. StrictlyOrders(order, S)
  <2> HIDE DEF order
  <2> QED BY <1>1 DEF StrictlyOrders
<1> HIDE DEF order
<1>3. PICK s \in SetToSeqs(S) : \A i, j \in DOMAIN s : i < j => <<s[i], s[j]>> \in order
  BY <1>2, SortedExists
<1>4. /\ Cardinality(S) \in Nat /\ DOMAIN s = 1 .. Cardinality(S) /\ s \in Seq(S) /\ Len(s) = Cardinality(S)
      /\ \A x \in S : \E i \in 1 .. Cardinality(S) : s[i] = x
  BY SeqsCover
<1> DEFINE n == Cardinality(S)
<1>5. n \in Nat /\ n \in 1 .. n /\ s[n] \in S
  <2>1. PICK x \in S : TRUE
    OBVIOUS
  <2>2. PICK i \in 1 .. n : s[i] = x
    BY <1>4
  <2> QED BY <1>4, <2>2
<1> HIDE DEF n
<1>6. ASSUME NEW k \in S PROVE k <= s[n]
  <2>1. PICK i \in 1 .. n : s[i] = k
    BY <1>4 DEF n
  <2>2. i = n \/ i < n
    BY <1>5, <2>1
  <2>3. i < n => s[i] < s[n]
    <3>1. i < n => <<s[i], s[n]>> \in order
      BY <1>3, <1>4, <1>5, <2>1 DEF n
    <3> QED BY <1>5, <1>1, <2>1, <3>1
  <2>4. s[i] \in Nat /\ s[n] \in Nat
    BY <1>5, <2>1
  <2>5. CASE i = n
    BY <2>1, <2>4, <2>5
  <2>6. CASE i < n
    BY <2>1, <2>3, <2>4, <2>6
  <2> QED BY <2>2, <2>5, <2>6
<1> QED BY <1>5, <1>6
=============================================================================
