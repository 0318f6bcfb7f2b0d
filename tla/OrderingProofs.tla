--------------------------- MODULE OrderingProofs ----------------------------
(***************************************************************************)
(* Filtering keeps the elements that it takes, each once and in order, and *)
(* sorting keeps all; entries that come in another order are sorted into   *)
(* the same list if those with the same key are the same.                  *)
(***************************************************************************)
EXTENDS Ordering, FiniteSetTheorems, FunctionTheorems, SequenceTheorems,
        WellFoundedInduction, TLAPS

-----------------------------------------------------------------------------
(* Ranks. *)

(* A strict total order on a set, as a set of pairs. *)
StrictOrder(R, S) ==
  /\ \A x \in S : <<x, x>> \notin R
  /\ \A x, y, z \in S : <<x, y>> \in R /\ <<y, z>> \in R => <<x, z>> \in R
  /\ \A x, y \in S : x = y \/ <<x, y>> \in R \/ <<y, x>> \in R

UpTo(R, S, x) == {y \in S : y = x \/ <<y, x>> \in R}

RankOf(R, S) == [x \in S |-> Cardinality(UpTo(R, S, x))]

(* The ranks of a finite set are 1, 2, and so on, each of one element: the *)
(* smaller of two has fewer elements below it, and an injection between    *)
(* sets of one size is onto.                                               *)
LEMMA RankGrows ==
  ASSUME NEW S, IsFiniteSet(S), NEW R, StrictOrder(R, S),
         NEW x \in S, NEW y \in S, <<x, y>> \in R
  PROVE  /\ Cardinality(UpTo(R, S, x)) \in Nat
         /\ Cardinality(UpTo(R, S, y)) \in Nat
         /\ Cardinality(UpTo(R, S, x)) < Cardinality(UpTo(R, S, y))
<1> DEFINE X == UpTo(R, S, x)
           Y == UpTo(R, S, y)
<1>1. X \in SUBSET Y /\ Y \in SUBSET S /\ y \in Y /\ y \notin X
  BY DEF UpTo, StrictOrder
<1> HIDE DEF X, Y
<1>2. IsFiniteSet(Y)
  BY <1>1, FS_Subset
<1>3. IsFiniteSet(X) /\ Cardinality(X) <= Cardinality(Y)
      /\ Cardinality(X) # Cardinality(Y)
  BY <1>1, <1>2, FS_Subset
<1>4. Cardinality(X) \in Nat /\ Cardinality(Y) \in Nat
  BY <1>2, <1>3, FS_CardinalityType
<1> QED BY <1>3, <1>4 DEF X, Y

(* Ranks number the elements of a finite set from 1, without gaps. *)
LEMMA RankIsBijection ==
  ASSUME NEW S, IsFiniteSet(S), NEW R, StrictOrder(R, S)
  PROVE  /\ Cardinality(S) \in Nat
         /\ RankOf(R, S) \in Bijection(S, 1 .. Cardinality(S))
<1> DEFINE f == RankOf(R, S)
           N == Cardinality(S)
<1>1. N \in Nat
  BY FS_CardinalityType
<1>2. ASSUME NEW x \in S PROVE Cardinality(UpTo(R, S, x)) \in 1 .. N
  <2> DEFINE X == UpTo(R, S, x)
  <2>1. X \in SUBSET S /\ x \in X
    BY DEF UpTo
  <2> HIDE DEF X
  <2>2. IsFiniteSet(X) /\ Cardinality(X) <= N
    BY <2>1, FS_Subset
  <2>3. Cardinality(X) \in Nat /\ Cardinality(X) # 0
    BY <2>1, <2>2, FS_CardinalityType, FS_EmptySet
  <2> QED BY <1>1, <2>2, <2>3 DEF X
<1>3. f \in [S -> 1 .. N]
  BY <1>2 DEF RankOf
<1>4. ASSUME NEW x \in S, NEW y \in S, f[x] = f[y] PROVE x = y
  <2>1. Cardinality(UpTo(R, S, x)) = Cardinality(UpTo(R, S, y))
    BY <1>4 DEF RankOf
  <2>2. <<x, y>> \notin R
    BY <2>1, RankGrows
  <2>3. <<y, x>> \notin R
    BY <2>1, RankGrows
  <2> QED BY <2>2, <2>3 DEF StrictOrder
<1> HIDE DEF f, N
<1>5. f \in Injection(S, 1 .. N)
  BY <1>3, <1>4, Fun_IsInj
<1>6. IsFiniteSet(1 .. N) /\ Cardinality(1 .. N) = N
  BY <1>1, FS_Interval
<1>7. f \in Surjection(S, 1 .. N)
  BY <1>5, <1>6, FS_Injection DEF N
<1> QED BY <1>1, <1>5, <1>7 DEF Bijection, f, N

(* Distinct elements have distinct ranks, and every rank is taken.         *)
Ranked(R, S) ==
  /\ Cardinality(S) \in Nat
  /\ \A x \in S : Cardinality(UpTo(R, S, x)) \in 1 .. Cardinality(S)
  /\ \A x, y \in S : Cardinality(UpTo(R, S, x)) = Cardinality(UpTo(R, S, y)) => x = y
  /\ \A k \in 1 .. Cardinality(S) : \E x \in S : Cardinality(UpTo(R, S, x)) = k

(* The same, element by element. *)
LEMMA RankFinds ==
  ASSUME NEW S, IsFiniteSet(S), NEW R, StrictOrder(R, S)
  PROVE  Ranked(R, S)
<1> DEFINE f == RankOf(R, S)
<1>1. Cardinality(S) \in Nat /\ f \in Bijection(S, 1 .. Cardinality(S))
  BY RankIsBijection
<1>2. \A x \in S : f[x] = Cardinality(UpTo(R, S, x))
  BY DEF RankOf
<1> HIDE DEF f
<1>3. f \in [S -> 1 .. Cardinality(S)]
  BY <1>1 DEF Bijection, Injection
<1>4. \A x, y \in S : f[x] = f[y] => x = y
  BY <1>1 DEF Bijection, Injection, IsInjective
<1>5. \A k \in 1 .. Cardinality(S) : \E x \in S : f[x] = k
  BY <1>1 DEF Bijection, Surjection
<1> QED BY <1>1, <1>2, <1>3, <1>4, <1>5 DEF Ranked

-----------------------------------------------------------------------------
(* Numbers. *)

(* A set of natural numbers has a least element, and a bounded one a       *)
(* greatest.                                                               *)
LEMMA LeastOf ==
  ASSUME NEW T \in SUBSET Nat, T # {}
  PROVE  \E n \in T : \A m \in T : n <= m
<1> DEFINE R == OpToRel(<, Nat)
<1>1. IsWellFoundedOn(R, Nat)
  BY NatLessThanWellFounded
<1>2. PICK n \in T : \A m \in T : <<m, n>> \notin R
  BY <1>1, WFMin, Zenon
<1>3. \A m \in T : <<m, n>> \notin R => n <= m
  BY DEF OpToRel
<1> QED BY <1>2, <1>3

(* The greatest element is the least distance from the bound. *)
LEMMA GreatestOf ==
  ASSUME NEW N \in Nat, NEW T \in SUBSET (1 .. N), T # {}
  PROVE  \E n \in T : \A m \in T : m <= n
<1> DEFINE U == {k \in Nat : N - k \in T}
<1>1. U \in SUBSET Nat /\ U # {}
  <2>1. PICK n \in T : TRUE
    OBVIOUS
  <2>2. N - n \in Nat /\ N - (N - n) = n
    OBVIOUS
  <2> QED BY <2>1, <2>2
<1>2. PICK k \in U : \A m \in U : k <= m
  <2> HIDE DEF U
  <2> QED BY <1>1, LeastOf
<1>3. \A m \in T : N - m \in U
  <2>1. \A m \in T : N - m \in Nat /\ N - (N - m) = m
    OBVIOUS
  <2> QED BY <2>1
<1>4. \A m \in T : k <= N - m
  BY <1>2, <1>3
<1>5. N - k \in T /\ k \in Nat
  BY <1>2
<1>6. \A m \in T : m <= N - k
  BY <1>4, <1>5
<1> QED BY <1>5, <1>6

(* The k-th of some numbers is one of them, each is the k-th for one k, and *)
(* they come in order.                                                     *)
LEMMA NthFinds ==
  ASSUME NEW numbers \in SUBSET Nat, IsFiniteSet(numbers)
  PROVE  /\ Cardinality(numbers) \in Nat
         /\ \A k \in 1 .. Cardinality(numbers) : Nth(numbers, k) \in numbers
         /\ \A n \in numbers : \E k \in 1 .. Cardinality(numbers) : Nth(numbers, k) = n
         /\ \A k, l \in 1 .. Cardinality(numbers) :
              k < l <=> Nth(numbers, k) < Nth(numbers, l)
<1> DEFINE R == {p \in numbers \X numbers : p[1] < p[2]}
           up(n) == {m \in numbers : m <= n}
           N == Cardinality(numbers)
<1>0. \A m, n \in numbers : <<m, n>> \in R <=> m < n
  OBVIOUS
<1> HIDE DEF R
<1>1. StrictOrder(R, numbers)
  BY <1>0 DEF StrictOrder
<1>2. ASSUME NEW n \in numbers PROVE UpTo(R, numbers, n) = up(n)
  <2>1. \A m \in numbers : (m = n \/ <<m, n>> \in R) <=> m <= n
    BY <1>0
  <2> QED BY <2>1 DEF UpTo
<1>3. /\ N \in Nat
      /\ \A n \in numbers : Cardinality(up(n)) \in 1 .. N
      /\ \A m, n \in numbers : Cardinality(up(m)) = Cardinality(up(n)) => m = n
      /\ \A k \in 1 .. N : \E n \in numbers : Cardinality(up(n)) = k
  <2>1. Ranked(R, numbers)
    BY <1>1, RankFinds
  <2> HIDE DEF up
  <2> QED BY <1>2, <2>1 DEF Ranked
<1>4. \A k \in 1 .. N : Nth(numbers, k) \in numbers /\ Cardinality(up(Nth(numbers, k))) = k
  BY <1>3 DEF Nth
<1>5. ASSUME NEW m \in numbers, NEW n \in numbers, m < n
      PROVE  Cardinality(up(m)) < Cardinality(up(n))
  <2>1. <<m, n>> \in R
    BY <1>0, <1>5
  <2>2. Cardinality(UpTo(R, numbers, m)) < Cardinality(UpTo(R, numbers, n))
    BY <1>1, <2>1, RankGrows
  <2> QED BY <1>2, <2>2
<1> HIDE DEF N, up
<1>6. ASSUME NEW k \in 1 .. N, NEW l \in 1 .. N
      PROVE  k < l <=> Nth(numbers, k) < Nth(numbers, l)
  <2> DEFINE m == Nth(numbers, k)
             n == Nth(numbers, l)
  <2>1. m \in numbers /\ n \in numbers /\ Cardinality(up(m)) = k /\ Cardinality(up(n)) = l
    BY <1>4
  <2> HIDE DEF m, n
  <2>2. m < n => k < l
    BY <1>5, <2>1
  <2>3. n < m => l < k
    BY <1>5, <2>1
  <2>4. m = n => k = l
    BY <2>1
  <2>5. m \in Nat /\ n \in Nat /\ k \in Nat /\ l \in Nat
    BY <2>1
  <2> QED BY <2>2, <2>3, <2>4, <2>5 DEF m, n
<1>7. ASSUME NEW n \in numbers PROVE \E k \in 1 .. N : Nth(numbers, k) = n
  <2>1. Cardinality(up(n)) \in 1 .. N
    BY <1>3
  <2> QED BY <1>3, <1>4, <2>1
<1> QED BY <1>3, <1>4, <1>6, <1>7 DEF N

-----------------------------------------------------------------------------
(* Filtering. *)

(* The filtered list: where each of its elements comes from, and where     *)
(* each that it takes goes.                                                *)
LEMMA PickedFinds ==
  ASSUME NEW T, NEW seq \in Seq(T), NEW numbers \in SUBSET DOMAIN seq
  PROVE  /\ IsFiniteSet(numbers) /\ Cardinality(numbers) \in Nat
         /\ Picked(seq, numbers) \in Seq(T)
         /\ Len(Picked(seq, numbers)) = Cardinality(numbers)
         /\ \A k \in 1 .. Cardinality(numbers) :
              /\ Nth(numbers, k) \in numbers
              /\ Picked(seq, numbers)[k] = seq[Nth(numbers, k)]
         /\ \A n \in numbers :
              \E k \in 1 .. Cardinality(numbers) : Nth(numbers, k) = n
         /\ \A k, l \in 1 .. Cardinality(numbers) :
              k < l <=> Nth(numbers, k) < Nth(numbers, l)
<1> DEFINE N == Cardinality(numbers)
<1>1. numbers \in SUBSET Nat /\ numbers \in SUBSET (1 .. Len(seq)) /\ Len(seq) \in Nat
  OBVIOUS
<1>2. IsFiniteSet(numbers)
  BY <1>1, FS_Interval, FS_Subset
<1>3. /\ N \in Nat
      /\ \A k \in 1 .. N : Nth(numbers, k) \in numbers
      /\ \A n \in numbers : \E k \in 1 .. N : Nth(numbers, k) = n
      /\ \A k, l \in 1 .. N : k < l <=> Nth(numbers, k) < Nth(numbers, l)
  BY <1>1, <1>2, NthFinds
<1> HIDE DEF N
<1>4. \A k \in 1 .. N : seq[Nth(numbers, k)] \in T
  BY <1>3
<1>5. Picked(seq, numbers) = [k \in 1 .. N |-> seq[Nth(numbers, k)]]
  BY DEF Picked, N
<1>6. Picked(seq, numbers) \in [1 .. N -> T]
  BY <1>4, <1>5
<1>7. Picked(seq, numbers) \in Seq(T) /\ Len(Picked(seq, numbers)) = N
  BY <1>3, <1>6, IsASeq
<1> QED BY <1>2, <1>3, <1>5, <1>7 DEF N

-----------------------------------------------------------------------------
(* Sorting. *)

(* Keys of one length are ordered totally. *)
LEMMA PrecedesIsAnOrder ==
  ASSUME NEW L \in Nat
  PROVE  /\ \A s \in [1 .. L -> Int] : ~Precedes(s, s)
         /\ \A s, t, u \in [1 .. L -> Int] :
              Precedes(s, t) /\ Precedes(t, u) => Precedes(s, u)
         /\ \A s, t \in [1 .. L -> Int] : s = t \/ Precedes(s, t) \/ Precedes(t, s)
<1>1. \A s \in [1 .. L -> Int] : ~Precedes(s, s)
  BY DEF Precedes
<1>2. ASSUME NEW s \in [1 .. L -> Int], NEW t \in [1 .. L -> Int], NEW u \in [1 .. L -> Int],
             Precedes(s, t), Precedes(t, u)
      PROVE  Precedes(s, u)
  <2>1. PICK m \in 1 .. L : s[m] < t[m] /\ \A k \in 1 .. (m - 1) : s[k] = t[k]
    BY <1>2 DEF Precedes
  <2>2. PICK n \in 1 .. L : t[n] < u[n] /\ \A k \in 1 .. (n - 1) : t[k] = u[k]
    BY <1>2 DEF Precedes
  <2>3. ASSUME m <= n PROVE s[m] < u[m] /\ \A k \in 1 .. (m - 1) : s[k] = u[k]
    <3>1. m = n \/ m \in 1 .. (n - 1)
      BY <2>3
    <3>2. t[m] <= u[m]
      BY <2>2, <3>1
    <3>3. s[m] < u[m]
      BY <2>1, <3>2
    <3>4. \A k \in 1 .. (m - 1) : k \in 1 .. (n - 1)
      BY <2>3
    <3> QED BY <2>1, <2>2, <3>3, <3>4
  <2>4. ASSUME n < m PROVE s[n] < u[n] /\ \A k \in 1 .. (n - 1) : s[k] = u[k]
    <3>1. n \in 1 .. (m - 1) /\ \A k \in 1 .. (n - 1) : k \in 1 .. (m - 1)
      BY <2>4
    <3> QED BY <2>1, <2>2, <3>1
  <2>5. m <= n \/ n < m
    OBVIOUS
  <2>6. DOMAIN s = 1 .. L
    OBVIOUS
  <2> QED BY <2>3, <2>4, <2>5, <2>6 DEF Precedes
<1>3. ASSUME NEW s \in [1 .. L -> Int], NEW t \in [1 .. L -> Int], s # t
      PROVE  Precedes(s, t) \/ Precedes(t, s)
  <2> DEFINE D == {n \in 1 .. L : s[n] # t[n]}
  <2>1. D \in SUBSET Nat /\ D # {}
    <3>1. \E n \in 1 .. L : s[n] # t[n]
      BY <1>3
    <3> QED BY <3>1
  <2>2. PICK n \in D : \A m \in D : n <= m
    <3> HIDE DEF D
    <3> QED BY <2>1, LeastOf
  <2>3. \A m \in 1 .. (n - 1) : s[m] = t[m]
    <3>1. \A m \in 1 .. (n - 1) : m \in 1 .. L /\ ~(n <= m)
      OBVIOUS
    <3> QED BY <2>2, <3>1
  <2>4. s[n] < t[n] \/ t[n] < s[n]
    OBVIOUS
  <2> QED BY <2>3, <2>4 DEF Precedes
<1> QED BY <1>1, <1>2, <1>3

(* The entries of a sorted list are those of the other, each once, in the  *)
(* order of their keys and then of their places.                           *)
Sorts(perm, keys, N) ==
  /\ perm \in Bijection(1 .. N, 1 .. N)
  /\ \A p, q \in 1 .. N :
       p < q => \/ Precedes(keys[perm[p]], keys[perm[q]])
                \/ keys[perm[p]] = keys[perm[q]] /\ perm[p] < perm[q]

IsSortOf(result, entries, keys, N) ==
  /\ DOMAIN result = 1 .. N
  /\ \E perm : Sorts(perm, keys, N) /\ \A p \in 1 .. N : result[p] = entries[perm[p]]

(* sorted() gives each entry once, smaller keys first and equal keys in    *)
(* the order of the list.                                                  *)
LEMMA SortedFinds ==
  ASSUME NEW N \in Nat, NEW L \in Nat,
         NEW entries, DOMAIN entries = 1 .. N,
         NEW keys \in [1 .. N -> [1 .. L -> Int]]
  PROVE  IsSortOf(Sorted(entries, keys), entries, keys, N)
<1> DEFINE S == 1 .. N
           Before(m, n) == \/ Precedes(keys[m], keys[n])
                           \/ keys[m] = keys[n] /\ m < n
           R == {p \in S \X S : Before(p[1], p[2])}
<1>0. \A m, n \in S : <<m, n>> \in R <=> Before(m, n)
  OBVIOUS
<1> HIDE DEF R
<1>1. StrictOrder(R, S)
  <2>1. \A n \in S : keys[n] \in [1 .. L -> Int]
    OBVIOUS
  <2>2. \A n \in S : ~Before(n, n)
    BY <2>1, PrecedesIsAnOrder
  <2>3. ASSUME NEW k \in S, NEW m \in S, NEW n \in S, Before(k, m), Before(m, n)
        PROVE  Before(k, n)
    <3> DEFINE s == keys[k]
               t == keys[m]
               u == keys[n]
    <3>1. s \in [1 .. L -> Int] /\ t \in [1 .. L -> Int] /\ u \in [1 .. L -> Int]
      BY <2>1
    <3>2. /\ Precedes(s, t) \/ (s = t /\ k < m)
          /\ Precedes(t, u) \/ (t = u /\ m < n)
      BY <2>3
    <3> HIDE DEF s, t, u
    <3>3. Precedes(s, u) \/ (s = u /\ k < n)
      <4>1. Precedes(s, t) /\ Precedes(t, u) => Precedes(s, u)
        BY <3>1, PrecedesIsAnOrder
      <4>2. k < m /\ m < n => k < n
        OBVIOUS
      <4> QED BY <3>2, <4>1, <4>2
    <3> QED BY <3>3 DEF s, u
  <2>4. ASSUME NEW m \in S, NEW n \in S PROVE m = n \/ Before(m, n) \/ Before(n, m)
    <3> DEFINE s == keys[m]
               t == keys[n]
    <3>1. s \in [1 .. L -> Int] /\ t \in [1 .. L -> Int]
      BY <2>1
    <3> HIDE DEF s, t
    <3>2. s = t \/ Precedes(s, t) \/ Precedes(t, s)
      BY <3>1, PrecedesIsAnOrder
    <3>3. m = n \/ m < n \/ n < m
      OBVIOUS
    <3> QED BY <3>2, <3>3 DEF s, t
  <2> HIDE DEF Before
  <2> QED BY <1>0, <2>2, <2>3, <2>4 DEF StrictOrder
<1>2. \A m \in S : Place(keys, m) = Cardinality(UpTo(R, S, m))
  <2>1. ASSUME NEW m \in S
        PROVE  UpTo(R, S, m) = {n \in S : \/ Precedes(keys[n], keys[m])
                                          \/ keys[n] = keys[m] /\ n <= m}
    <3>1. \A n \in S : (n = m \/ <<n, m>> \in R) <=>
                         (\/ Precedes(keys[n], keys[m])
                          \/ keys[n] = keys[m] /\ n <= m)
      BY <1>0
    <3> QED BY <3>1 DEF UpTo
  <2>2. DOMAIN keys = S
    OBVIOUS
  <2> QED BY <2>1, <2>2 DEF Place
<1>3. IsFiniteSet(S) /\ Cardinality(S) = N
  BY FS_Interval
<1>4. Ranked(R, S)
  BY <1>1, <1>3, RankFinds
<1>5. /\ \A m \in S : Place(keys, m) \in S
      /\ \A m, n \in S : Place(keys, m) = Place(keys, n) => m = n
      /\ \A p \in S : \E m \in S : Place(keys, m) = p
  <2>1. 1 .. Cardinality(S) = S
    BY <1>3
  <2> HIDE DEF S, Before
  <2> QED BY <1>2, <1>4, <2>1 DEF Ranked
<1> DEFINE perm == [p \in S |-> CHOOSE m \in S : Place(keys, m) = p]
<1>6. \A p \in S : perm[p] \in S /\ Place(keys, perm[p]) = p
  BY <1>5
<1>7. perm \in [S -> S]
  BY <1>6
<1>8. DOMAIN Sorted(entries, keys) = S /\ \A p \in S : Sorted(entries, keys)[p] = entries[perm[p]]
  BY DEF Sorted
<1> HIDE DEF perm
<1>9. perm \in Injection(S, S)
  <2>1. \A p, q \in S : perm[p] = perm[q] => p = q
    BY <1>6
  <2> QED BY <1>7, <2>1, Fun_IsInj
<1>10. perm \in Surjection(S, S)
  <2>1. \A m \in S : \E p \in S : perm[p] = m
    <3>1. \A m \in S : perm[Place(keys, m)] = m
      BY <1>5, <1>6
    <3> QED BY <1>5, <3>1
  <2> QED BY <1>7, <2>1, Fun_IsSurj
<1>11. ASSUME NEW p \in S, NEW q \in S, p < q PROVE Before(perm[p], perm[q])
  <2>1. perm[p] \in S /\ perm[q] \in S /\ Place(keys, perm[p]) = p /\ Place(keys, perm[q]) = q
    BY <1>6
  <2>2. perm[p] # perm[q]
    BY <1>11, <2>1
  <2>3. ~Before(perm[q], perm[p])
    <3>1. ASSUME <<perm[q], perm[p]>> \in R PROVE FALSE
      <4>1. Cardinality(UpTo(R, S, perm[q])) < Cardinality(UpTo(R, S, perm[p]))
        BY <1>1, <1>3, <2>1, <3>1, RankGrows
      <4> QED BY <1>2, <1>11, <2>1, <4>1
    <3> QED BY <1>0, <2>1, <3>1
  <2>4. <<perm[p], perm[q]>> \in R
    BY <1>0, <1>1, <2>1, <2>2, <2>3 DEF StrictOrder
  <2> QED BY <1>0, <2>1, <2>4
<1>12. Sorts(perm, keys, N)
  BY <1>9, <1>10, <1>11 DEF Sorts, Bijection
<1> QED BY <1>8, <1>12 DEF IsSortOf

(* Sorting forgets the order in which the entries came, if entries with    *)
(* the same key are the same: the p-th of both lists has the same key, for *)
(* with a smaller one the p first of one list would all be before the p-th *)
(* of the other.                                                           *)
LEMMA SmallerIsBefore ==
  ASSUME NEW N \in Nat, NEW L \in Nat,
         NEW keys1 \in [1 .. N -> [1 .. L -> Int]], NEW perm1, Sorts(perm1, keys1, N),
         NEW keys2 \in [1 .. N -> [1 .. L -> Int]], NEW perm2, Sorts(perm2, keys2, N),
         NEW moved \in Bijection(1 .. N, 1 .. N),
         \A n \in 1 .. N : keys2[moved[n]] = keys1[n],
         NEW p \in 1 .. N
  PROVE  ~Precedes(keys1[perm1[p]], keys2[perm2[p]])
<1> DEFINE S == 1 .. N
<1> SUFFICES ASSUME Precedes(keys1[perm1[p]], keys2[perm2[p]]) PROVE FALSE
  OBVIOUS
<1>1. /\ perm1 \in [S -> S] /\ perm2 \in [S -> S] /\ moved \in [S -> S]
      /\ \A m, n \in S : perm1[m] = perm1[n] => m = n
      /\ \A m, n \in S : moved[m] = moved[n] => m = n
      /\ \A n \in S : \E m \in S : perm2[m] = n
  <2>1. perm1 \in Bijection(S, S) /\ perm2 \in Bijection(S, S) /\ moved \in Bijection(S, S)
    BY DEF Sorts
  <2> HIDE DEF S
  <2> QED BY <2>1 DEF Bijection, Injection, Surjection, IsInjective
<1>2. \A q \in 1 .. p : q \in S /\ moved[perm1[q]] \in S
  <2>1. \A q \in 1 .. p : q \in S
    OBVIOUS
  <2> HIDE DEF S
  <2> QED BY <1>1, <2>1
<1> DEFINE f == [q \in 1 .. p |-> CHOOSE m \in S : perm2[m] = moved[perm1[q]]]
<1>3. \A q \in 1 .. p : f[q] \in S /\ perm2[f[q]] = moved[perm1[q]]
  BY <1>1, <1>2
<1> HIDE DEF f
<1>4. ASSUME NEW q \in 1 .. p PROVE f[q] \in 1 .. (p - 1)
  <2> DEFINE k == keys1[perm1[q]]
  <2>1. q \in S /\ perm1[q] \in S /\ perm1[p] \in S /\ perm2[p] \in S /\ f[q] \in S
    <3>1. q \in S /\ p \in S
      OBVIOUS
    <3> HIDE DEF S
    <3> QED BY <1>1, <1>3, <3>1
  <2>2. k = keys2[perm2[f[q]]]
    BY <1>3, <2>1
  <2>3. k = keys1[perm1[p]] \/ Precedes(k, keys1[perm1[p]])
    <3>1. q = p \/ q < p
      OBVIOUS
    <3> QED BY <2>1, <3>1 DEF Sorts
  <2>4. /\ k \in [1 .. L -> Int] /\ keys1[perm1[p]] \in [1 .. L -> Int]
        /\ keys2[perm2[p]] \in [1 .. L -> Int]
    BY <2>1
  <2>5. Precedes(k, keys2[perm2[p]])
    <3> HIDE DEF k
    <3> QED BY <2>3, <2>4, PrecedesIsAnOrder
  <2>6. ASSUME p <= f[q] PROVE FALSE
    <3>1. keys2[perm2[p]] = k \/ Precedes(keys2[perm2[p]], k)
      <4>1. p = f[q] \/ p < f[q]
        BY <2>1, <2>6
      <4> QED BY <2>1, <2>2, <4>1 DEF Sorts
    <3> HIDE DEF k
    <3> QED BY <2>4, <2>5, <3>1, PrecedesIsAnOrder
  <2> QED BY <2>1, <2>6
<1>5. \A q, r \in 1 .. p : f[q] = f[r] => q = r
  <2>1. ASSUME NEW q \in 1 .. p, NEW r \in 1 .. p, f[q] = f[r] PROVE q = r
    <3>1. q \in S /\ r \in S /\ perm1[q] \in S /\ perm1[r] \in S
      BY <1>1, <1>2
    <3>2. moved[perm1[q]] = moved[perm1[r]]
      BY <1>3, <2>1
    <3> QED BY <1>1, <3>1, <3>2
  <2> QED BY <2>1
<1>6. f \in [1 .. p -> 1 .. (p - 1)]
  BY <1>4 DEF f
<1>7. /\ IsFiniteSet(1 .. p) /\ Cardinality(1 .. p) = p
      /\ IsFiniteSet(1 .. (p - 1)) /\ Cardinality(1 .. (p - 1)) = p - 1
  BY FS_Interval
<1>8. f \in Injection(1 .. p, 1 .. (p - 1))
  BY <1>5, <1>6, Fun_IsInj
<1>9. Cardinality(1 .. p) <= Cardinality(1 .. (p - 1))
  BY <1>7, <1>8, FS_Injection
<1> QED BY <1>7, <1>9

(* Each entry has a key of L numbers. *)
Keyed(entries, keys, N, L) ==
  DOMAIN entries = 1 .. N /\ keys \in [1 .. N -> [1 .. L -> Int]]

(* moved takes each entry of the first list to its place in the second.    *)
Moves(moved, entries1, keys1, entries2, keys2, N) ==
  /\ moved \in Bijection(1 .. N, 1 .. N)
  /\ \A n \in 1 .. N : keys2[moved[n]] = keys1[n] /\ entries2[moved[n]] = entries1[n]

(* Entries with one key are one entry. *)
KeysTell(entries, keys, N) ==
  \A m, n \in 1 .. N : keys[m] = keys[n] => entries[m] = entries[n]

(* If the key tells the entry, sorting forgets the order they came in.     *)
LEMMA SortForgetsOrder ==
  ASSUME NEW N \in Nat, NEW L \in Nat,
         NEW entries1, NEW keys1, Keyed(entries1, keys1, N, L),
         NEW entries2, NEW keys2, Keyed(entries2, keys2, N, L),
         NEW moved, Moves(moved, entries1, keys1, entries2, keys2, N),
         KeysTell(entries2, keys2, N)
  PROVE  Sorted(entries1, keys1) = Sorted(entries2, keys2)
<1>1. /\ moved \in Bijection(1 .. N, 1 .. N)
      /\ \A n \in 1 .. N : keys2[moved[n]] = keys1[n] /\ entries2[moved[n]] = entries1[n]
      /\ \A m, n \in 1 .. N : keys2[m] = keys2[n] => entries2[m] = entries2[n]
  BY DEF Moves, KeysTell
<1>2. /\ DOMAIN entries1 = 1 .. N /\ keys1 \in [1 .. N -> [1 .. L -> Int]]
      /\ DOMAIN entries2 = 1 .. N /\ keys2 \in [1 .. N -> [1 .. L -> Int]]
  BY DEF Keyed
<1>3. IsSortOf(Sorted(entries1, keys1), entries1, keys1, N)
  BY <1>2, SortedFinds
<1>4. IsSortOf(Sorted(entries2, keys2), entries2, keys2, N)
  BY <1>2, SortedFinds
<1>5. PICK perm1 : /\ Sorts(perm1, keys1, N)
                   /\ \A p \in 1 .. N : Sorted(entries1, keys1)[p] = entries1[perm1[p]]
  BY <1>3 DEF IsSortOf
<1>6. PICK perm2 : /\ Sorts(perm2, keys2, N)
                   /\ \A p \in 1 .. N : Sorted(entries2, keys2)[p] = entries2[perm2[p]]
  BY <1>4 DEF IsSortOf
<1> DEFINE back == [n \in 1 .. N |-> CHOOSE m \in 1 .. N : moved[m] = n]
<1>7. /\ moved \in [1 .. N -> 1 .. N]
      /\ \A m, n \in 1 .. N : moved[m] = moved[n] => m = n
      /\ \A n \in 1 .. N : \E m \in 1 .. N : moved[m] = n
  BY <1>1 DEF Bijection, Injection, Surjection, IsInjective
<1>8. \A n \in 1 .. N : back[n] \in 1 .. N /\ moved[back[n]] = n
  BY <1>7
<1>9. back \in [1 .. N -> 1 .. N]
  BY <1>8
<1> HIDE DEF back
<1>10. back \in Bijection(1 .. N, 1 .. N)
  <2>1. \A m, n \in 1 .. N : back[m] = back[n] => m = n
    BY <1>8
  <2>2. back \in Injection(1 .. N, 1 .. N)
    BY <1>9, <2>1, Fun_IsInj
  <2>3. \A n \in 1 .. N : back[moved[n]] = n
    BY <1>7, <1>8
  <2>4. back \in Surjection(1 .. N, 1 .. N)
    <3>1. \A n \in 1 .. N : \E m \in 1 .. N : back[m] = n
      BY <1>7, <2>3
    <3> QED BY <1>9, <3>1, Fun_IsSurj
  <2> QED BY <2>2, <2>4 DEF Bijection
<1>11. \A n \in 1 .. N : keys1[back[n]] = keys2[n]
  BY <1>1, <1>2, <1>8
<1>12. ASSUME NEW p \in 1 .. N
       PROVE  Sorted(entries1, keys1)[p] = Sorted(entries2, keys2)[p]
  <2>1. perm1[p] \in 1 .. N /\ perm2[p] \in 1 .. N
    BY <1>5, <1>6 DEF Sorts, Bijection, Injection
  <2>2. ~Precedes(keys1[perm1[p]], keys2[perm2[p]])
    BY <1>1, <1>2, <1>5, <1>6, SmallerIsBefore
  <2>3. ~Precedes(keys2[perm2[p]], keys1[perm1[p]])
    BY <1>2, <1>5, <1>6, <1>10, <1>11, SmallerIsBefore
  <2>4. keys1[perm1[p]] = keys2[perm2[p]]
    <3>1. keys1[perm1[p]] \in [1 .. L -> Int] /\ keys2[perm2[p]] \in [1 .. L -> Int]
      BY <1>2, <2>1
    <3> QED BY <2>2, <2>3, <3>1, PrecedesIsAnOrder
  <2>5. keys2[moved[perm1[p]]] = keys2[perm2[p]] /\ moved[perm1[p]] \in 1 .. N
    BY <1>1, <1>2, <1>7, <2>1, <2>4
  <2>6. entries1[perm1[p]] = entries2[perm2[p]]
    BY <1>1, <1>2, <2>1, <2>5
  <2> QED BY <1>5, <1>6, <2>6
<1>13. /\ Sorted(entries1, keys1) = [p \in 1 .. N |-> Sorted(entries1, keys1)[p]]
       /\ Sorted(entries2, keys2) = [p \in 1 .. N |-> Sorted(entries2, keys2)[p]]
  BY <1>2 DEF Sorted
<1> QED BY <1>12, <1>13

(* What a filtered list holds. *)
LEMMA PickedRange ==
  ASSUME NEW T, NEW seq \in Seq(T), NEW numbers \in SUBSET DOMAIN seq
  PROVE  Range(Picked(seq, numbers)) = {seq[n] : n \in numbers}
<1> DEFINE P == Picked(seq, numbers)
           N == Cardinality(numbers)
<1>1. /\ P \in Seq(T) /\ Len(P) = N
      /\ \A k \in 1 .. N : Nth(numbers, k) \in numbers /\ P[k] = seq[Nth(numbers, k)]
      /\ \A n \in numbers : \E k \in 1 .. N : Nth(numbers, k) = n
  BY PickedFinds
<1> HIDE DEF P, N
<1>2. DOMAIN P = 1 .. N
  BY <1>1
<1>3. Range(P) = {P[k] : k \in 1 .. N}
  BY <1>2 DEF Range
<1>4. \A k \in 1 .. N : P[k] \in {seq[n] : n \in numbers}
  BY <1>1
<1>5. \A n \in numbers : \E k \in 1 .. N : P[k] = seq[n]
  BY <1>1
<1> QED BY <1>3, <1>4, <1>5 DEF P

(* What a sorted list holds. *)
LEMMA SortedRange ==
  ASSUME NEW N \in Nat, NEW entries, DOMAIN entries = 1 .. N, NEW keys, NEW result,
         IsSortOf(result, entries, keys, N)
  PROVE  DOMAIN result = 1 .. N /\ Range(result) = Range(entries)
<1>1. DOMAIN result = 1 .. N
  BY DEF IsSortOf
<1>2. PICK perm : /\ Sorts(perm, keys, N)
                  /\ \A p \in 1 .. N : result[p] = entries[perm[p]]
  BY DEF IsSortOf
<1>3. /\ perm \in [1 .. N -> 1 .. N]
      /\ \A n \in 1 .. N : \E p \in 1 .. N : perm[p] = n
  BY <1>2 DEF Sorts, Bijection, Injection, Surjection
<1>4. \A p \in 1 .. N : result[p] \in Range(entries)
  BY <1>2, <1>3 DEF Range
<1>5. \A n \in 1 .. N : entries[n] \in Range(result)
  <2>1. ASSUME NEW n \in 1 .. N PROVE \E p \in 1 .. N : result[p] = entries[n]
    <3>1. PICK p \in 1 .. N : perm[p] = n
      BY <1>3
    <3> QED BY <1>2, <3>1
  <2> QED BY <1>1, <2>1 DEF Range
<1>6. Range(result) = {result[p] : p \in 1 .. N} /\ Range(entries) = {entries[n] : n \in 1 .. N}
  BY <1>1 DEF Range
<1> QED BY <1>1, <1>4, <1>5, <1>6
=============================================================================
