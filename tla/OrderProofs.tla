----------------------------- MODULE OrderProofs -----------------------------
(***************************************************************************)
(* What sorting and folding compute, for every input. The library's        *)
(* induction theorems take an operator as a parameter, which the provers   *)
(* cannot instantiate; here induction is over a set that is closed, which  *)
(* they can: WFMin applied to the subsets of a finite set. A fold is given *)
(* by a function and its equation shown to have a solution, so that the    *)
(* CHOOSE in the definition of a fold satisfies it.                        *)
(***************************************************************************)
EXTENDS Orders, SequencesExt, FiniteSetTheorems, WellFoundedInduction, TLAPS

-----------------------------------------------------------------------------
(* Induction.                                                              *)

\* A family of subsets of S that has {} and that no added element leads out of
\* has S itself.
LEMMA SubsetInduction ==
  ASSUME NEW S, IsFiniteSet(S), NEW F, {} \in F,
         \A X \in SUBSET S : \A x \in S \ X : X \in F => X \cup {x} \in F
  PROVE  S \in F
<1> DEFINE Out == {X \in SUBSET S : X \notin F}
<1> SUFFICES ASSUME Out # {} PROVE FALSE
  OBVIOUS
<1>1. IsWellFoundedOn(StrictSubsetOrdering(S), SUBSET S)
  BY FS_StrictSubsetOrderingWellFounded, FS_FiniteSubsetsOfFinite
<1>2. PICK X \in Out : \A Y \in Out : <<Y, X>> \notin StrictSubsetOrdering(S)
  <2>1. Out \subseteq SUBSET S
    OBVIOUS
  <2> HIDE DEF Out
  <2> QED BY <1>1, <2>1, WFMin
<1>3. PICK x \in X : TRUE
  OBVIOUS
<1>4. X \ {x} \in F
  <2>1. <<X \ {x}, X>> \in StrictSubsetOrdering(S)
    BY <1>3 DEF StrictSubsetOrdering
  <2> QED BY <1>2, <2>1
<1>5. (X \ {x}) \cup {x} = X
  BY <1>3
<1>6. X \in F
  BY <1>3, <1>4, <1>5
<1> QED BY <1>6

\* A set that has 0 and every successor of its natural numbers has them all.
LEMMA SetInduction ==
  ASSUME NEW T, 0 \in T, \A n \in Nat : n \in T => n + 1 \in T
  PROVE  \A n \in Nat : n \in T
<1> SUFFICES ASSUME NEW k \in Nat, k \notin T PROVE FALSE
  OBVIOUS
<1> DEFINE F == {1..j : j \in {i \in 0..k : i \notin T}}
<1>1. IsWellFoundedOn(StrictSubsetOrdering(1..k), SUBSET (1..k))
  <2>1. IsFiniteSet(1..k)
    BY FS_Interval
  <2> QED BY <2>1, FS_StrictSubsetOrderingWellFounded, FS_FiniteSubsetsOfFinite
<1>2. F \subseteq SUBSET (1..k) /\ F # {}
  OBVIOUS
<1>3. PICK x \in F : \A y \in F : <<y, x>> \notin StrictSubsetOrdering(1..k)
  <2> HIDE DEF F
  <2> QED BY <1>1, <1>2, WFMin
<1>4. PICK j \in 0..k : j \notin T /\ x = 1..j
  OBVIOUS
<1>5. j # 0 /\ j - 1 \in Nat /\ j - 1 \notin T
  BY <1>4
<1>6. 1..(j-1) \in F
  BY <1>4, <1>5
<1>7. <<1..(j-1), 1..j>> \in StrictSubsetOrdering(1..k)
  BY <1>4, <1>5 DEF StrictSubsetOrdering
<1> QED BY <1>3, <1>4, <1>6, <1>7

\* The same below a bound.
LEMMA BoundedInduction ==
  ASSUME NEW n \in Nat, NEW T, 0 \in T, \A k \in 0..(n-1) : k \in T => k + 1 \in T
  PROVE  \A k \in 0..n : k \in T
<1> DEFINE U == T \cup {k \in Nat : k > n}
<1>1. 0 \in U /\ \A k \in Nat : k \in U => k + 1 \in U
  OBVIOUS
<1>2. \A k \in Nat : k \in U
  <2> HIDE DEF U
  <2> QED BY <1>1, SetInduction
<1> QED BY <1>2

-----------------------------------------------------------------------------
(* Sorting.                                                                *)

HasLast(X, before) == \E m \in X : \A y \in X : y = m \/ <<y, m>> \in before

\* Every set that is not empty, of elements of a finite set in strict order, has
\* a last element.
LEMMA LastElement ==
  ASSUME NEW S, IsFiniteSet(S), NEW before, StrictlyOrders(before, S)
  PROVE  \A X \in SUBSET S : X # {} => HasLast(X, before)
<1> DEFINE F(Z) == {X \in SUBSET Z : X # {} => HasLast(X, before)}
<1> SUFFICES ASSUME NEW Z \in SUBSET S PROVE Z \in F(Z)
  OBVIOUS
<1>1. IsFiniteSet(Z)
  BY FS_Subset
<1>2. {} \in F(Z)
  OBVIOUS
<1>3. ASSUME NEW X \in SUBSET Z, NEW x \in Z \ X, X \in F(Z)
      PROVE  X \cup {x} \in F(Z)
  <2>1. CASE X = {}
    BY <2>1, <1>3 DEF HasLast
  <2>2. CASE X # {}
    <3>1. PICK m \in X : \A y \in X : y = m \/ <<y, m>> \in before
      BY <1>3, <2>2 DEF HasLast
    <3>2. CASE <<x, m>> \in before
      BY <3>1, <3>2 DEF HasLast
    <3>3. CASE <<m, x>> \in before
      <4>1. \A y \in X : <<y, x>> \in before
        BY <3>1, <3>3, <1>3 DEF StrictlyOrders
      <4> QED BY <4>1 DEF HasLast
    <3> QED BY <3>1, <3>2, <3>3, <1>3 DEF StrictlyOrders
  <2> QED BY <2>1, <2>2
<1> HIDE DEF F
<1> QED BY <1>1, <1>2, <1>3, SubsetInduction

\* So has the set itself.
LEMMA LastOf ==
  ASSUME NEW S, IsFiniteSet(S), NEW before, StrictlyOrders(before, S), S # {}
  PROVE  HasLast(S, before)
  BY LastElement

\* A sorted list of n elements has n different ones.
LEMMA SortedIsInjective ==
  ASSUME NEW S, NEW before, StrictlyOrders(before, S), NEW n \in Nat,
         NEW s \in [1..n -> S], IsSortedBy(s, before)
  PROVE  \A i, j \in 1..n : s[i] = s[j] => i = j
<1> SUFFICES ASSUME NEW i \in 1..n, NEW j \in 1..n, s[i] = s[j], i < j \/ j < i PROVE FALSE
  OBVIOUS
<1>1. s[i] \in S /\ DOMAIN s = 1..n
  OBVIOUS
<1>2. <<s[i], s[i]>> \in before
  BY <1>1 DEF IsSortedBy
<1> QED BY <1>1, <1>2 DEF StrictlyOrders

\* and every element, if it is as long as the set is large.
LEMMA SortedIsOnto ==
  ASSUME NEW S, IsFiniteSet(S), NEW before, StrictlyOrders(before, S),
         NEW s \in [1..Cardinality(S) -> S], IsSortedBy(s, before)
  PROVE  \A x \in S : \E i \in 1..Cardinality(S) : s[i] = x
<1>1. Cardinality(S) \in Nat
  BY FS_CardinalityType
<1>2. s \in Injection(1..Cardinality(S), S)
  BY <1>1, SortedIsInjective DEF Injection, IsInjective
<1>3. Cardinality(1..Cardinality(S)) = Cardinality(S)
  BY <1>1, FS_Interval
<1>4. s \in Surjection(1..Cardinality(S), S)
  BY <1>2, <1>3, FS_Injection
<1> QED BY <1>4 DEF Surjection

\* Every finite set in strict order has a sorted list.
LEMMA SortedExists ==
  ASSUME NEW S, IsFiniteSet(S), NEW before, StrictlyOrders(before, S)
  PROVE  \E s \in [1..Cardinality(S) -> S] : IsSortedBy(s, before)
<1> DEFINE F == {X \in SUBSET S : \E s \in [1..Cardinality(X) -> X] : IsSortedBy(s, before)}
<1> DEFINE G == {k \in Nat : \A X \in SUBSET S : Cardinality(X) = k => X \in F}
<1>1. 0 \in G
  <2> SUFFICES ASSUME NEW X \in SUBSET S, Cardinality(X) = 0 PROVE X \in F
    OBVIOUS
  <2>1. X = {}
    BY FS_Subset, FS_EmptySet
  <2>2. [i \in 1..0 |-> i] \in [1..Cardinality(X) -> X]
    BY <2>1
  <2>3. IsSortedBy([i \in 1..0 |-> i], before)
    BY DEF IsSortedBy
  <2> QED BY <2>2, <2>3
<1>2. ASSUME NEW k \in Nat, k \in G PROVE k + 1 \in G
  <2> SUFFICES ASSUME NEW X \in SUBSET S, Cardinality(X) = k + 1 PROVE X \in F
    OBVIOUS
  <2>1. IsFiniteSet(X) /\ X # {}
    BY FS_Subset, FS_EmptySet
  <2>2. PICK m \in X : \A y \in X : y = m \/ <<y, m>> \in before
    BY <2>1, LastElement DEF HasLast
  <2>3. Cardinality(X \ {m}) = k
    BY <2>1, FS_RemoveElement
  <2>4. PICK t \in [1..k -> X \ {m}] : IsSortedBy(t, before)
    BY <1>2, <2>3
  <2> DEFINE s == [i \in 1..(k+1) |-> IF i = k + 1 THEN m ELSE t[i]]
  <2>5. s \in [1..Cardinality(X) -> X]
    BY <2>4
  <2>6. IsSortedBy(s, before)
    BY <2>2, <2>4 DEF IsSortedBy
  <2> QED BY <2>5, <2>6
<1>3. \A k \in Nat : k \in G
  <2> HIDE DEF G
  <2> QED BY <1>1, <1>2, SetInduction
<1> QED BY <1>3, FS_CardinalityType

\* s has every element of S once, in order
Lists(s, S, before) ==
  /\ s \in [1..Cardinality(S) -> S]
  /\ IsSortedBy(s, before)
  /\ \A i, j \in 1..Cardinality(S) : s[i] = s[j] => i = j
  /\ \A x \in S : \E i \in 1..Cardinality(S) : s[i] = x

\* That is what SortedBy returns.
LEMMA SortedByFact ==
  ASSUME NEW S, IsFiniteSet(S), NEW before, StrictlyOrders(before, S)
  PROVE  Lists(SortedBy(S, before), S, before)
<1>1. SortedBy(S, before) \in [1..Cardinality(S) -> S] /\ IsSortedBy(SortedBy(S, before), before)
  BY SortedExists DEF SortedBy
<1>2. Cardinality(S) \in Nat
  BY FS_CardinalityType
<1>3. \A x \in S : \E i \in 1..Cardinality(S) : SortedBy(S, before)[i] = x
  BY <1>1, SortedIsOnto
<1>4. \A i, j \in 1..Cardinality(S) : SortedBy(S, before)[i] = SortedBy(S, before)[j] => i = j
  BY <1>1, <1>2, SortedIsInjective
<1> QED BY <1>1, <1>3, <1>4 DEF Lists

\* There is one way to sort.
LEMMA SortedIsUnique ==
  ASSUME NEW S, IsFiniteSet(S), NEW before, StrictlyOrders(before, S),
         NEW s \in [1..Cardinality(S) -> S], IsSortedBy(s, before),
         NEW t \in [1..Cardinality(S) -> S], IsSortedBy(t, before)
  PROVE  s = t
<1> DEFINE n == Cardinality(S)
           T == {k \in 0..n : \A i \in 1..k : s[i] = t[i]}
<1>1. n \in Nat
  BY FS_CardinalityType
<1>2. /\ s \in [1..n -> S] /\ t \in [1..n -> S]
      /\ \A x \in S : (\E i \in 1..n : s[i] = x) /\ (\E i \in 1..n : t[i] = x)
      /\ \A a, b \in 1..n : (s[a] = s[b] => a = b) /\ (t[a] = t[b] => a = b)
      /\ \A a, b \in 1..n : a < b => <<s[a], s[b]>> \in before /\ <<t[a], t[b]>> \in before
  <2>1. \A x \in S : (\E i \in 1..n : s[i] = x) /\ (\E i \in 1..n : t[i] = x)
    BY SortedIsOnto
  <2>2. \A a, b \in 1..n : s[a] = s[b] => a = b
    BY <1>1, SortedIsInjective
  <2>3. \A a, b \in 1..n : t[a] = t[b] => a = b
    BY <1>1, SortedIsInjective
  <2> QED BY <2>1, <2>2, <2>3 DEF IsSortedBy
<1> HIDE DEF n
<1>3. ASSUME NEW k \in 0..(n-1), k \in T PROVE k + 1 \in T
  <2>1. k + 1 \in 1..n
    BY <1>1
  <2>2. s[k+1] \in S /\ t[k+1] \in S
    BY <2>1, <1>2
  <2>3. PICK i \in 1..n : t[i] = s[k+1]
    BY <2>2, <1>2
  <2>4. PICK j \in 1..n : s[j] = t[k+1]
    BY <2>2, <1>2
  <2>5. \A a \in 1..k : s[a] = t[a] /\ a \in 1..n
    BY <1>3, <1>1
  <2>6. i >= k + 1 /\ j >= k + 1
    BY <1>1, <1>2, <2>1, <2>3, <2>4, <2>5
  <2>7. s[k+1] = t[k+1]
    <3>1. CASE i = k + 1 \/ j = k + 1
      BY <2>3, <2>4, <3>1
    <3>2. CASE i # k + 1 /\ j # k + 1
      <4>1. k + 1 < i /\ k + 1 < j
        BY <2>6, <3>2
      <4>2. <<t[k+1], s[k+1]>> \in before /\ <<s[k+1], t[k+1]>> \in before
        BY <4>1, <2>1, <2>3, <2>4, <1>2
      <4>3. <<s[k+1], s[k+1]>> \in before
        BY <4>2, <2>2 DEF StrictlyOrders
      <4> QED BY <4>3, <2>2 DEF StrictlyOrders
    <3> QED BY <3>1, <3>2
  <2>8. \A a \in 1..(k+1) : a = k + 1 \/ a \in 1..k
    BY <1>1
  <2> QED BY <2>5, <2>7, <2>8, <1>1
<1>4. 0 \in T
  BY <1>1
<1>5. \A k \in 0..n : k \in T
  <2> HIDE DEF T
  <2> QED BY <1>1, <1>3, <1>4, BoundedInduction
<1>6. \A i \in 1..n : s[i] = t[i]
  BY <1>1, <1>5
<1>7. s = [i \in 1..n |-> s[i]] /\ t = [i \in 1..n |-> t[i]]
  BY <1>2
<1> QED BY <1>6, <1>7, Zenon

\* A list has its indices in the stable order of its ranks.
LEMMA StableOrder ==
  ASSUME NEW n \in Nat, NEW rank \in [1..n -> Int]
  PROVE  StrictlyOrders(StablyBefore(rank), 1..n)
  BY DEF StrictlyOrders, StablyBefore

\* There are n numbers from 1 to n.
LEMMA IntervalFact ==
  ASSUME NEW n \in Nat
  PROVE  IsFiniteSet(1..n) /\ Cardinality(1..n) = n
  BY FS_Interval

\* A list of n different values has n values.
OneToOne(f, n) == \A i, j \in 1..n : f[i] = f[j] => i = j

\* It has as many values as positions.
LEMMA ImageCount ==
  ASSUME NEW n \in Nat, NEW f, OneToOne(f, n)
  PROVE  IsFiniteSet({f[i] : i \in 1..n}) /\ Cardinality({f[i] : i \in 1..n}) = n
<1> DEFINE S == {f[i] : i \in 1..n}
           g == [i \in 1..n |-> f[i]]
           I == 1..n
<1>1. g \in [1..n -> S]
  OBVIOUS
<1>2. \A i, j \in 1..n : g[i] = g[j] => i = j
  BY DEF OneToOne
<1>3. \A x \in S : \E i \in 1..n : g[i] = x
  OBVIOUS
<1> HIDE DEF S, g
<1>4. g \in Bijection(I, S)
  BY <1>1, <1>2, <1>3 DEF Bijection, Injection, Surjection, IsInjective
<1>5. IsFiniteSet(I) /\ Cardinality(I) = n
  BY IntervalFact
<1>6. IsFiniteSet(S) /\ Cardinality(S) = Cardinality(I)
  <2> HIDE DEF I
  <2> QED BY <1>4, <1>5, FS_Bijection DEF ExistsBijection
<1> QED BY <1>5, <1>6 DEF S

\* order permutes the n indices of s such that the ranks ascend
SortsByRank(order, n, s, rank) ==
  /\ order \in [1..n -> 1..n]
  /\ order = SortedBy(1..n, StablyBefore(rank))
  /\ SortedByRank(s, rank) = [i \in 1..n |-> s[order[i]]]
  /\ \A i, j \in 1..n : order[i] = order[j] => i = j
  /\ \A k \in 1..n : \E i \in 1..n : order[i] = k
  /\ \A i, j \in 1..n : i < j => rank[order[i]] <= rank[order[j]]

\* What SortedByRank returns: the list along such a permutation.
LEMMA SortedByRankFact ==
  ASSUME NEW n \in Nat, NEW s, DOMAIN s = 1..n, NEW rank \in [1..n -> Int]
  PROVE  \E order : SortsByRank(order, n, s, rank)
<1> DEFINE order == SortedBy(1..n, StablyBefore(rank))
<1> DEFINE D == 1..n
           less == StablyBefore(rank)
<1>1. Lists(SortedBy(D, less), D, less)
  <2>1. IsFiniteSet(D) /\ StrictlyOrders(less, D)
    BY StableOrder, IntervalFact
  <2> HIDE DEF D, less
  <2> QED BY <2>1, SortedByFact
<1>2. /\ order \in [1..n -> 1..n]
      /\ \A i, j \in 1..n : order[i] = order[j] => i = j
      /\ \A k \in 1..n : \E i \in 1..n : order[i] = k
      /\ \A i, j \in 1..n : i < j => rank[order[i]] <= rank[order[j]]
  <2>1. Cardinality(1..n) = n
    BY IntervalFact
  <2>2. /\ order \in [1..n -> 1..n]
        /\ \A i, j \in 1..n : order[i] = order[j] => i = j
        /\ \A k \in 1..n : \E i \in 1..n : order[i] = k
        /\ IsSortedBy(order, less)
    BY <1>1, <2>1 DEF Lists
  <2>3. \A i, j \in 1..n : i < j => <<order[i], order[j]>> \in less
    BY <2>2 DEF IsSortedBy
  <2>4. \A i, j \in 1..n : i < j => rank[order[i]] <= rank[order[j]]
    <3> SUFFICES ASSUME NEW i \in 1..n, NEW j \in 1..n, i < j
                 PROVE  rank[order[i]] <= rank[order[j]]
      OBVIOUS
    <3>1. order[i] \in 1..n /\ order[j] \in 1..n /\ <<order[i], order[j]>> \in less
      BY <2>2, <2>3
    <3> HIDE DEF order
    <3> QED BY <3>1 DEF StablyBefore
  <2> QED BY <2>2, <2>4
<1>3. SortedByRank(s, rank) = [i \in 1..n |-> s[order[i]]]
  BY DEF SortedByRank
<1>4. SortsByRank(order, n, s, rank)
  BY <1>2, <1>3 DEF SortsByRank
<1> QED BY <1>4

\* Ranks that differ make the result independent of the order of the list.
Permutes(turn, n, s, rank, t, turned) ==
  /\ n \in Nat /\ DOMAIN s = 1..n /\ rank \in [1..n -> Int]
  /\ \A i, j \in 1..n : rank[i] = rank[j] => i = j
  /\ turn \in [1..n -> 1..n] /\ \A i, j \in 1..n : turn[i] = turn[j] => i = j
  /\ DOMAIN t = 1..n /\ \A i \in 1..n : t[i] = s[turn[i]]
  /\ turned \in [1..n -> Int] /\ \A i \in 1..n : turned[i] = rank[turn[i]]

\* A list and a permutation of it are sorted to the same list when ranks differ.
LEMMA SortedByRankOfPermutation ==
  ASSUME NEW turn, NEW n, NEW s, NEW rank, NEW t, NEW turned, Permutes(turn, n, s, rank, t, turned)
  PROVE  SortedByRank(t, turned) = SortedByRank(s, rank)
<1> USE DEF Permutes
<1>1. PICK order : SortsByRank(order, n, s, rank)
  BY SortedByRankFact
<1>2. PICK other : SortsByRank(other, n, t, turned)
  BY SortedByRankFact
<1> DEFINE both == [i \in 1..n |-> turn[other[i]]]
<1>3. /\ both \in [1..n -> 1..n]
      /\ order \in [1..n -> 1..n] /\ order = SortedBy(1..n, StablyBefore(rank))
      /\ other \in [1..n -> 1..n]
  BY <1>1, <1>2 DEF SortsByRank
<1>4. \A i, j \in 1..n : i < j => rank[both[i]] < rank[both[j]]
  <2> SUFFICES ASSUME NEW i \in 1..n, NEW j \in 1..n, i < j
               PROVE  rank[both[i]] < rank[both[j]]
    OBVIOUS
  <2>1. other[i] \in 1..n /\ other[j] \in 1..n
    BY <1>3
  <2>2. other[i] # other[j]
    <3>1. i # j
      OBVIOUS
    <3>2. \A x, y \in 1..n : other[x] = other[y] => x = y
      BY <1>2 DEF SortsByRank
    <3> HIDE DEF both
    <3> QED BY <3>1, <3>2
  <2>3. turn[other[i]] # turn[other[j]] /\ turn[other[i]] \in 1..n /\ turn[other[j]] \in 1..n
    BY <2>1, <2>2
  <2>4. both[i] = turn[other[i]] /\ both[j] = turn[other[j]]
    OBVIOUS
  <2>5. turned[other[i]] <= turned[other[j]]
    BY <1>2 DEF SortsByRank
  <2>6. rank[both[i]] <= rank[both[j]]
    BY <2>1, <2>4, <2>5
  <2>7. rank[both[i]] # rank[both[j]]
    BY <2>3, <2>4
  <2>8. rank[both[i]] \in Int /\ rank[both[j]] \in Int
    BY <2>3, <2>4
  <2> DEFINE x == rank[both[i]]
             y == rank[both[j]]
  <2>9. x <= y /\ x # y /\ x \in Int /\ y \in Int
    BY <2>6, <2>7, <2>8
  <2> HIDE DEF x, y
  <2>10. x < y
    BY <2>9
  <2> QED BY <2>10 DEF x, y
<1>5. IsSortedBy(both, StablyBefore(rank))
  BY <1>3, <1>4 DEF IsSortedBy, StablyBefore
<1>6. StrictlyOrders(StablyBefore(rank), 1..n) /\ IsFiniteSet(1..n) /\ Cardinality(1..n) = n
  BY StableOrder, IntervalFact
<1>7. IsSortedBy(order, StablyBefore(rank))
  <2> DEFINE D == 1..n
             less == StablyBefore(rank)
  <2>1. IsFiniteSet(D) /\ StrictlyOrders(less, D) /\ order = SortedBy(D, less)
    BY <1>3, <1>6
  <2> HIDE DEF D, less
  <2>2. IsSortedBy(order, less)
    BY <2>1, SortedByFact DEF Lists
  <2> QED BY <2>2 DEF less
<1>8. both = order
  <2> DEFINE D == 1..n
             less == StablyBefore(rank)
  <2>1. /\ IsFiniteSet(D) /\ StrictlyOrders(less, D)
        /\ both \in [1..Cardinality(D) -> D] /\ IsSortedBy(both, less)
        /\ order \in [1..Cardinality(D) -> D] /\ IsSortedBy(order, less)
    BY <1>3, <1>5, <1>6, <1>7
  <2> HIDE DEF D, less, both
  <2> QED BY <2>1, SortedIsUnique
<1>9. \A i \in 1..n : t[other[i]] = s[order[i]]
  BY <1>3, <1>8
<1>10. /\ SortedByRank(s, rank) = [i \in 1..n |-> s[order[i]]]
       /\ SortedByRank(t, turned) = [i \in 1..n |-> t[other[i]]]
  BY <1>1, <1>2 DEF SortsByRank
<1> QED BY <1>9, <1>10

-----------------------------------------------------------------------------
(* Folding.                                                                *)

\* Max of the community modules, on finite sets of integers.
LEMMA MaxFact ==
  ASSUME NEW X \in SUBSET Int, IsFiniteSet(X), X # {}
  PROVE  Max(X) \in X /\ \A y \in X : Max(X) >= y
<1> DEFINE less == {p \in X \X X : p[1] < p[2]}
<1>1. StrictlyOrders(less, X)
  BY DEF StrictlyOrders
<1>2. HasLast(X, less)
  <2> HIDE DEF less
  <2> QED BY <1>1, LastOf
<1>3. PICK m \in X : \A y \in X : y = m \/ y < m
  BY <1>2 DEF HasLast
<1>4. \A y \in X : m >= y
  BY <1>3
<1> QED BY <1>4 DEF Max

\* The greatest of the first k numbers is k, and the others are those before it.
LEMMA MaxOfPrefix ==
  ASSUME NEW k \in Nat, k > 0
  PROVE  Max(1..k) = k /\ (1..k) \ {Max(1..k)} = 1..(k-1)
<1>1. IsFiniteSet(1..k)
  BY FS_Interval
<1>2. Max(1..k) \in 1..k /\ \A y \in 1..k : Max(1..k) >= y
  <2>1. 1..k \in SUBSET Int /\ 1..k # {}
    OBVIOUS
  <2> QED BY <1>1, <2>1, MaxFact
<1> QED BY <1>2

\* A fold over the subsets of D: an element is taken out each time, and its steps
\* stay in V.
Folding(D, pick, V, base, step) ==
  /\ \A X \in SUBSET D : X # {} => pick[X] \in X
  /\ base \in V
  /\ \A x \in D : \A v \in V : step[<<v, x>>] \in V

Folds(g, D, pick, V, base, step) ==
  /\ g \in [SUBSET D -> V]
  /\ \A X \in SUBSET D :
       g[X] = IF X = {} THEN base ELSE step[<<g[X \ {pick[X]}], pick[X]>>]

\* The equation of such a fold has a solution.
LEMMA FoldExists ==
  ASSUME NEW D, IsFiniteSet(D), NEW pick, NEW V, NEW base, NEW step, Folding(D, pick, V, base, step)
  PROVE  \E g : Folds(g, D, pick, V, base, step)
<1> USE DEF Folding
<1> DEFINE Upto(k) == {X \in SUBSET D : Cardinality(X) <= k}
           Solves(g, k) == \A X \in Upto(k) :
             g[X] = IF X = {} THEN base ELSE step[<<g[X \ {pick[X]}], pick[X]>>]
           G == {k \in Nat : \E g \in [Upto(k) -> V] : Solves(g, k)}
<1>1. \A X \in SUBSET D : IsFiniteSet(X) /\ Cardinality(X) \in Nat /\ (Cardinality(X) = 0 <=> X = {})
  BY FS_Subset, FS_CardinalityType, FS_EmptySet
<1>2. \A X \in SUBSET D : X # {} =>
        /\ X \ {pick[X]} \in SUBSET D /\ pick[X] \in D
        /\ Cardinality(X \ {pick[X]}) = Cardinality(X) - 1
  BY <1>1, FS_RemoveElement
<1>3. 0 \in G
  <2> DEFINE g == [X \in Upto(0) |-> base]
  <2>1. \A X \in Upto(0) : X = {}
    BY <1>1
  <2>2. g \in [Upto(0) -> V] /\ Solves(g, 0)
    BY <2>1
  <2> QED BY <2>2
<1>4. ASSUME NEW k \in Nat, k \in G PROVE k + 1 \in G
  <2>1. PICK g \in [Upto(k) -> V] : Solves(g, k)
    BY <1>4
  <2> DEFINE h == [X \in Upto(k+1) |->
                     IF X \in Upto(k) THEN g[X] ELSE step[<<g[X \ {pick[X]}], pick[X]>>]]
  <2>2. \A X \in Upto(k+1) : X # {} => X \ {pick[X]} \in Upto(k) /\ pick[X] \in D
    BY <1>1, <1>2
  <2>3. \A X \in Upto(k+1) : X \notin Upto(k) => X # {}
    BY <1>1
  <2>4. Upto(k) \subseteq Upto(k+1)
    BY <1>1
  <2> HIDE DEF Upto
  <2>5. \A X \in Upto(k+1) : h[X] \in V
    BY <2>1, <2>2, <2>3
  <2>6. \A X \in Upto(k+1) : X # {} => h[X \ {pick[X]}] = g[X \ {pick[X]}]
    BY <2>2, <2>4
  <2>7. Solves(h, k+1)
    BY <2>1, <2>3, <2>6
  <2>8. h \in [Upto(k+1) -> V]
    BY <2>5
  <2> HIDE DEF h, Solves
  <2> QED BY <2>7, <2>8
<1>5. \A k \in Nat : k \in G
  <2> HIDE DEF G
  <2> QED BY <1>3, <1>4, SetInduction
<1>6. Cardinality(D) \in Nat /\ Upto(Cardinality(D)) = SUBSET D
  BY FS_CardinalityType, FS_Subset
<1>7. \E g \in [Upto(Cardinality(D)) -> V] : Solves(g, Cardinality(D))
  BY <1>5, <1>6
<1> HIDE DEF Upto
<1> QED BY <1>6, <1>7 DEF Folds

\* Two that start alike and go on alike are the same.
SameSteps(f, g, D, pick) ==
  /\ \A X \in SUBSET D : X # {} => pick[X] \in X
  /\ f[{}] = g[{}]
  /\ \A X \in SUBSET D : X # {} /\ f[X \ {pick[X]}] = g[X \ {pick[X]}] => f[X] = g[X]

\* Two functions that fold alike agree.
LEMMA FoldIsUnique ==
  ASSUME NEW D, IsFiniteSet(D), NEW pick, NEW f, NEW g, SameSteps(f, g, D, pick)
  PROVE  \A X \in SUBSET D : f[X] = g[X]
<1> USE DEF SameSteps
<1> DEFINE T == {k \in Nat : \A X \in SUBSET D : Cardinality(X) <= k => f[X] = g[X]}
<1>1. \A X \in SUBSET D : IsFiniteSet(X) /\ Cardinality(X) \in Nat /\ (Cardinality(X) = 0 <=> X = {})
  BY FS_Subset, FS_CardinalityType, FS_EmptySet
<1>2. 0 \in T
  <2>1. \A X \in SUBSET D : Cardinality(X) <= 0 => X = {}
    BY <1>1
  <2>2. \A X \in SUBSET D : Cardinality(X) <= 0 => f[X] = g[X]
    BY <2>1
  <2> QED BY <2>2
<1>3. ASSUME NEW k \in Nat, k \in T PROVE k + 1 \in T
  <2>1. ASSUME NEW X \in SUBSET D, Cardinality(X) <= k + 1, X # {} PROVE f[X] = g[X]
    <3>1. X \ {pick[X]} \in SUBSET D /\ Cardinality(X \ {pick[X]}) = Cardinality(X) - 1
      BY <1>1, <2>1, FS_RemoveElement
    <3>2. Cardinality(X \ {pick[X]}) <= k
      BY <1>1, <2>1, <3>1
    <3>3. f[X \ {pick[X]}] = g[X \ {pick[X]}]
      BY <1>3, <3>1, <3>2
    <3> QED BY <2>1, <3>3
  <2>2. \A X \in SUBSET D : Cardinality(X) <= k + 1 => f[X] = g[X]
    BY <2>1
  <2>3. k + 1 \in Nat
    OBVIOUS
  <2> QED BY <2>2, <2>3
<1>4. \A k \in Nat : k \in T
  <2> HIDE DEF T
  <2> QED BY <1>2, <1>3, SetInduction
<1> QED BY <1>1, <1>4

\* A function on 1..n has length n.
LEMMA LengthOf ==
  ASSUME NEW n \in Nat, NEW s, s = [i \in 1..n |-> s[i]]
  PROVE  Len(s) = n
<1>1. s \in [1..n -> {s[i] : i \in 1..n}]
  OBVIOUS
<1>2. s \in Seq({s[i] : i \in 1..n})
  BY <1>1
<1> QED BY <1>1, <1>2

\* What a function makes of a set.
IsImage(T, f, S) == T = {f[x] : x \in S}

\* The image of a finite set is finite.
LEMMA ImageIsFinite ==
  ASSUME NEW S, IsFiniteSet(S), NEW f, NEW T, IsImage(T, f, S)
  PROVE  IsFiniteSet(T)
<1>1. [x \in S |-> f[x]] \in Surjection(S, T)
  BY DEF Surjection, IsImage
<1> QED BY <1>1, FS_Surjection

\* The numbers of a set are in their own order.
LEMMA LessOrders ==
  ASSUME NEW S \in SUBSET Int
  PROVE  StrictlyOrders(Less(S), S)
BY DEF StrictlyOrders, Less

-----------------------------------------------------------------------------
(* Folding a list from the left.                                           *)

\* The last of some positions is one of them.
LEMMA MaxOfPositions ==
  ASSUME NEW n \in Nat
  PROVE  \A X \in SUBSET (1..n) : X # {} => Max(X) \in X
<1> SUFFICES ASSUME NEW X \in SUBSET (1..n), X # {} PROVE Max(X) \in X
  OBVIOUS
<1>1. X \in SUBSET Int
  OBVIOUS
<1>2. IsFiniteSet(X)
  <2>1. IsFiniteSet(1..n)
    BY FS_Interval
  <2> QED BY <2>1, FS_Subset
<1> QED BY <1>1, <1>2, MaxFact

\* What a left fold of n elements starts with and how it goes on, as long as its
\* values stay in V.
Stepping(n, V, base, step) ==
  /\ n \in Nat
  /\ base \in V
  /\ \A k \in 1..n : \A v \in V : step[<<v, k>>] \in V

\* A function of sets of positions, the last one taken out each time, that solves
\* the equation of the fold.
SolvesLeft(g, n, V, base, step) ==
  /\ g \in [SUBSET (1..n) -> V]
  /\ \A X \in SUBSET (1..n) :
       g[X] = IF X = {} THEN base ELSE step[<<g[X \ {Max(X)}], Max(X)>>]

\* The equation of a fold from the left has a solution.
LEMMA LeftSolution ==
  ASSUME NEW n, NEW V, NEW base, NEW step, Stepping(n, V, base, step)
  PROVE  \E g : SolvesLeft(g, n, V, base, step)
<1> DEFINE D == 1..n
           pick == [X \in SUBSET D |-> Max(X)]
<1>1. n \in Nat /\ base \in V /\ IsFiniteSet(D)
  BY FS_Interval DEF Stepping
<1>2. \A X \in SUBSET D : X # {} => pick[X] \in X
  BY <1>1, MaxOfPositions
<1>3. \A x \in D : \A v \in V : step[<<v, x>>] \in V
  BY DEF Stepping
<1>4. \A X \in SUBSET D : pick[X] = Max(X)
  OBVIOUS
<1> HIDE DEF pick, D
<1>6. Folding(D, pick, V, base, step)
  BY <1>1, <1>2, <1>3 DEF Folding
<1>5. PICK g : Folds(g, D, pick, V, base, step)
  BY <1>1, <1>6, FoldExists
<1>7. SolvesLeft(g, n, V, base, step)
  BY <1>4, <1>5 DEF Folds, SolvesLeft, D
<1> QED BY <1>7

\* The values of a left fold, one for every number of elements taken.
Accumulates(h, n, V, base, step) ==
  /\ n \in Nat
  /\ h \in [0..n -> V]
  /\ h[0] = base
  /\ \A k \in 1..n : k - 1 \in 0..n /\ h[k] = step[<<h[k - 1], k>>]

\* Whatever starts and goes on like a fold has its values.
Follows(sum, n, V, base, step) ==
  /\ sum[{}] = base
  /\ \A X \in SUBSET (1..n) : \A v \in V :
       X # {} /\ sum[X \ {Max(X)}] = v => sum[X] = step[<<v, Max(X)>>]

\* A fold from the left accumulates along the list.
LEMMA LeftFold ==
  ASSUME NEW n, NEW V, NEW base, NEW step, Stepping(n, V, base, step),
         NEW sum, Follows(sum, n, V, base, step)
  PROVE  \E h : Accumulates(h, n, V, base, step) /\ sum[1..n] = h[n]
<1> DEFINE D == 1..n
           pick == [X \in SUBSET D |-> Max(X)]
<1>1. PICK g : SolvesLeft(g, n, V, base, step)
  BY LeftSolution
<1>2. n \in Nat /\ IsFiniteSet(D)
  BY FS_Interval DEF Stepping
<1>3. \A X \in SUBSET D : X # {} => Max(X) \in X
  BY <1>2, MaxOfPositions
<1>4. SameSteps(sum, g, D, pick)
  <2>1. sum[{}] = g[{}]
    <3>1. g[{}] = base
      BY <1>1 DEF SolvesLeft
    <3> QED BY <3>1 DEF Follows
  <2>2. ASSUME NEW X \in SUBSET D, X # {}, sum[X \ {Max(X)}] = g[X \ {Max(X)}] PROVE sum[X] = g[X]
    <3>1. g[X \ {Max(X)}] \in V
      BY <1>1 DEF SolvesLeft
    <3>2. sum[X] = step[<<g[X \ {Max(X)}], Max(X)>>]
      BY <2>2, <3>1 DEF Follows
    <3>3. g[X] = step[<<g[X \ {Max(X)}], Max(X)>>]
      BY <1>1, <2>2 DEF SolvesLeft
    <3> QED BY <3>2, <3>3
  <2>3. \A X \in SUBSET D : pick[X] = Max(X)
    OBVIOUS
  <2> HIDE DEF pick, D
  <2> QED BY <1>3, <2>1, <2>2, <2>3 DEF SameSteps
<1>5. sum[D] = g[D]
  <2> HIDE DEF pick, D
  <2>1. \A X \in SUBSET D : sum[X] = g[X]
    BY <1>2, <1>4, FoldIsUnique
  <2> QED BY <2>1
<1> DEFINE h == [k \in 0..n |-> g[1..k]]
<1>6. \A k \in 0..n : 1..k \in SUBSET D
  BY <1>2
<1>7. h \in [0..n -> V]
  BY <1>1, <1>6 DEF SolvesLeft
<1>8. h[0] = base
  <2>1. 1..0 = {}
    OBVIOUS
  <2>2. h[0] = g[{}]
    BY <1>2, <2>1
  <2>3. g[{}] = base
    BY <1>1 DEF SolvesLeft
  <2> QED BY <2>2, <2>3
<1>9. ASSUME NEW k \in 1..n PROVE k - 1 \in 0..n /\ h[k] = step[<<h[k - 1], k>>]
  <2>0. n \in Nat
    BY <1>2
  <2>5. k \in Nat /\ k > 0 /\ k \in 0..n /\ k - 1 \in 0..n /\ k \in 1..k
    BY <2>0
  <2>1. k \in Nat /\ k > 0 /\ k \in 0..n /\ k - 1 \in 0..n /\ 1..k # {}
    BY <2>5
  <2>2. Max(1..k) = k /\ (1..k) \ {Max(1..k)} = 1..(k - 1)
    BY <2>1, MaxOfPrefix
  <2>3. 1..k \in SUBSET (1..n)
    BY <1>2
  <2>4. g[1..k] = step[<<g[1..(k - 1)], k>>]
    BY <1>1, <2>1, <2>2, <2>3 DEF SolvesLeft
  <2> QED BY <2>1, <2>4
<1>10. sum[1..n] = h[n]
  BY <1>2, <1>5
<1> HIDE DEF h
<1>11. Accumulates(h, n, V, base, step)
  BY <1>2, <1>7, <1>8, <1>9 DEF Accumulates
<1> QED BY <1>10, <1>11
=============================================================================
