--------------------------- MODULE DashboardProofs ---------------------------
(***************************************************************************)
(* The figures of the dashboard agree, for every finite table, window,       *)
(* bucket size and number of bins.  The sums, the sorted samples and the     *)
(* LIMIT of a query are folds and choices over data; what is needed of them  *)
(* is proved once, by induction over the subsets of a finite set.            *)
(***************************************************************************)
EXTENDS Dashboard, FleetProofs, FiniteSetTheorems, WellFoundedInduction, TLAPS

\* Induction over the subsets of a finite set, for a set of subsets.
LEMMA SubsetInduction ==
  ASSUME NEW S, IsFiniteSet(S), NEW P,
         \A T \in SUBSET S : (\A x \in T : T \ {x} \in P) => T \in P
  PROVE  S \in P
<1> DEFINE F == FiniteSubsetsOf(S)
           R == StrictSubsetOrdering(S)
           Bad == F \ P
<1>1. IsWellFoundedOn(R, F)
  BY FS_StrictSubsetOrderingWellFounded, FS_FiniteSubsetsOfFinite
<1>2. F = SUBSET S
  BY FS_FiniteSubsetsOfFinite
<1> SUFFICES ASSUME Bad # {} PROVE FALSE
  BY <1>2
<1>3. PICK T \in Bad : \A U \in Bad : ~(<<U, T>> \in R)
  <2>1. Bad \subseteq F
    OBVIOUS
  <2> HIDE DEF R, F, Bad
  <2> QED BY <1>1, <2>1, WFMin
<1>4. T \subseteq S /\ T \notin P
  BY <1>2, <1>3
<1>5. PICK x \in T : T \ {x} \notin P
  BY <1>4
<1>6. T \ {x} \in Bad
  BY <1>2, <1>4, <1>5
<1>7. <<T \ {x}, T>> \in R
  BY <1>4, <1>5 DEF StrictSubsetOrdering
<1> QED BY <1>3, <1>6, <1>7

-----------------------------------------------------------------------------
(***************************************************************************)
(* Sums.                                                                    *)
(***************************************************************************)

\* g[T] is the sum of f over T.
Sums(f, g) ==
  /\ g = [T \in SUBSET DOMAIN f |-> g[T]]
  /\ g[{}] = 0
  /\ \A T \in SUBSET DOMAIN f : \A x \in T : g[T] = f[x] + g[T \ {x}]

\* Total adds the values of a function, whatever the order in which the fold takes them.
LEMMA TotalIsSum ==
  ASSUME NEW f, NEW g, IsFiniteSet(DOMAIN f), Sums(f, g)
  PROVE  Total(f) = g[DOMAIN f]
<1> DEFINE S == DOMAIN f
           some(T) == CHOOSE x \in T : TRUE
           Adds(h) == h = [T \in SUBSET S |-> IF T = {} THEN 0 ELSE f[some(T)] + h[T \ {some(T)}]]
           iter == CHOOSE h : Adds(h)
<1>1. Total(f) = iter[S]
  BY DEF Total, FoldFunction, FoldFunctionOnSet, MapThenFoldSet
<1>2. \A T : T # {} => some(T) \in T
  OBVIOUS
<1> HIDE DEF some
<1>3. Adds(g)
  <2>1. \A T \in SUBSET S : T # {} => g[T] = f[some(T)] + g[T \ {some(T)}]
    BY <1>2 DEF Sums
  <2>2. g[{}] = 0 /\ g = [T \in SUBSET S |-> g[T]]
    BY DEF Sums
  <2> QED BY <2>1, <2>2
<1>4. Adds(iter)
  BY <1>3
<1> HIDE DEF iter
<1> DEFINE P == {T \in SUBSET S : iter[T] = g[T]}
<1>5. ASSUME NEW T \in SUBSET S, \A x \in T : T \ {x} \in P
      PROVE  T \in P
  <2>1. CASE T = {}
    BY <1>3, <1>4, <2>1
  <2>2. CASE T # {}
    <3>1. some(T) \in T /\ T \ {some(T)} \in P
      BY <1>2, <1>5, <2>2
    <3>2. iter[T] = f[some(T)] + iter[T \ {some(T)}]
      BY <1>4, <2>2
    <3>3. g[T] = f[some(T)] + g[T \ {some(T)}]
      BY <1>3, <2>2
    <3> QED BY <3>1, <3>2, <3>3
  <2> QED BY <2>1, <2>2
<1>6. S \in P
  <2> HIDE DEF P, S
  <2> QED BY <1>5, SubsetInduction DEF S
<1> QED BY <1>1, <1>6

\* Elements that are counted by the number they have are counted once each.
LEMMA TotalCounts ==
  ASSUME NEW X, IsFiniteSet(X), NEW n \in Nat, NEW number \in [X -> 1..n]
  PROVE  Total([i \in 1..n |-> Cardinality({x \in X : number[x] = i})]) = Cardinality(X)
<1> DEFINE f == [i \in 1..n |-> Cardinality({x \in X : number[x] = i})]
           having(T) == {x \in X : number[x] \in T}
           g == [T \in SUBSET (1..n) |-> Cardinality(having(T))]
<1>1. ASSUME NEW T \in SUBSET (1..n), NEW i \in T
      PROVE  g[T] = f[i] + g[T \ {i}]
  <2> DEFINE A == {x \in X : number[x] = i}
             B == having(T \ {i})
  <2>1. having(T) = A \cup B /\ A \cap B = {}
    OBVIOUS
  <2>2. IsFiniteSet(A) /\ IsFiniteSet(B)
    BY FS_Subset
  <2>3. Cardinality(A) \in Nat /\ Cardinality(B) \in Nat
    BY <2>2, FS_CardinalityType
  <2>4. Cardinality(having(T)) = Cardinality(A) + Cardinality(B)
    <3> HIDE DEF A, B, having
    <3>1. Cardinality(A \cup B) = Cardinality(A) + Cardinality(B) - Cardinality(A \cap B)
      BY <2>2, FS_Union
    <3>2. Cardinality(A \cap B) = 0
      BY <2>1, FS_EmptySet, Zenon
    <3>3. Cardinality(A \cup B) = Cardinality(A) + Cardinality(B)
      BY <2>3, <3>1, <3>2
    <3> QED BY <2>1, <3>3, Zenon
  <2>5. g[T] = Cardinality(having(T)) /\ f[i] = Cardinality(A) /\ g[T \ {i}] = Cardinality(B)
    OBVIOUS
  <2> QED BY <2>4, <2>5
<1>2. g[{}] = 0
  <2>1. having({}) = {}
    OBVIOUS
  <2> QED BY <2>1, FS_EmptySet
<1>3. DOMAIN f = 1..n /\ IsFiniteSet(DOMAIN f)
  BY FS_Interval
<1>4. Sums(f, g)
  <2>1. g = [T \in SUBSET (1..n) |-> g[T]]
    OBVIOUS
  <2> HIDE DEF g, f
  <2> QED BY <1>1, <1>2, <1>3, <2>1 DEF Sums
<1>5. Total(f) = g[1..n]
  <2> HIDE DEF g, f
  <2> QED BY <1>3, <1>4, TotalIsSum
<1>6. having(1..n) = X
  OBVIOUS
<1> QED BY <1>5, <1>6

-----------------------------------------------------------------------------
(***************************************************************************)
(* Orders.                                                                  *)
(***************************************************************************)

\* A finite set that is not empty has a last element.
LEMMA LastExists ==
  ASSUME NEW S, IsFiniteSet(S), S # {}, NEW f \in [S -> Int]
  PROVE  \E x \in S : \A y \in S : f[y] <= f[x]
<1> DEFINE P == {T \in SUBSET S : T # {} => \E x \in T : \A y \in T : f[y] <= f[x]}
<1>1. ASSUME NEW T \in SUBSET S, \A x \in T : T \ {x} \in P
      PROVE  T \in P
  <2> SUFFICES ASSUME T # {} PROVE \E x \in T : \A y \in T : f[y] <= f[x]
    OBVIOUS
  <2>1. PICK x \in T : TRUE
    OBVIOUS
  <2>2. CASE T \ {x} = {}
    <3>1. T = {x} /\ f[x] <= f[x]
      BY <2>1, <2>2
    <3> QED BY <3>1
  <2>3. CASE T \ {x} # {}
    <3>1. PICK z \in T \ {x} : \A y \in T \ {x} : f[y] <= f[z]
      BY <1>1, <2>1, <2>3
    <3>2. f[x] \in Int /\ f[z] \in Int /\ \A y \in T : f[y] \in Int
      BY <2>1, <3>1
    <3>3. CASE f[x] <= f[z]
      BY <3>1, <3>3
    <3>4. CASE ~(f[x] <= f[z])
      <4>1. \A y \in T : f[y] <= f[x]
        BY <3>1, <3>2, <3>4
      <4> QED BY <2>1, <4>1
    <3> QED BY <3>3, <3>4
  <2> QED BY <2>2, <2>3
<1>2. S \in P
  <2> HIDE DEF P
  <2> QED BY <1>1, SubsetInduction
<1> QED BY <1>2

Sorting(f, S, v) ==
  /\ v \in [1..Cardinality(S) -> S]
  /\ \A i, j \in 1..Cardinality(S) : v[i] = v[j] => i = j
  /\ \A x \in S : \E i \in 1..Cardinality(S) : v[i] = x
  /\ \A i, j \in 1..Cardinality(S) : i < j => f[v[i]] <= f[v[j]]

\* One more element, at the end.
LEMMA SortingGrows ==
  ASSUME NEW S, IsFiniteSet(S), NEW f \in [S -> Int], NEW x \in S, NEW v,
         \A y \in S : f[y] <= f[x], Sorting(f, S \ {x}, v)
  PROVE  \E w : Sorting(f, S, w)
<1> DEFINE n == Cardinality(S \ {x})
           w == [i \in 1..n + 1 |-> IF i = n + 1 THEN x ELSE v[i]]
<1>1. n \in Nat /\ Cardinality(S) = n + 1
  <2>1. IsFiniteSet(S \ {x}) /\ Cardinality(S \ {x}) = Cardinality(S) - 1
    BY FS_RemoveElement
  <2>2. Cardinality(S) \in Nat /\ n \in Nat
    BY <2>1, FS_CardinalityType
  <2> QED BY <2>1, <2>2
<1>2. /\ v \in [1..n -> S \ {x}]
      /\ \A i, j \in 1..n : v[i] = v[j] => i = j
      /\ \A y \in S \ {x} : \E i \in 1..n : v[i] = y
      /\ \A i, j \in 1..n : i < j => f[v[i]] <= f[v[j]]
  BY DEF Sorting
<1> HIDE DEF n
<1>3. \A i \in 1..n + 1 : i # n + 1 => i \in 1..n
  BY <1>1
<1>4. \A i \in 1..n : w[i] = v[i] /\ v[i] \in S \ {x} /\ i # n + 1 /\ i \in 1..n + 1
  BY <1>1, <1>2
<1>5. w[n + 1] = x /\ n + 1 \in 1..n + 1 /\ w \in [1..n + 1 -> S]
  <2>1. n + 1 \in 1..n + 1
    BY <1>1
  <2> QED BY <1>2, <1>3, <2>1
<1> HIDE DEF w
<1>6. ASSUME NEW i \in 1..n + 1, NEW j \in 1..n + 1
      PROVE  (w[i] = w[j] => i = j) /\ (i < j => f[w[i]] <= f[w[j]])
  <2>1. CASE i = n + 1 /\ j = n + 1
    BY <1>1, <2>1
  <2>2. CASE i = n + 1 /\ j \in 1..n
    <3>1. w[i] # w[j]
      BY <1>4, <1>5, <2>2
    <3>2. ~(i < j)
      BY <1>1, <2>2
    <3> QED BY <3>1, <3>2
  <2>3. CASE i \in 1..n /\ j = n + 1
    BY <1>4, <1>5, <2>3
  <2>4. CASE i \in 1..n /\ j \in 1..n
    BY <1>2, <1>4, <2>4
  <2> QED BY <1>3, <2>1, <2>2, <2>3, <2>4
<1>7. \A y \in S : \E i \in 1..n + 1 : w[i] = y
  <2>1. ASSUME NEW y \in S, y # x PROVE \E i \in 1..n + 1 : w[i] = y
    <3>1. PICK i \in 1..n : v[i] = y
      BY <1>2, <2>1
    <3> QED BY <1>4, <3>1
  <2> QED BY <1>5, <2>1
<1> DEFINE m == n + 1
<1>8. w \in [1..m -> S] /\ \A y \in S : \E i \in 1..m : w[i] = y
  BY <1>5, <1>7
<1>9. \A i, j \in 1..m : w[i] = w[j] => i = j
  BY <1>6
<1>10. \A i, j \in 1..m : i < j => f[w[i]] <= f[w[j]]
  BY <1>6
<1>11. Cardinality(S) = m
  BY <1>1
<1> HIDE DEF m
<1>12. Sorting(f, S, w)
  BY <1>8, <1>9, <1>10, <1>11, Zenon DEF Sorting
<1> QED BY <1>12

\* Every finite set can be sorted.
LEMMA SortingExists ==
  ASSUME NEW S, IsFiniteSet(S), NEW f \in [S -> Int]
  PROVE  \E v : Sorting(f, S, v)
<1> DEFINE P == {T \in SUBSET S : \E v : Sorting(f, T, v)}
<1>1. ASSUME NEW T \in SUBSET S, \A x \in T : T \ {x} \in P
      PROVE  T \in P
  <2>1. IsFiniteSet(T)
    BY FS_Subset
  <2>2. CASE T = {}
    <3>1. Cardinality(T) = 0 /\ 1..0 = {}
      BY <2>2, FS_EmptySet
    <3>2. Sorting(f, T, [i \in {} |-> 0])
      BY <2>2, <3>1 DEF Sorting
    <3> QED BY <3>2
  <2>3. CASE T # {}
    <3> DEFINE g == [y \in T |-> f[y]]
    <3>1. g \in [T -> Int] /\ \A y \in T : g[y] = f[y]
      OBVIOUS
    <3> HIDE DEF g
    <3>2. PICK x \in T : \A y \in T : g[y] <= g[x]
      BY <2>1, <2>3, <3>1, LastExists
    <3>3. PICK v : Sorting(f, T \ {x}, v)
      BY <1>1, <3>2
    <3>4. Sorting(g, T \ {x}, v)
      BY <3>1, <3>3 DEF Sorting
    <3>5. PICK w : Sorting(g, T, w)
      BY <2>1, <3>1, <3>2, <3>4, SortingGrows
    <3>6. Sorting(f, T, w)
      BY <3>1, <3>5 DEF Sorting
    <3> QED BY <3>6
  <2> QED BY <2>2, <2>3
<1>2. S \in P
  <2> HIDE DEF P
  <2> QED BY <1>1, SubsetInduction
<1> QED BY <1>2

\* The numbers of a sorting count its elements.
LEMMA SortingCounts ==
  ASSUME NEW S, IsFiniteSet(S), NEW f, NEW v, Sorting(f, S, v),
         NEW k \in 0..Cardinality(S)
  PROVE  IsFiniteSet({v[i] : i \in 1..k}) /\ Cardinality({v[i] : i \in 1..k}) = k
<1>1. Cardinality(S) \in Nat /\ k \in Nat
  BY FS_CardinalityType
<1>2. IsFiniteSet(1..k) /\ Cardinality(1..k) = k
  <2>1. IsFiniteSet(1..k) /\ Cardinality(1..k) = IF 1 > k THEN 0 ELSE k - 1 + 1
    BY <1>1, FS_Interval
  <2> QED BY <1>1, <2>1
<1> DEFINE X == 1..k
           Y == {v[i] : i \in X}
           h == [i \in X |-> v[i]]
<1>3. h \in Bijection(X, Y)
  <2>1. h \in [X -> Y]
    OBVIOUS
  <2>2. \A i, j \in X : h[i] = h[j] => i = j
    <3>1. \A i \in X : i \in 1..Cardinality(S)
      BY <1>1
    <3> QED BY <3>1 DEF Sorting
  <2>3. \A y \in Y : \E i \in X : h[i] = y
    OBVIOUS
  <2> HIDE DEF X, Y, h
  <2> QED BY <2>1, <2>2, <2>3 DEF Bijection, Injection, Surjection, IsInjective
<1>4. IsFiniteSet(Y) /\ Cardinality(Y) = Cardinality(X)
  <2> HIDE DEF X, Y, h
  <2> QED BY <1>2, <1>3, FS_Bijection DEF ExistsBijection, X
<1> QED BY <1>2, <1>4

\* The k last elements of a finite set.
LastOf(f, S, k, last) ==
  /\ last \in kSubset(k, S)
  /\ \A r \in last, s \in S \ last : f[r] >= f[s]

LEMMA LastOfExists ==
  ASSUME NEW S, IsFiniteSet(S), NEW f \in [S -> Int], NEW k \in 0..Cardinality(S)
  PROVE  \E last : LastOf(f, S, k, last)
<1> DEFINE n == Cardinality(S)
<1>1. n \in Nat /\ k \in Nat /\ n - k \in 0..n
  BY FS_CardinalityType
<1>2. PICK v : Sorting(f, S, v)
  BY SortingExists
<1> DEFINE first == {v[i] : i \in 1..n - k}
           last == S \ first
<1>3. first \subseteq S
  BY <1>1, <1>2 DEF Sorting
<1>4. IsFiniteSet(first) /\ Cardinality(first) = n - k
  <2> HIDE DEF first
  <2> QED BY <1>1, <1>2, SortingCounts DEF first
<1>5. Cardinality(last) = k
  <2>1. S \cap first = first
    BY <1>3
  <2>2. Cardinality(S \ first) = Cardinality(S) - Cardinality(S \cap first)
    <3> HIDE DEF first
    <3> QED BY FS_Difference
  <2> HIDE DEF first
  <2> QED BY <1>1, <1>4, <2>1, <2>2
<1>6. ASSUME NEW r \in last, NEW s \in S \ last PROVE f[r] >= f[s]
  <2>1. s \in first
    BY <1>6
  <2>2. PICK j \in 1..n - k : s = v[j]
    BY <2>1
  <2>3. PICK i \in 1..n : r = v[i]
    BY <1>2 DEF Sorting
  <2>4. ~(i \in 1..n - k)
    BY <2>3
  <2>5. j \in 1..n /\ j < i
    BY <1>1, <2>4
  <2>6. f[v[j]] <= f[v[i]] /\ f[v[i]] \in Int /\ f[v[j]] \in Int
    BY <1>2, <2>3, <2>5 DEF Sorting
  <2> QED BY <2>2, <2>3, <2>6
<1>7. last \in kSubset(k, S)
  <2>1. last \in SUBSET S
    OBVIOUS
  <2> HIDE DEF last
  <2> QED BY <1>5, <2>1 DEF kSubset
<1> HIDE DEF last
<1> QED BY <1>6, <1>7 DEF LastOf

-----------------------------------------------------------------------------
(***************************************************************************)
(* Numbers.                                                                 *)
(***************************************************************************)

LEMMA DivIs ==
  ASSUME NEW x \in Int, NEW b \in Nat \ {0}
  PROVE  x \div b \in Int /\ b * (x \div b) <= x /\ x < b * (x \div b) + b
<1>1. x % b \in 0..b - 1
  OBVIOUS
<1>2. x = b * (x \div b) + (x % b)
  OBVIOUS
<1> QED BY <1>1, <1>2

LEMMA DivNat ==
  ASSUME NEW x \in Nat, NEW b \in Nat \ {0}
  PROVE  x \div b \in Nat
<1>1. x \div b \in Int /\ x < b * (x \div b) + b
  BY DivIs
<1> SUFFICES ASSUME x \div b <= -1 PROVE FALSE
  BY <1>1
<1> DEFINE q == x \div b
<1>2. q \in Int /\ q <= -1 /\ x < b * q + b
  BY <1>1
<1> HIDE DEF q
<1>3. b * q <= b * (-1)
  BY <1>2
<1> QED BY <1>2, <1>3

\* The nearest rank is the least one that covers p percent of n.
LEMMA RankCovers ==
  ASSUME NEW n \in Nat \ {0}, NEW p \in 1..100
  PROVE  Rank(p, n) \in 1..n /\ 100 * Rank(p, n) >= p * n /\ 100 * (Rank(p, n) - 1) < p * n
<1> DEFINE q == p * n
<1>1. q \in Int /\ 1 <= q /\ q <= 100 * n
  <2>1. p * n <= 100 * n
    OBVIOUS
  <2>2. 1 * n <= p * n
    OBVIOUS
  <2> QED BY <2>1, <2>2
<1>2. Rank(p, n) = Clamped((q + 99) \div 100, 1, n)
  BY DEF Rank
<1> HIDE DEF q
<1> DEFINE k == (q + 99) \div 100
<1>3. k \in Int /\ 100 * k <= q + 99 /\ q + 99 < 100 * k + 100
  BY <1>1, DivIs
<1> HIDE DEF k
<1>4. k \in 1..n /\ 100 * k >= q /\ 100 * (k - 1) < q
  BY <1>1, <1>3
<1>5. Rank(p, n) = k
  BY <1>2, <1>4 DEF k, Clamped, Least
<1> QED BY <1>4, <1>5 DEF q

\* x is the p-th percentile of f over S.
Percentile(f, S, p, x) ==
  /\ 100 * Cardinality({r \in S : f[r] <= x}) >= p * Cardinality(S)
  /\ \A r \in S : f[r] < x =>
       100 * Cardinality({s \in S : f[s] <= f[r]}) < p * Cardinality(S)

LEMMA PickIsPercentile ==
  ASSUME NEW S, IsFiniteSet(S), S # {}, NEW f \in [S -> Int], NEW v, Sorting(f, S, v),
         NEW p \in 1..100
  PROVE  Percentile(f, S, p, f[v[Rank(p, Cardinality(S))]])
<1> DEFINE n == Cardinality(S)
           k == Rank(p, n)
           x == f[v[k]]
           below(y) == {r \in S : f[r] <= y}
<1>1. n \in Nat \ {0}
  BY FS_CardinalityType, FS_EmptySet
<1>2. k \in 1..n /\ 100 * k >= p * n /\ 100 * (k - 1) < p * n
  <2> HIDE DEF n
  <2> QED BY <1>1, RankCovers
<1> HIDE DEF k
<1>3. /\ v \in [1..n -> S] /\ (\A r \in S : \E i \in 1..n : v[i] = r)
      /\ \A i, j \in 1..n : i < j => f[v[i]] <= f[v[j]]
  BY DEF Sorting
<1>4. x \in Int
  BY <1>2, <1>3
<1>5. \A y : IsFiniteSet(below(y)) /\ Cardinality(below(y)) \in Nat
  <2>1. ASSUME NEW y PROVE IsFiniteSet(below(y)) /\ Cardinality(below(y)) \in Nat
    <3>1. below(y) \in SUBSET S
      OBVIOUS
    <3> HIDE DEF below
    <3>2. IsFiniteSet(below(y))
      BY <3>1, FS_Subset
    <3> QED BY <3>2, FS_CardinalityType
  <2> QED BY <2>1
<1>6. Cardinality(below(x)) >= k
  <2> DEFINE first == {v[i] : i \in 1..k}
  <2>1. IsFiniteSet(first) /\ Cardinality(first) = k
    <3>1. k \in 0..n
      BY <1>1, <1>2
    <3> HIDE DEF first
    <3> QED BY <3>1, SortingCounts DEF first
  <2>2. ASSUME NEW i \in 1..k PROVE v[i] \in below(x)
    <3>1. i \in 1..n /\ (i < k \/ i = k)
      BY <1>1, <1>2
    <3>2. v[i] \in S /\ f[v[i]] <= x
      BY <1>2, <1>3, <1>4, <3>1
    <3> QED BY <3>2
  <2>3. first \in SUBSET below(x)
    BY <2>2
  <2> HIDE DEF first, below, x, n
  <2>4. Cardinality(first) <= Cardinality(below(x))
    BY <1>5, <2>3, FS_Subset
  <2> QED BY <1>2, <1>5, <2>1, <2>4
<1>7. ASSUME NEW r \in S, f[r] < x PROVE Cardinality(below(f[r])) <= k - 1
  <2> DEFINE first == {v[i] : i \in 1..k - 1}
  <2>1. IsFiniteSet(first) /\ Cardinality(first) = k - 1
    <3>1. k - 1 \in 0..n
      BY <1>1, <1>2
    <3> HIDE DEF first
    <3> QED BY <3>1, SortingCounts DEF first
  <2>2. ASSUME NEW s \in below(f[r]) PROVE s \in first
    <3>1. PICK i \in 1..n : v[i] = s
      BY <1>3
    <3>2. f[v[i]] < f[v[k]] /\ f[v[i]] \in Int /\ f[v[k]] \in Int
      BY <1>2, <1>3, <1>4, <1>7, <3>1
    <3>3. ~(k < i) /\ k # i
      BY <1>2, <1>3, <3>2
    <3>4. i \in 1..k - 1
      BY <1>1, <1>2, <3>3
    <3> QED BY <3>1, <3>4
  <2>3. below(f[r]) \in SUBSET first
    BY <2>2
  <2> HIDE DEF first, below, x, n
  <2>4. Cardinality(below(f[r])) <= Cardinality(first)
    BY <2>1, <2>3, FS_Subset
  <2> QED BY <2>1, <2>4
<1>8. p * n \in Int
  BY <1>1
<1>9. 100 * Cardinality(below(x)) >= p * n
  <2> HIDE DEF below, x, n
  <2> QED BY <1>2, <1>5, <1>6, <1>8
<1>10. ASSUME NEW r \in S, f[r] < x PROVE 100 * Cardinality(below(f[r])) < p * n
  <2>1. Cardinality(below(f[r])) <= k - 1 /\ Cardinality(below(f[r])) \in Nat
    BY <1>5, <1>7, <1>10
  <2> HIDE DEF below, x, n
  <2> QED BY <1>2, <1>8, <2>1
<1> QED BY <1>9, <1>10 DEF Percentile, k

-----------------------------------------------------------------------------
(***************************************************************************)
(* The figures of one table.                                                *)
(***************************************************************************)

Table == [Runs -> {r \in Rows : Legal(r)}]

LEMMA RowColumns ==
  ASSUME NEW r \in Rows
  PROVE  /\ r.at # None => r.at \in Int /\ r.took \in Int
         /\ r.started # None => r.started \in Int /\ r.started <= Now
         /\ r.finished # None => r.finished \in Int /\ r.finished <= Now
         /\ r.reward # None => r.reward \in Int
         /\ r.status = "running" <=> r.started # None /\ r.finished = None
<1>1. /\ Times \subseteq Int /\ Now \in Int /\ None \notin Int /\ Unit \in Nat
      /\ \A time \in Times : time <= Now
  BY DashboardAssumption
<1> DEFINE row(status, started, finished, reward, at, took) ==
             [status |-> status, started |-> started, finished |-> finished,
              reward |-> reward, at |-> at, took |-> took]
<1>2. CASE \E s \in {"queued", "cancelled"} : r = row(s, None, None, None, None, None)
  BY <1>1, <1>2
<1>3. CASE \E to \in Times : r = row("failed", None, to, None, None, None)
  BY <1>1, <1>3
<1>4. CASE \E from, at \in Times : r = row("running", from, None, None, at, 0)
  BY <1>1, <1>4
<1>5. CASE \E s \in {"completed", "failed", "cancelled"}, from, to \in Times, w \in {None, -Unit, 0, Unit} :
             r = row(s, from, to, w, to, to - from)
  <2>1. PICK s \in {"completed", "failed", "cancelled"}, from \in Times, to \in Times,
             w \in {None, -Unit, 0, Unit} : r = row(s, from, to, w, to, to - from)
    BY <1>5
  <2>2. /\ r.at = to /\ r.took = to - from /\ r.started = from /\ r.finished = to
        /\ r.reward = w /\ r.status = s
    BY <2>1
  <2>3. to \in Int /\ from \in Int /\ to - from \in Int /\ to <= Now /\ from <= Now
    BY <1>1
  <2>4. w # None => w \in Int
    BY <1>1
  <2>5. to # None
    BY <1>1, <2>3
  <2>6. s # "running"
    OBVIOUS
  <2> HIDE DEF row
  <2> QED BY <2>2, <2>3, <2>4, <2>5, <2>6
<1>6. CASE \E at \in Times : r = row("cancelled", None, None, None, at, 0)
  BY <1>1, <1>6
<1>7. CASE \E to, at \in Times : r = row("failed", None, to, None, at, 0)
  BY <1>1, <1>7
<1> QED BY <1>2, <1>3, <1>4, <1>5, <1>6, <1>7 DEF Rows

LEMMA TableRows ==
  ASSUME NEW t \in Table
  PROVE  DOMAIN t = Runs /\ IsFiniteSet(Runs) /\ \A r \in Runs : t[r] \in Rows
BY DashboardAssumption DEF Table

\* The parts of a table that are counted are finite.
LEMMA PartsFinite ==
  ASSUME NEW t \in Table, NEW X, X \subseteq Runs
  PROVE  IsFiniteSet(X) /\ Cardinality(X) \in Nat
<1>1. IsFiniteSet(X)
  BY TableRows, FS_Subset
<1> QED BY <1>1, FS_CardinalityType

LEMMA NewestIs ==
  ASSUME NEW t \in Table, NEW X, X \subseteq Runs, \A r \in X : t[r].at \in Int
  PROVE  LET last == Newest(t, X, "at", Sampled)
         IN  /\ last \subseteq X /\ Cardinality(last) = Least(Sampled, Cardinality(X))
             /\ \A r \in last, s \in X \ last : t[r].at >= t[s].at
<1> DEFINE f == [r \in X |-> t[r].at]
           k == Least(Sampled, Cardinality(X))
           newest(last) == last \in kSubset(k, X) /\ \A r \in last, s \in X \ last : t[r].at >= t[s].at
<1>1. k \in 0..Cardinality(X)
  BY PartsFinite, DashboardAssumption DEF Least
<1>2. f \in [X -> Int] /\ \A r \in X : f[r] = t[r].at
  OBVIOUS
<1>3. PICK last : LastOf(f, X, k, last)
  <2> HIDE DEF f, k
  <2> QED BY <1>1, <1>2, PartsFinite, LastOfExists
<1>4. newest(last)
  BY <1>2, <1>3 DEF LastOf, kSubset
<1> DEFINE n == CHOOSE s \in kSubset(k, X) : \A r \in s, q \in X \ s : t[r].at >= t[q].at
<1>5. newest(n)
  BY <1>4
<1>6. n = Newest(t, X, "at", Sampled)
  BY DEF Newest
<1> HIDE DEF n
<1> QED BY <1>5, <1>6 DEF kSubset

LEMMA SortedIs ==
  ASSUME NEW t, NEW X, IsFiniteSet(X), NEW f \in [X -> Int], \A r \in X : f[r] = t[r].took
  PROVE  Sorting(f, X, Sorted(t, X))
<1> DEFINE n == Cardinality(X)
           sorted(v) == /\ v \in Bijection(1..n, X)
                        /\ \A i, j \in 1..n : i < j => t[v[i]].took <= t[v[j]].took
<1>1. PICK v : Sorting(f, X, v)
  BY SortingExists
<1>2. sorted(v)
  <2>1. \A i \in 1..n : v[i] \in X
    BY <1>1 DEF Sorting
  <2> QED BY <1>1, <2>1 DEF Sorting, Bijection, Injection, Surjection, IsInjective
<1>3. sorted(Sorted(t, X))
  BY <1>2 DEF Sorted
<1> DEFINE w == Sorted(t, X)
<1> HIDE DEF w
<1>4. sorted(w)
  BY <1>3 DEF w
<1>5. \A i \in 1..n : w[i] \in X
  BY <1>4 DEF Bijection, Injection
<1>6. Sorting(f, X, w)
  BY <1>4, <1>5 DEF Sorting, Bijection, Injection, Surjection, IsInjective
<1> QED BY <1>6 DEF w

\* The percentiles of a part of a table.
LEMMA PercentilesAre ==
  ASSUME NEW t, NEW X, IsFiniteSet(X), X # {}, \A r \in X : t[r].took \in Int
  PROVE  LET f == [r \in X |-> t[r].took]
         IN  /\ Percentile(f, X, 50, Percentiles(t, X).p50)
             /\ Percentile(f, X, 95, Percentiles(t, X).p95)
             /\ Percentile(f, X, 99, Percentiles(t, X).p99)
<1> DEFINE f == [r \in X |-> t[r].took]
           n == Cardinality(X)
           v == Sorted(t, X)
<1>1. f \in [X -> Int] /\ \A r \in X : f[r] = t[r].took
  OBVIOUS
<1>2. Sorting(f, X, v)
  <2> HIDE DEF f
  <2> QED BY <1>1, SortedIs
<1>3. n \in Nat \ {0}
  BY FS_CardinalityType, FS_EmptySet
<1> HIDE DEF v
<1>4. \A p \in 1..100 : Rank(p, n) \in 1..n
  <2> HIDE DEF n
  <2> QED BY <1>3, RankCovers
<1>5. \A p \in 1..100 : Percentile(f, X, p, f[v[Rank(p, n)]])
  <2> HIDE DEF f
  <2> QED BY <1>1, <1>2, PickIsPercentile
<1>6. \A p \in 1..100 : f[v[Rank(p, n)]] = t[v[Rank(p, n)]].took
  <2>1. \A p \in 1..100 : v[Rank(p, n)] \in X
    BY <1>2, <1>4 DEF Sorting
  <2> QED BY <2>1
<1>7. /\ Percentiles(t, X).p50 = t[v[Rank(50, n)]].took
      /\ Percentiles(t, X).p95 = t[v[Rank(95, n)]].took
      /\ Percentiles(t, X).p99 = t[v[Rank(99, n)]].took
  BY DEF Percentiles, v
<1> HIDE DEF f, n
<1>8. /\ Percentile(f, X, 50, t[v[Rank(50, n)]].took)
      /\ Percentile(f, X, 95, t[v[Rank(95, n)]].took)
      /\ Percentile(f, X, 99, t[v[Rank(99, n)]].took)
  <2>1. ASSUME NEW p \in 1..100 PROVE Percentile(f, X, p, t[v[Rank(p, n)]].took)
    <3>1. Percentile(f, X, p, f[v[Rank(p, n)]]) /\ f[v[Rank(p, n)]] = t[v[Rank(p, n)]].took
      BY <1>5, <1>6
    <3> QED BY <3>1
  <2>2. 50 \in 1..100 /\ 95 \in 1..100 /\ 99 \in 1..100
    OBVIOUS
  <2> QED BY <2>1, <2>2
<1>9. /\ Percentile(f, X, 50, Percentiles(t, X).p50)
      /\ Percentile(f, X, 95, Percentiles(t, X).p95)
      /\ Percentile(f, X, 99, Percentiles(t, X).p99)
  BY <1>7, <1>8
<1> QED BY <1>9 DEF f

\* The start of the first bucket is in front of the window; the last bucket is open.
LEMMA BucketsCover ==
  ASSUME NEW w \in Nat, NEW b \in Nat \ {0}
  PROVE  LET start == StartOf(Now, w, b)
             n == Buckets(Now, w, b)
         IN  /\ start \in Int /\ start <= Now - w /\ n \in Nat \ {0} /\ start + n * b > Now
             /\ \A time \in Int : start <= time /\ time <= Now => IndexOf(time, start, b) \in 1..n
<1> DEFINE start == StartOf(Now, w, b)
           n == Buckets(Now, w, b)
<1>1. Now \in Int
  BY DashboardAssumption
<1>2. start \in Int /\ start <= Now - w
  <2> DEFINE q == (Now - w) \div b
  <2>1. q \in Int /\ b * q <= Now - w
    BY <1>1, DivIs
  <2> HIDE DEF q
  <2>2. q * b = b * q /\ q * b \in Int
    BY <2>1
  <2> QED BY <1>1, <2>1, <2>2 DEF StartOf, q
<1> HIDE DEF start
<1> DEFINE last == (Now - start) \div b
<1>3. last \in Nat /\ b * last <= Now - start /\ Now - start < b * last + b
  <2> DEFINE length == Now - start
  <2>1. length \in Nat /\ length \in Int
    BY <1>1, <1>2
  <2> HIDE DEF length
  <2>2. length \div b \in Nat
    BY <2>1, DivNat
  <2>3. b * (length \div b) <= length /\ length < b * (length \div b) + b
    BY <2>1, DivIs
  <2> QED BY <2>2, <2>3 DEF length
<1>4. n = last + 1
  BY DEF Buckets, start
<1> HIDE DEF last, n
<1>5. n * b = b * last + b
  BY <1>3, <1>4
<1>6. ASSUME NEW time \in Int, start <= time, time <= Now
      PROVE  IndexOf(time, start, b) \in 1..n
  <2> DEFINE i == (time - start) \div b
  <2>1. i \in Nat /\ b * i <= time - start
    <3>1. time - start \in Nat
      BY <1>2, <1>6
    <3> QED BY <3>1, DivIs, DivNat
  <2>2. IndexOf(time, start, b) = i + 1
    BY DEF IndexOf
  <2> HIDE DEF i
  <2>3. b * i < b * (last + 1)
    <3>1. b * last + b = b * (last + 1)
      BY <1>3
    <3>2. time - start < b * last + b
      BY <1>1, <1>2, <1>3, <1>6
    <3>3. b * i \in Int /\ b * last \in Int
      BY <1>3, <2>1
    <3> QED BY <1>2, <2>1, <3>1, <3>2, <3>3
  <2>4. i < last + 1
    <3> SUFFICES ASSUME i >= last + 1 PROVE FALSE
      BY <1>3, <2>1
    <3>1. b * i >= b * (last + 1)
      BY <1>3, <2>1
    <3> QED BY <1>3, <2>1, <2>3, <3>1
  <2> QED BY <1>3, <1>4, <2>1, <2>2, <2>4
<1>7. n \in Nat \ {0} /\ start + n * b > Now
  BY <1>1, <1>2, <1>3, <1>4, <1>5
<1> QED BY <1>2, <1>6, <1>7 DEF n, start

LEMMA BinsCover ==
  ASSUME NEW reward \in Int, NEW bins \in Nat \ {0}, Unit \in Nat \ {0}
  PROVE  BinOf(reward, bins) \in 1..bins
<1> DEFINE c == Clamped(reward, -Unit, Unit) + Unit
<1>1. c \in Nat
  BY DEF Clamped, Least
<1> HIDE DEF c
<1>2. c * bins \in Nat /\ 2 * Unit \in Nat \ {0}
  BY <1>1
<1>3. (c * bins) \div (2 * Unit) \in Nat
  BY <1>2, DivNat
<1>4. BinBelow(reward, bins) \in Nat
  BY <1>3 DEF BinBelow, c
<1> QED BY <1>4 DEF BinOf, Least

-----------------------------------------------------------------------------
(***************************************************************************)
(* The answer of one request.                                               *)
(***************************************************************************)

AnswerOf(t, w, b, n) ==
  [table |-> t, window |-> w, bucket |-> b,
   stats |-> Stats(t, Now, w), series |-> Series(t, Now, w, b),
   bins |-> Histogram(t, Now, w, n)]

\* An answer is computed from one legal table.
Answered ==
  answer # NoAnswer =>
    \E t \in Table, w \in Windows, b \in BucketSizes, n \in Bins : answer = AnswerOf(t, w, b, n)

LEMMA Parameters ==
  /\ \A w \in Windows : w \in Nat
  /\ \A b \in BucketSizes : b \in Nat \ {0}
  /\ \A n \in Bins : n \in Nat \ {0}
  /\ Unit \in Nat \ {0} /\ Sampled \in Nat \ {0} /\ Now \in Int
BY DashboardAssumption

LEMMA AnsweredInit == DInit => Answered
BY DEF DInit, Answered

LEMMA AnsweredStep ==
  ASSUME Answered, [DNext]_dvars
  PROVE  Answered'
<1>1. CASE Ask
  BY <1>1 DEF Ask, Answered, AnswerOf, Table
<1>2. CASE answer' = answer
  BY <1>2 DEF Answered
<1>3. CASE Respond
  BY <1>3 DEF Respond, Answered
<1> QED BY <1>1, <1>2, <1>3 DEF DNext, dvars

\* A column of the buckets.
EndedIn(t, w, b, status) ==
  LET start == StartOf(Now, w, b)
  IN  [i \in 1..Buckets(Now, w, b) |->
        Cardinality({r \in FinishedSince(t, start) : IndexOf(t[r].finished, start, b) = i}
                      \cap Where(t, status))]

\* The buckets of one status add up to what has ended since their start, and what
\* has ended in the window is part of it.
LEMMA BucketsAdd ==
  ASSUME NEW t \in Table, NEW w \in Nat, NEW b \in Nat \ {0}, NEW status
  PROVE  LET sum == Total(EndedIn(t, w, b, status))
         IN  /\ sum = Cardinality(FinishedSince(t, StartOf(Now, w, b)) \cap Where(t, status))
             /\ sum >= Cardinality(FinishedSince(t, Now - w) \cap Where(t, status))
<1> DEFINE start == StartOf(Now, w, b)
           f == EndedIn(t, w, b, status)
           X == FinishedSince(t, start) \cap Where(t, status)
           Y == FinishedSince(t, Now - w) \cap Where(t, status)
           n == Buckets(Now, w, b)
           number == [r \in X |-> IndexOf(t[r].finished, start, b)]
<1>1. /\ start \in Int /\ start <= Now - w /\ n \in Nat /\ Now \in Int
      /\ \A time \in Int : start <= time /\ time <= Now => IndexOf(time, start, b) \in 1..n
  BY BucketsCover, Parameters
<1>2. X \subseteq Runs /\ \A r \in X : t[r].finished \in Int /\ start <= t[r].finished /\ t[r].finished <= Now
  <2>1. \A r \in X : r \in Runs /\ t[r].finished # None /\ t[r].finished >= start
    BY TableRows DEF FinishedSince
  <2>2. \A r \in Runs : t[r].finished # None => t[r].finished \in Int /\ t[r].finished <= Now
    BY TableRows, RowColumns
  <2> HIDE DEF X
  <2> QED BY <1>1, <2>1, <2>2
<1>3. number \in [X -> 1..n] /\ \A r \in X : number[r] = IndexOf(t[r].finished, start, b)
  <2> HIDE DEF n, X
  <2> QED BY <1>1, <1>2
<1>4. IsFiniteSet(X) /\ Cardinality(X) \in Nat
  <2> HIDE DEF X
  <2> QED BY <1>2, PartsFinite
<1>5. \A i : {r \in FinishedSince(t, start) : IndexOf(t[r].finished, start, b) = i} \cap Where(t, status)
               = {r \in X : number[r] = i}
  BY <1>3
<1>6. f = [i \in 1..n |-> Cardinality({r \in X : number[r] = i})]
  <2> HIDE DEF X, number
  <2> QED BY <1>5 DEF EndedIn
<1>7. Total(f) = Cardinality(X)
  <2> HIDE DEF X, number, n
  <2>1. n \in Nat /\ number \in [X -> 1..n] /\ IsFiniteSet(X)
    BY <1>1, <1>3, <1>4
  <2>2. Total([i \in 1..n |-> Cardinality({r \in X : number[r] = i})]) = Cardinality(X)
    BY <2>1, TotalCounts
  <2> QED BY <1>6, <2>2
<1>8. Cardinality(Y) <= Cardinality(X) /\ Cardinality(Y) \in Nat
  <2>1. \A r \in Y : r \in Runs /\ t[r].finished \in Int
    <3>1. \A r \in Y : r \in Runs /\ t[r].finished # None
      BY TableRows DEF FinishedSince
    <3> QED BY <3>1, TableRows, RowColumns
  <2>2. Y \in SUBSET X
    <3>1. \A r \in Y : t[r].finished >= start
      <4>1. \A r \in Y : t[r].finished >= Now - w
        BY DEF FinishedSince
      <4> HIDE DEF Y
      <4> QED BY <1>1, <2>1, <4>1
    <3> QED BY <3>1 DEF FinishedSince
  <2>3. Y \subseteq Runs
    BY <2>1
  <2> HIDE DEF X, Y
  <2> QED BY <1>4, <2>2, <2>3, FS_Subset, PartsFinite
<1> QED BY <1>4, <1>7, <1>8

LEMMA SeriesAgrees ==
  ASSUME NEW t \in Table, NEW w \in Windows, NEW b \in BucketSizes, NEW n \in Bins,
         answer = AnswerOf(t, w, b, n)
  PROVE  SeriesAdds
<1> DEFINE start == StartOf(Now, w, b)
           last == Buckets(Now, w, b)
           s == Series(t, Now, w, b)
<1>1. w \in Nat /\ b \in Nat \ {0} /\ Now \in Int
  BY Parameters
<1>2. start \in Int /\ start <= Now - w /\ last \in Nat \ {0} /\ start + last * b > Now
  BY <1>1, BucketsCover
<1>3. answer.table = t /\ answer.window = w /\ answer.series = s /\ answer.stats = Stats(t, Now, w)
  BY DEF AnswerOf
<1> DEFINE bucket(i) ==
     [from      |-> start + (i - 1) * b,
      completed |-> Cardinality({r \in FinishedSince(t, start) : IndexOf(t[r].finished, start, b) = i}
                                  \cap Where(t, "completed")),
      failed    |-> Cardinality({r \in FinishedSince(t, start) : IndexOf(t[r].finished, start, b) = i}
                                  \cap Where(t, "failed")),
      reward    |-> MeanReward(t, {r \in FinishedSince(t, start) : IndexOf(t[r].finished, start, b) = i}),
      latency   |-> Percentiles(t, {r \in SteppedSince(t, start) : IndexOf(t[r].at, start, b) = i}).p95,
      running   |-> InFlightAt(t, Least(start + i * b, Now))]
<1>4. s = [i \in 1..last |-> bucket(i)]
  BY DEF Series
<1> HIDE DEF s
<1>5. s[1].from = start
  <2>1. 1 \in 1..last /\ start + (1 - 1) * b = start
    BY <1>1, <1>2
  <2> QED BY <1>4, <2>1
<1>6. Len(s) = last
  <2> DEFINE B == {bucket(i) : i \in 1..last}
  <2>1. s \in [1..last -> B] /\ DOMAIN s = 1..last
    <3> HIDE DEF bucket
    <3> QED BY <1>4
  <2> HIDE DEF B, last
  <2>2. s \in Seq(B)
    BY <1>2, <2>1
  <2> QED BY <1>2, <2>1, <2>2
<1>7. s[Len(s)].running = Cardinality(Where(t, "running"))
  <2>1. last \in 1..last
    BY <1>2
  <2>2. Least(start + last * b, Now) = Now
    BY <1>1, <1>2 DEF Least
  <2>3. s[last].running = InFlightAt(t, Now)
    BY <1>4, <2>1, <2>2
  <2>4. ASSUME NEW r \in Runs
        PROVE  /\ t[r].started # None /\ t[r].started <= Now
               /\ \/ t[r].finished = None
                  \/ t[r].finished > Now
               <=> t[r].status = "running"
    BY <1>1, TableRows, RowColumns
  <2>5. InFlightAt(t, Now) = Cardinality(Where(t, "running"))
    BY <2>4, TableRows DEF InFlightAt, Where
  <2> QED BY <1>6, <2>3, <2>5
<1>8. Column("completed") = [i \in 1..last |->
        Cardinality({r \in FinishedSince(t, start) : IndexOf(t[r].finished, start, b) = i}
                      \cap Where(t, "completed"))]
  BY <1>3, <1>4 DEF Column
<1>9. Column("failed") = [i \in 1..last |->
        Cardinality({r \in FinishedSince(t, start) : IndexOf(t[r].finished, start, b) = i}
                      \cap Where(t, "failed"))]
  BY <1>3, <1>4 DEF Column
<1>10. /\ Stats(t, Now, w)["completed"] = Cardinality(FinishedSince(t, Now - w) \cap Where(t, "completed"))
       /\ Stats(t, Now, w)["failed"] = Cardinality(FinishedSince(t, Now - w) \cap Where(t, "failed"))
       /\ Stats(t, Now, w).running = Cardinality(Where(t, "running"))
  BY DEF Stats
<1> HIDE DEF start, last, bucket
<1>11. /\ Total(Column("completed")) = Cardinality(FinishedSince(t, start) \cap Where(t, "completed"))
       /\ Total(Column("completed")) >= Cardinality(FinishedSince(t, Now - w) \cap Where(t, "completed"))
  <2>1. Column("completed") = EndedIn(t, w, b, "completed")
    BY <1>8 DEF EndedIn, start, last
  <2>2. w \in Nat /\ b \in Nat \ {0}
    BY <1>1
  <2> QED BY <2>1, <2>2, BucketsAdd DEF start
<1>12. /\ Total(Column("failed")) = Cardinality(FinishedSince(t, start) \cap Where(t, "failed"))
       /\ Total(Column("failed")) >= Cardinality(FinishedSince(t, Now - w) \cap Where(t, "failed"))
  <2>1. Column("failed") = EndedIn(t, w, b, "failed")
    BY <1>9 DEF EndedIn, start, last
  <2>2. w \in Nat /\ b \in Nat \ {0}
    BY <1>1
  <2> QED BY <2>1, <2>2, BucketsAdd DEF start
<1> QED BY <1>2, <1>3, <1>5, <1>7, <1>10, <1>11, <1>12 DEF SeriesAdds

LEMMA BinsAgree ==
  ASSUME NEW t \in Table, NEW w \in Windows, NEW b \in BucketSizes, NEW n \in Bins,
         answer = AnswerOf(t, w, b, n)
  PROVE  BinsAdd
<1> DEFINE X == {r \in FinishedSince(t, Now - w) : t[r].reward # None}
           number == [r \in X |-> BinOf(t[r].reward, n)]
<1>1. n \in Nat \ {0} /\ Unit \in Nat \ {0}
  BY Parameters
<1>2. answer.table = t /\ answer.window = w /\ answer.bins = Histogram(t, Now, w, n)
  BY DEF AnswerOf
<1>3. X \subseteq Runs /\ \A r \in X : t[r].reward \in Int
  <2>1. \A r \in X : r \in Runs /\ t[r].reward # None
    BY TableRows DEF FinishedSince
  <2> HIDE DEF X
  <2> QED BY <2>1, TableRows, RowColumns
<1>4. number \in [X -> 1..n] /\ \A r \in X : number[r] = BinOf(t[r].reward, n)
  <2>1. \A r \in X : BinOf(t[r].reward, n) \in 1..n
    <3> HIDE DEF X
    <3> QED BY <1>1, <1>3, BinsCover
  <2> HIDE DEF X
  <2> QED BY <2>1
<1>5. Histogram(t, Now, w, n) = [i \in 1..n |-> Cardinality({r \in X : number[r] = i})]
  <2>1. \A i : {r \in FinishedSince(t, Now - w) : t[r].reward # None /\ BinOf(t[r].reward, n) = i}
                 = {r \in X : number[r] = i}
    BY <1>4
  <2> HIDE DEF X, number
  <2> QED BY <2>1 DEF Histogram
<1> HIDE DEF X, number
<1>6. Total([i \in 1..n |-> Cardinality({r \in X : number[r] = i})]) = Cardinality(X)
  <2>1. IsFiniteSet(X) /\ n \in Nat
    BY <1>1, <1>3, PartsFinite
  <2> QED BY <1>4, <2>1, TotalCounts
<1> QED BY <1>2, <1>5, <1>6 DEF BinsAdd, X

\* The parts of PercentilesRight, for a table.
RightAt(t, runs, p, x) ==
  /\ 100 * Cardinality({r \in runs : t[r].took <= x}) >= p * Cardinality(runs)
  /\ \A r \in runs : t[r].took < x =>
       100 * Cardinality({s \in runs : t[s].took <= t[r].took}) < p * Cardinality(runs)

RightFor(t, w, latency) ==
  LET steps == SteppedSince(t, Now - w)
  IN  steps # {} => \E runs \in SUBSET steps :
        /\ Cardinality(runs) = Least(Sampled, Cardinality(steps))
        /\ \A r \in runs, s \in steps \ runs : t[r].at >= t[s].at
        /\ RightAt(t, runs, 50, latency.p50)
        /\ RightAt(t, runs, 95, latency.p95)
        /\ RightAt(t, runs, 99, latency.p99)

LEMMA ReadRight == PercentilesRight <=> RightFor(answer.table, answer.window, answer.stats.latency)
BY DEF PercentilesRight, RightFor, RightAt

LEMMA PercentilesAgree ==
  ASSUME NEW t \in Table, NEW w \in Windows, NEW b \in BucketSizes, NEW n \in Bins,
         answer = AnswerOf(t, w, b, n)
  PROVE  PercentilesRight
<1> DEFINE steps == SteppedSince(t, Now - w)
           last == Newest(t, steps, "at", Sampled)
           f == [r \in last |-> t[r].took]
           latency == Percentiles(t, last)
<1>1. answer.table = t /\ answer.window = w /\ answer.stats.latency = latency
  BY DEF AnswerOf, Stats
<1>2. steps \subseteq Runs /\ \A r \in steps : t[r].at \in Int /\ t[r].took \in Int
  <2>1. \A r \in steps : r \in Runs /\ t[r].at # None
    BY TableRows DEF SteppedSince
  <2> HIDE DEF steps
  <2> QED BY <2>1, TableRows, RowColumns
<1> SUFFICES ASSUME steps # {} PROVE PercentilesRight
  BY <1>1 DEF PercentilesRight
<1> HIDE DEF steps, latency
<1>3. /\ last \subseteq steps /\ Cardinality(last) = Least(Sampled, Cardinality(steps))
      /\ \A r \in last, s \in steps \ last : t[r].at >= t[s].at
  BY <1>2, NewestIs
<1> HIDE DEF last
<1>4. IsFiniteSet(last) /\ last # {} /\ \A r \in last : t[r].took \in Int
  <2>1. IsFiniteSet(steps) /\ Cardinality(steps) \in Nat /\ Cardinality(steps) # 0
    <3>1. IsFiniteSet(steps) /\ Cardinality(steps) \in Nat
      BY <1>2, PartsFinite
    <3> QED BY <3>1, FS_EmptySet
  <2>2. IsFiniteSet(last) /\ Cardinality(last) # 0
    <3>1. IsFiniteSet(last)
      BY <1>3, <2>1, FS_Subset
    <3>2. Least(Sampled, Cardinality(steps)) # 0
      BY <2>1, Parameters DEF Least
    <3> QED BY <1>3, <3>1, <3>2
  <2> QED BY <1>2, <1>3, <2>2, FS_EmptySet
<1>5. /\ Percentile(f, last, 50, latency.p50) /\ Percentile(f, last, 95, latency.p95)
      /\ Percentile(f, last, 99, latency.p99)
  BY <1>4, PercentilesAre DEF latency
<1>6. \A x : {r \in last : f[r] <= x} = {r \in last : t[r].took <= x}
  OBVIOUS
<1>7. ASSUME NEW p, NEW x, Percentile(f, last, p, x)
      PROVE  RightAt(t, last, p, x)
  <2>1. \A r \in last : f[r] = t[r].took
    OBVIOUS
  <2> HIDE DEF f
  <2> QED BY <1>6, <1>7, <2>1 DEF Percentile, RightAt
<1> HIDE DEF f
<1>8. last \in SUBSET steps
  BY <1>3
<1>9. RightAt(t, last, 50, latency.p50) /\ RightAt(t, last, 95, latency.p95) /\ RightAt(t, last, 99, latency.p99)
  BY <1>5, <1>7
<1>10. RightFor(t, w, latency)
  <2> SUFFICES \E runs \in SUBSET steps :
                 /\ Cardinality(runs) = Least(Sampled, Cardinality(steps))
                 /\ \A r \in runs, s \in steps \ runs : t[r].at >= t[s].at
                 /\ RightAt(t, runs, 50, latency.p50)
                 /\ RightAt(t, runs, 95, latency.p95)
                 /\ RightAt(t, runs, 99, latency.p99)
    BY DEF RightFor, steps
  <2> WITNESS last \in SUBSET steps
  <2> QED BY <1>3, <1>9
<1> QED BY <1>1, <1>10, ReadRight

\* For every table of legal rows, every window, bucket size and number of bins, the
\* three answers of the server agree: no run is lost between buckets or bins or counted
\* twice, and a latency is the percentile of the last steps of the window.
THEOREM AnswersAlwaysAgree == DSpec => []AnswersAgree
<1>1. DInit => Answered
  BY AnsweredInit
<1>2. Answered /\ [DNext]_dvars => Answered'
  BY AnsweredStep
<1>3. Answered => AnswersAgree
  BY SeriesAgrees, BinsAgree, PercentilesAgree DEF Answered, AnswersAgree
<1> QED BY <1>1, <1>2, <1>3, PTL DEF DSpec

\* Requests leave the loops of the fleet alone, so what holds of the fleet holds beside
\* them: every step is one of the fleet or changes none of its variables.
THEOREM FleetUndisturbed == DSpec => [](FTypeOK /\ LiveNeverDown)
<1>1. DInit => FInv
  BY FInitHolds DEF DInit
<1>2. [DNext]_dvars => [FNext]_fvars
  BY DEF DNext, Ask, Respond, dvars
<1>3. FInv /\ [DNext]_dvars => FInv'
  BY <1>2, FNextKeeps
<1>4. FInv => FTypeOK /\ LiveNeverDown
  BY FInvTypes, FInvLive
<1> QED BY <1>1, <1>3, <1>4, PTL DEF DSpec
=============================================================================
