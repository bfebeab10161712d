-------------------------- MODULE Comparison_proofs --------------------------
(***************************************************************************)
(* Proofs about the figures of a comparison, for any consumers, samples    *)
(* and moments of the analysis: the percentiles of analyze.py, its report  *)
(* of the result files of a run, and the shm rows beside it.  An induction *)
(* over data (sums) goes by a least counterexample.                        *)
(***************************************************************************)
EXTENDS Report, Analysis, FiniteSetTheorems, WellFoundedInduction, TLAPS

-----------------------------------------------------------------------------
(* Sums.                                                                   *)

(* An element of a set that is not empty, as the folds choose it.          *)
Pick(s) == CHOOSE x \in s : TRUE

(* iter is the recursive function by which SumFunctionOnSet(f, S) adds up. *)
IsSum(iter, f, S) ==
  iter = [s \in SUBSET S |->
            IF s = {} THEN 0
            ELSE f[Pick(s)] + iter[s \ {Pick(s)}]]

(* Up to n elements there is such a function.                              *)
HasSum(n, f, S) ==
  \E iter : iter = [s \in {t \in SUBSET S : Cardinality(t) <= n} |->
                      IF s = {} THEN 0
                      ELSE f[Pick(s)] + iter[s \ {Pick(s)}]]

LEMMA LeastNumber ==
  ASSUME NEW B \in SUBSET Nat, B # {}
  PROVE  \E n \in B : \A m \in B : n <= m
<1>1. PICK n \in B : \A m \in B : ~(<<m, n>> \in OpToRel(<, Nat))
  BY NatLessThanWellFounded, WFMin
<1>2. ASSUME NEW m \in B PROVE n <= m
  <2>1. <<m, n>> \in Nat \X Nat => ~(m < n)
    BY <1>1 DEF OpToRel
  <2> QED
    BY <2>1
<1> QED
  BY <1>2

(* One element more.                                                       *)
LEMMA SumGrows ==
  ASSUME NEW f, NEW S, IsFiniteSet(S), NEW n \in Nat, HasSum(n, f, S)
  PROVE  HasSum(n + 1, f, S)
<1> DEFINE Small(k) == {t \in SUBSET S : Cardinality(t) <= k}
<1>1. PICK old : old = [s \in Small(n) |-> IF s = {} THEN 0 ELSE f[Pick(s)] + old[s \ {Pick(s)}]]
  BY DEF HasSum
<1> DEFINE new == [s \in Small(n + 1) |-> IF s = {} THEN 0 ELSE f[Pick(s)] + old[s \ {Pick(s)}]]
<1>2. ASSUME NEW s \in Small(n + 1), s # {}
      PROVE  s \ {Pick(s)} \in Small(n)
  <2>1. Pick(s) \in s
    BY <1>2 DEF Pick
  <2>2. IsFiniteSet(s)
    BY FS_Subset
  <2>3. Cardinality(s) \in Nat /\ Cardinality(s \ {Pick(s)}) = Cardinality(s) - 1
    BY <2>1, <2>2, FS_RemoveElement, FS_CardinalityType
  <2> QED
    BY <2>3
<1>3. ASSUME NEW s \in Small(n) PROVE s \in Small(n + 1) /\ new[s] = old[s]
  <2>1. IsFiniteSet(s) /\ Cardinality(s) \in Nat
    BY FS_Subset, FS_CardinalityType
  <2>2. s \in Small(n + 1)
    BY <2>1
  <2>3. old[s] = IF s = {} THEN 0 ELSE f[Pick(s)] + old[s \ {Pick(s)}]
    BY <1>1
  <2> QED
    BY <2>2, <2>3
<1>4. ASSUME NEW s \in Small(n + 1), s # {}
      PROVE  old[s \ {Pick(s)}] = new[s \ {Pick(s)}]
  BY <1>2, <1>3, <1>4
<1>5. new = [s \in Small(n + 1) |-> IF s = {} THEN 0 ELSE f[Pick(s)] + new[s \ {Pick(s)}]]
  <2>1. ASSUME NEW s \in Small(n + 1)
        PROVE  new[s] = IF s = {} THEN 0 ELSE f[Pick(s)] + new[s \ {Pick(s)}]
    <3>1. new[s] = IF s = {} THEN 0 ELSE f[Pick(s)] + old[s \ {Pick(s)}]
      OBVIOUS
    <3> HIDE DEF new, Small
    <3> QED
      BY <1>4, <3>1
  <2>2. new = [s \in Small(n + 1) |-> new[s]]
    OBVIOUS
  <2> HIDE DEF new
  <2> QED
    BY <2>1, <2>2
<1> QED
  BY <1>5 DEF HasSum

LEMMA SumExists ==
  ASSUME NEW f, NEW S, IsFiniteSet(S)
  PROVE  \E iter : IsSum(iter, f, S)
<1> DEFINE Bad == {n \in Nat : ~HasSum(n, f, S)}
<1>1. HasSum(0, f, S)
  <2> DEFINE zero == [s \in {t \in SUBSET S : Cardinality(t) <= 0} |-> 0]
  <2>1. \A s \in {t \in SUBSET S : Cardinality(t) <= 0} : s = {}
    BY FS_Subset, FS_EmptySet, FS_CardinalityType
  <2>2. zero = [s \in {t \in SUBSET S : Cardinality(t) <= 0} |->
                  IF s = {} THEN 0
                  ELSE f[Pick(s)] + zero[s \ {Pick(s)}]]
    BY <2>1
  <2> QED
    BY <2>2 DEF HasSum
<1>2. Bad = {}
  <2> SUFFICES ASSUME Bad # {} PROVE FALSE
    OBVIOUS
  <2>1. PICK n \in Bad : \A m \in Bad : n <= m
    BY LeastNumber
  <2>2. n # 0 /\ n - 1 \in Nat /\ n - 1 \notin Bad
    BY <1>1, <2>1
  <2>3. HasSum(n - 1 + 1, f, S)
    BY <2>2, SumGrows
  <2> QED
    BY <2>1, <2>3
<1>3. Cardinality(S) \in Nat /\ HasSum(Cardinality(S), f, S)
  BY <1>2, FS_CardinalityType
<1>4. {t \in SUBSET S : Cardinality(t) <= Cardinality(S)} = SUBSET S
  BY FS_Subset
<1> QED
  BY <1>3, <1>4 DEF HasSum, IsSum

(* A sum is between as many times the least and as many times the greatest *)
(* of the numbers it adds up.                                              *)
LEMMA SumBounds ==
  ASSUME NEW f, NEW S, IsFiniteSet(S), \A x \in S : f[x] \in Int,
         NEW lo \in Int, NEW hi \in Int
  PROVE  /\ SumFunctionOnSet(f, S) \in Int
         /\ (\A x \in S : lo <= f[x]) => lo * Cardinality(S) <= SumFunctionOnSet(f, S)
         /\ (\A x \in S : f[x] <= hi) => SumFunctionOnSet(f, S) <= hi * Cardinality(S)
<1> DEFINE iter == CHOOSE g : IsSum(g, f, S)
           low == \A x \in S : lo <= f[x]
           high == \A x \in S : f[x] <= hi
           Fits(s) == /\ iter[s] \in Int
                      /\ low => lo * Cardinality(s) <= iter[s]
                      /\ high => iter[s] <= hi * Cardinality(s)
           Bad == {s \in SUBSET S : ~Fits(s)}
<1>1. SumFunctionOnSet(f, S) = iter[S]
  BY DEF SumFunctionOnSet, FoldFunctionOnSet, MapThenFoldSet, IsSum, Pick
<1>2. IsSum(iter, f, S)
  BY SumExists
<1>3. \A s \in SUBSET S : iter[s] = IF s = {} THEN 0 ELSE f[Pick(s)] + iter[s \ {Pick(s)}]
  <2> HIDE DEF iter
  <2> QED
    BY <1>2 DEF IsSum
<1> HIDE DEF iter
<1>4. Bad = {}
  <2> SUFFICES ASSUME Bad # {} PROVE FALSE
    OBVIOUS
  <2>1. /\ IsWellFoundedOn(StrictSubsetOrdering(S), FiniteSubsetsOf(S))
        /\ Bad \subseteq FiniteSubsetsOf(S)
    BY FS_StrictSubsetOrderingWellFounded, FS_Subset DEF FiniteSubsetsOf
  <2>2. PICK s \in Bad : \A t \in Bad : ~(<<t, s>> \in StrictSubsetOrdering(S))
    <3> HIDE DEF Bad
    <3> QED
      BY <2>1, WFMin
  <2>3. s # {}
    <3>1. iter[{}] = 0 /\ Cardinality({}) = 0
      BY <1>3, FS_EmptySet
    <3>2. Fits({})
      BY <3>1
    <3> HIDE DEF Fits
    <3> QED
      BY <3>2
  <2> DEFINE x == Pick(s)
             rest == s \ {x}
  <2>4. x \in s
    BY <2>3 DEF Pick
  <2>5. rest \in SUBSET S /\ rest # s /\ rest \subseteq s
    BY <2>4
  <2>6. Fits(rest)
    <3>1. rest \notin Bad
      BY <2>2, <2>5 DEF StrictSubsetOrdering
    <3> QED
      BY <2>5, <3>1
  <2>7. PICK k \in Nat : Cardinality(rest) = k /\ Cardinality(s) = k + 1
    <3>1. IsFiniteSet(s)
      BY FS_Subset
    <3>2. Cardinality(s) \in Nat /\ IsFiniteSet(rest) /\ Cardinality(rest) = Cardinality(s) - 1
      BY <2>4, <3>1, FS_RemoveElement, FS_CardinalityType
    <3>3. Cardinality(rest) \in Nat
      BY <3>2, FS_CardinalityType
    <3> HIDE DEF rest
    <3> QED
      BY <3>2, <3>3
  <2>8. iter[s] = f[x] + iter[rest]
    BY <1>3, <2>3
  <2> HIDE DEF x, rest
  <2>9. PICK a \in Int, b \in Int : a = f[x] /\ b = iter[rest]
    BY <2>4, <2>6
  <2>10. /\ low => lo <= a /\ lo * k <= b
         /\ high => a <= hi /\ b <= hi * k
    BY <2>4, <2>6, <2>7, <2>9
  <2> HIDE DEF low, high
  <2>11. (low => lo * (k + 1) <= a + b) /\ (high => a + b <= hi * (k + 1))
    <3>1. lo * (k + 1) = lo * k + lo /\ hi * (k + 1) = hi * k + hi
      OBVIOUS
    <3> QED
      BY <2>10, <3>1
  <2> QED
    BY <2>7, <2>8, <2>9, <2>11
<1> QED
  BY <1>1, <1>4

-----------------------------------------------------------------------------
(* Sorted lists.                                                           *)

(* Of two places that of the smaller number comes first, and among equals  *)
(* the first.                                                              *)
Before(ns, i, j) == ns[i] < ns[j] \/ (ns[i] = ns[j] /\ i <= j)

(* How many come before a place, and itself.                               *)
Rank(ns) ==
  [i \in 1 .. Len(ns) |-> Cardinality({j \in 1 .. Len(ns) : Before(ns, j, i)})]

LEMMA RankGrows ==
  ASSUME NEW ns \in Seq(Int), NEW i \in 1 .. Len(ns), NEW j \in 1 .. Len(ns),
         Before(ns, i, j), i # j
  PROVE  Rank(ns)[i] \in Nat /\ Rank(ns)[j] \in Nat /\ Rank(ns)[i] < Rank(ns)[j]
<1> DEFINE first(k) == {l \in 1 .. Len(ns) : Before(ns, l, k)}
<1>1. \A k \in 1 .. Len(ns) : ns[k] \in Int /\ k \in Int
  OBVIOUS
<1>2. first(i) \subseteq first(j)
  BY <1>1 DEF Before
<1>3. j \in first(j) /\ j \notin first(i)
  BY <1>1 DEF Before
<1>4. IsFiniteSet(first(i)) /\ IsFiniteSet(first(j))
  <2>1. IsFiniteSet(1 .. Len(ns))
    BY FS_Interval
  <2>2. first(i) \in SUBSET (1 .. Len(ns)) /\ first(j) \in SUBSET (1 .. Len(ns))
    OBVIOUS
  <2> HIDE DEF first
  <2> QED
    BY <2>1, <2>2, FS_Subset
<1> HIDE DEF first
<1>5. /\ Cardinality(first(i)) \in Nat /\ Cardinality(first(j)) \in Nat
      /\ Cardinality(first(i)) <= Cardinality(first(j))
      /\ Cardinality(first(i)) # Cardinality(first(j))
  BY <1>2, <1>3, <1>4, FS_Subset, FS_CardinalityType
<1>6. Rank(ns)[i] = Cardinality(first(i)) /\ Rank(ns)[j] = Cardinality(first(j))
  BY DEF Rank, first
<1> QED
  BY <1>5, <1>6

LEMMA RankIsBijection ==
  ASSUME NEW ns \in Seq(Int)
  PROVE  Rank(ns) \in Bijection(1 .. Len(ns), 1 .. Len(ns))
<1> DEFINE D == 1 .. Len(ns)
<1>1. IsFiniteSet(D) /\ Cardinality(D) = Len(ns) /\ Len(ns) \in Nat
  <2>1. Len(ns) \in Nat
    OBVIOUS
  <2>2. \A n \in Nat : /\ IsFiniteSet(1 .. n)
                       /\ Cardinality(1 .. n) = IF 1 > n THEN 0 ELSE n - 1 + 1
    BY ONLY FS_Interval
  <2>3. \A n \in Nat : (IF 1 > n THEN 0 ELSE n - 1 + 1) = n
    OBVIOUS
  <2> QED
    BY <2>1, <2>2, <2>3
<1>2. ASSUME NEW i \in D PROVE Rank(ns)[i] \in D
  <2> DEFINE before == {l \in D : Before(ns, l, i)}
  <2>1. ns[i] \in Int /\ i \in before
    BY DEF Before
  <2>2. before \in SUBSET D
    OBVIOUS
  <2>3. Rank(ns)[i] = Cardinality(before)
    BY DEF Rank
  <2> HIDE DEF D, before
  <2>4. IsFiniteSet(before) /\ Cardinality(before) <= Len(ns)
    BY <1>1, <2>2, FS_Subset
  <2>5. Cardinality(before) \in Nat /\ Cardinality(before) # 0
    BY <2>1, <2>4, FS_CardinalityType, FS_EmptySet
  <2> QED
    BY <1>1, <2>3, <2>4, <2>5 DEF D
<1>3. Rank(ns) \in [D -> D]
  BY <1>2 DEF Rank
<1>4. ASSUME NEW i \in D, NEW j \in D, i # j PROVE Rank(ns)[i] # Rank(ns)[j]
  <2>1. Before(ns, i, j) \/ Before(ns, j, i)
    <3>1. ns[i] \in Int /\ ns[j] \in Int
      OBVIOUS
    <3> QED
      BY <3>1 DEF Before
  <2> QED
    BY <1>4, <2>1, RankGrows
<1> HIDE DEF D
<1>5. Rank(ns) \in Injection(D, D)
  BY <1>3, <1>4 DEF Injection, IsInjective
<1>6. Rank(ns) \in Surjection(D, D)
  BY <1>1, <1>5, FS_Injection
<1> QED
  BY <1>5, <1>6 DEF Bijection, D

(* There is an order in which the numbers do not fall.                     *)
LEMMA AnOrderExists ==
  ASSUME NEW ns \in Seq(Int)
  PROVE  \E p \in Bijection(1 .. Len(ns), 1 .. Len(ns)) :
           Ascending([k \in 1 .. Len(ns) |-> ns[p[k]]])
<1> DEFINE D == 1 .. Len(ns)
           rank == Rank(ns)
           p == [k \in D |-> CHOOSE i \in D : rank[i] = k]
<1>1. /\ rank \in [D -> D]
      /\ \A i, j \in D : rank[i] = rank[j] => i = j
      /\ \A k \in D : \E i \in D : rank[i] = k
  BY RankIsBijection DEF Bijection, Injection, Surjection, IsInjective
<1> HIDE DEF rank
<1>2. \A k \in D : p[k] \in D /\ rank[p[k]] = k
  BY <1>1
<1>3. \A i \in D : rank[i] \in D /\ p[rank[i]] = i
  BY <1>1, <1>2
<1>4. p \in [D -> D]
  BY <1>2
<1>5. ASSUME NEW i \in D, NEW j \in D, i <= j PROVE ns[p[i]] <= ns[p[j]]
  <2> HIDE DEF p, D
  <2> DEFINE a == p[i]
             b == p[j]
  <2>1. a \in D /\ b \in D /\ rank[a] = i /\ rank[b] = j
    BY <1>2, <1>5
  <2> HIDE DEF a, b
  <2>2. ns[a] \in Int /\ ns[b] \in Int
    BY <2>1 DEF D
  <2>3. ASSUME ns[b] < ns[a] PROVE FALSE
    <3>1. Before(ns, b, a) /\ b # a
      BY <2>2, <2>3 DEF Before
    <3>2. i \in Int /\ j \in Int /\ j < i
      BY <2>1, <3>1, RankGrows DEF rank, D
    <3> QED
      BY <1>5, <3>2
  <2> QED
    BY <2>2, <2>3 DEF a, b
<1> HIDE DEF p
<1>6. p \in Bijection(D, D)
  <2>1. \A j, k \in D : p[j] = p[k] => j = k
    BY <1>2
  <2>2. \A i \in D : \E k \in D : p[k] = i
    BY <1>3
  <2> HIDE DEF D
  <2>3. p \in Injection(D, D)
    BY <1>4, <2>1 DEF Injection, IsInjective
  <2>4. p \in Surjection(D, D)
    BY <1>4, <2>2 DEF Surjection
  <2> QED
    BY <2>3, <2>4 DEF Bijection
<1>7. Ascending([k \in D |-> ns[p[k]]])
  <2>1. Len([k \in D |-> ns[p[k]]]) = Len(ns)
    OBVIOUS
  <2> HIDE DEF D
  <2>2. \A i, j \in 1 .. Len([k \in D |-> ns[p[k]]]) :
          i <= j => [k \in D |-> ns[p[k]]][i] <= [k \in D |-> ns[p[k]]][j]
    BY <1>5, <2>1 DEF D
  <2> QED
    BY <2>2 DEF Ascending
<1> QED
  BY <1>6, <1>7

(* What sorted(ns) is.                                                     *)
LEMMA SortedSamples ==
  ASSUME NEW ns \in Seq(Int)
  PROVE  /\ sorted(ns) \in Seq(Int) /\ Len(sorted(ns)) = Len(ns)
         /\ Ascending(sorted(ns))
         /\ \A k \in 1 .. Len(ns) : \E i \in 1 .. Len(ns) : sorted(ns)[k] = ns[i]
         /\ \A i \in 1 .. Len(ns) : \E k \in 1 .. Len(ns) : sorted(ns)[k] = ns[i]
<1> DEFINE D == 1 .. Len(ns)
<1>1. PICK p \in Bijection(D, D) : /\ Ascending([k \in D |-> ns[p[k]]])
                                   /\ sorted(ns) = [k \in D |-> ns[p[k]]]
  BY AnOrderExists DEF sorted
<1>2. p \in [D -> D] /\ \A i \in D : \E k \in D : p[k] = i
  BY DEF Bijection, Injection, Surjection
<1>3. \A i \in D : ns[i] \in Int
  OBVIOUS
<1> DEFINE sd == [k \in D |-> ns[p[k]]]
<1>4. \A k \in D : sd[k] = ns[p[k]] /\ p[k] \in D
  BY <1>2
<1>5. sd \in Seq(Int) /\ Len(sd) = Len(ns)
  <2>1. sd \in [D -> Int]
    BY <1>3, <1>4
  <2>2. Len(ns) \in Nat
    OBVIOUS
  <2> HIDE DEF sd
  <2> QED
    BY <2>1, <2>2
<1>6. \A k \in D : \E i \in D : sd[k] = ns[i]
  BY <1>4
<1>7. \A i \in D : \E k \in D : sd[k] = ns[i]
  BY <1>2, <1>4
<1>8. sorted(ns) = sd /\ Ascending(sd)
  BY <1>1
<1> HIDE DEF sd, D
<1> QED
  BY <1>5, <1>6, <1>7, <1>8 DEF D

-----------------------------------------------------------------------------
(* percentile of analyze.py.                                               *)

(* Interpolation stays between its two ends.                               *)
LEMMA BetweenStaysBetween ==
  ASSUME NEW a \in Int, NEW b \in Int, NEW f \in Int, f \in 0 .. 999, a <= b
  PROVE  /\ Between(a, b, f) \in Int
         /\ 1000 * a <= Between(a, b, f)
         /\ Between(a, b, f) <= 1000 * b
<1>1. PICK d \in Nat : b = a + d
  <2>1. b - a \in Nat /\ b = a + (b - a)
    OBVIOUS
  <2> QED
    BY <2>1
<1>2. d * f \in Nat /\ d * (1000 - f) \in Nat
  <2>1. \A x, y \in Nat : x * y \in Nat
    OBVIOUS
  <2>2. f \in Nat /\ 1000 - f \in Nat
    OBVIOUS
  <2> QED
    BY <1>1, <2>1, <2>2
<1>3. Between(a, b, f) = 1000 * a + d * f
  BY <1>1 DEF Between
<1>4. 1000 * b = 1000 * a + d * f + d * (1000 - f)
  BY <1>1
<1> QED
  BY <1>2, <1>3, <1>4

(* ... and moves towards the upper end with the fraction.                  *)
LEMMA BetweenGrows ==
  ASSUME NEW a \in Int, NEW b \in Int, a <= b,
         NEW f \in Int, NEW g \in Int, f \in 0 .. 999, g \in 0 .. 999, f <= g
  PROVE  Between(a, b, f) <= Between(a, b, g)
<1>1. PICK d \in Nat : b = a + d
  <2>1. b - a \in Nat /\ b = a + (b - a)
    OBVIOUS
  <2> QED
    BY <2>1
<1>2. PICK e \in Nat : g = f + e
  <2>1. g - f \in Nat /\ g = f + (g - f)
    OBVIOUS
  <2> QED
    BY <2>1
<1>3. d * e \in Nat
  BY <1>1, <1>2
<1>4. Between(a, b, f) = 1000 * a + d * f
  BY <1>1 DEF Between
<1>5. Between(a, b, g) = 1000 * a + d * g
  BY <1>1 DEF Between
<1>6. d * g = d * f + d * e
  BY <1>1, <1>2
<1>7. d * f \in Int /\ 1000 * a \in Int
  BY <1>1
<1> QED
  BY <1>3, <1>4, <1>5, <1>6, <1>7

(* The index splits into a place of the list and a fraction.               *)
LEMMA IndexSplits ==
  ASSUME NEW sd \in Seq(Int), sd # <<>>, NEW pct \in Thousandths
  PROVE  /\ Len(sd) \in Nat \ {0}
         /\ Index(sd, pct) \in Nat
         /\ Index(sd, pct) <= 1000 * (Len(sd) - 1)
         /\ Lower(sd, pct) \in 0 .. Len(sd) - 1
         /\ Fraction(sd, pct) \in 0 .. 999
         /\ Index(sd, pct) = 1000 * Lower(sd, pct) + Fraction(sd, pct)
<1> DEFINE m == Len(sd) - 1
           x == Index(sd, pct)
<1>1. Len(sd) \in Nat \ {0} /\ m \in Nat
  OBVIOUS
<1>2. x \in Nat /\ x <= 1000 * m
  <2>1. pct \in Nat /\ 1000 - pct \in Nat
    BY DEF Thousandths
  <2>2. pct * m \in Nat /\ (1000 - pct) * m \in Nat
    BY <1>1, <2>1
  <2>3. 1000 * m = pct * m + (1000 - pct) * m
    BY <1>1, <2>1
  <2> QED
    BY <1>1, <2>2, <2>3 DEF Index
<1> HIDE DEF x, m
<1>3. x \div 1000 \in Nat /\ x % 1000 \in 0 .. 999 /\ x = 1000 * (x \div 1000) + (x % 1000)
  BY <1>2
<1>4. x \div 1000 <= m
  BY <1>1, <1>2, <1>3
<1> QED
  BY <1>1, <1>2, <1>3, <1>4 DEF x, m, Lower, Fraction

(* A percentile lies between its lower neighbour and the upper one, and is *)
(* the last sample at the end of the list.                                 *)
LEMMA BetweenNeighbours ==
  ASSUME NEW sd \in Seq(Int), sd # <<>>, Ascending(sd), NEW pct \in Thousandths
  PROVE  LET lo == Lower(sd, pct)
         IN  /\ percentile(sd, pct) \in Int
             /\ 1000 * sd[lo + 1] <= percentile(sd, pct)
             /\ lo + 1 >= Len(sd) => percentile(sd, pct) = 1000 * sd[Len(sd)]
             /\ lo + 1 < Len(sd) =>
                  /\ percentile(sd, pct) = Between(sd[lo + 1], sd[lo + 2], Fraction(sd, pct))
                  /\ percentile(sd, pct) <= 1000 * sd[lo + 2]
<1> DEFINE lo == Lower(sd, pct)
           fr == Fraction(sd, pct)
<1>1. Len(sd) \in Nat \ {0} /\ lo \in 0 .. Len(sd) - 1 /\ fr \in 0 .. 999
  BY IndexSplits
<1>2. \A i \in 1 .. Len(sd) : sd[i] \in Int
  OBVIOUS
<1> HIDE DEF lo, fr
<1>3. CASE lo + 1 >= Len(sd)
  <2>1. lo + 1 = Len(sd)
    BY <1>1, <1>3
  <2>2. percentile(sd, pct) = 1000 * sd[Len(sd)]
    BY <1>3 DEF percentile, lo
  <2>3. sd[lo + 1] = sd[Len(sd)] /\ sd[Len(sd)] \in Int
    BY <1>1, <1>2, <2>1
  <2>4. 1000 * sd[lo + 1] <= percentile(sd, pct) /\ percentile(sd, pct) \in Int
    BY <2>2, <2>3
  <2> QED
    BY <1>3, <2>1, <2>2, <2>4 DEF lo
<1>4. CASE lo + 1 < Len(sd)
  <2>1. percentile(sd, pct) = Between(sd[lo + 1], sd[lo + 2], fr)
    <3>1. ~(lo + 1 >= Len(sd))
      BY <1>1, <1>4
    <3> QED
      BY <3>1 DEF percentile, lo, fr
  <2>2. lo + 1 \in 1 .. Len(sd) /\ lo + 2 \in 1 .. Len(sd) /\ lo + 1 <= lo + 2
    BY <1>1, <1>4
  <2>3. sd[lo + 1] \in Int /\ sd[lo + 2] \in Int /\ sd[lo + 1] <= sd[lo + 2]
    BY <1>2, <2>2 DEF Ascending
  <2>4. /\ percentile(sd, pct) \in Int
        /\ 1000 * sd[lo + 1] <= percentile(sd, pct)
        /\ percentile(sd, pct) <= 1000 * sd[lo + 2]
    <3>1. PICK a \in Int, b \in Int : a = sd[lo + 1] /\ b = sd[lo + 2]
      BY <2>3
    <3>2. a <= b
      BY <2>3, <3>1
    <3>3. /\ Between(a, b, fr) \in Int
          /\ 1000 * a <= Between(a, b, fr)
          /\ Between(a, b, fr) <= 1000 * b
      <4>1. fr \in Int /\ fr \in 0 .. 999
        BY <1>1
      <4>2. Between(a, b, fr) \in Int
        BY <3>2, <4>1, BetweenStaysBetween
      <4>3. 1000 * a <= Between(a, b, fr)
        BY <3>2, <4>1, BetweenStaysBetween
      <4>4. Between(a, b, fr) <= 1000 * b
        BY <3>2, <4>1, BetweenStaysBetween
      <4> QED
        BY <4>2, <4>3, <4>4
    <3> QED
      BY ONLY <2>1, <3>1, <3>3
  <2>5. ~(lo + 1 >= Len(sd))
    BY <1>1, <1>4
  <2> QED
    BY <2>1, <2>4, <2>5 DEF lo, fr
<1> QED
  BY <1>1, <1>3, <1>4

(* A larger percentage never gives a smaller figure: p50, p90, p99 and     *)
(* p99.9 of a report row are in order (analyze.py, 119-128).               *)
THEOREM PercentileGrows ==
  ASSUME NEW sd \in Seq(Int), sd # <<>>, Ascending(sd),
         NEW p \in Thousandths, NEW q \in Thousandths, p <= q
  PROVE  percentile(sd, p) <= percentile(sd, q)
<1> DEFINE n == Len(sd)
           lp == Lower(sd, p)
           lq == Lower(sd, q)
           fp == Fraction(sd, p)
           fq == Fraction(sd, q)
<1>1. /\ n \in Nat \ {0}
      /\ lp \in 0 .. n - 1 /\ fp \in 0 .. 999 /\ Index(sd, p) = 1000 * lp + fp
      /\ lq \in 0 .. n - 1 /\ fq \in 0 .. 999 /\ Index(sd, q) = 1000 * lq + fq
  BY IndexSplits
<1>2. Index(sd, p) <= Index(sd, q)
  <2>1. q - p \in Nat /\ Len(sd) - 1 \in Nat
    BY <1>1 DEF Thousandths
  <2>2. (q - p) * (Len(sd) - 1) \in Nat
    BY <2>1
  <2>3. q * (Len(sd) - 1) = p * (Len(sd) - 1) + (q - p) * (Len(sd) - 1)
    BY <2>1 DEF Thousandths
  <2>4. p * (Len(sd) - 1) \in Int
    BY <2>1 DEF Thousandths
  <2> QED
    BY <2>2, <2>3, <2>4 DEF Index
<1>3. \A i \in 1 .. n : sd[i] \in Int
  OBVIOUS
<1>4. /\ percentile(sd, p) \in Int
      /\ lp + 1 >= n => percentile(sd, p) = 1000 * sd[n]
      /\ lp + 1 < n =>
           /\ percentile(sd, p) = Between(sd[lp + 1], sd[lp + 2], fp)
           /\ percentile(sd, p) <= 1000 * sd[lp + 2]
  BY BetweenNeighbours
<1>5. /\ percentile(sd, q) \in Int
      /\ 1000 * sd[lq + 1] <= percentile(sd, q)
      /\ lq + 1 >= n => percentile(sd, q) = 1000 * sd[n]
      /\ lq + 1 < n => percentile(sd, q) = Between(sd[lq + 1], sd[lq + 2], fq)
  BY BetweenNeighbours
<1>6. \A i, j \in 1 .. n : i <= j => sd[i] <= sd[j]
  BY DEF Ascending
<1> HIDE DEF n, lp, lq, fp, fq
<1>7. lp <= lq
  <2>1. 1000 * lp + fp <= 1000 * lq + fq
    BY <1>1, <1>2
  <2>2. lp \in Int /\ lq \in Int /\ fp \in 0 .. 999 /\ fq \in 0 .. 999
    BY <1>1
  <2> QED
    BY ONLY <2>1, <2>2
<1>8. CASE lp = lq
  <2>1. CASE lp + 1 >= n
    BY <1>4, <1>5, <1>8, <2>1
  <2>2. CASE lp + 1 < n
    <3>1. lp + 1 \in 1 .. n /\ lp + 2 \in 1 .. n /\ lp + 1 <= lp + 2
      BY <1>1, <2>2
    <3>2. sd[lp + 1] \in Int /\ sd[lp + 2] \in Int /\ sd[lp + 1] <= sd[lp + 2]
      BY <1>3, <1>6, <3>1
    <3>3. fp <= fq
      BY <1>1, <1>2, <1>8
    <3>4. PICK a \in Int, b \in Int : a = sd[lp + 1] /\ b = sd[lp + 2]
      BY <3>2
    <3>5. a <= b
      BY <3>2, <3>4
    <3>6. Between(a, b, fp) <= Between(a, b, fq)
      <4>1. fp \in Int /\ fq \in Int /\ fp \in 0 .. 999 /\ fq \in 0 .. 999
        BY <1>1
      <4> QED
        BY <3>3, <3>5, <4>1, BetweenGrows, ZenonT(40)
    <3>7. percentile(sd, p) = Between(a, b, fp)
      BY <1>4, <2>2, <3>4
    <3>8. percentile(sd, q) = Between(a, b, fq)
      BY <1>5, <1>8, <2>2, <3>4
    <3> QED
      BY ONLY <3>6, <3>7, <3>8
  <2> QED
    BY <1>1, <2>1, <2>2
<1>9. CASE lp < lq
  <2>1. lp + 1 < n /\ lp + 2 \in 1 .. n /\ lq + 1 \in 1 .. n /\ lp + 2 <= lq + 1
    BY <1>1, <1>9
  <2>2. sd[lp + 2] \in Int /\ sd[lq + 1] \in Int /\ sd[lp + 2] <= sd[lq + 1]
    BY <1>3, <1>6, <2>1
  <2> QED
    BY <1>4, <1>5, <2>1, <2>2
<1> QED
  BY <1>1, <1>7, <1>8, <1>9

(* A percentile never leaves the samples: it is at least the least one and *)
(* at most max_ns, so interpolation invents no latency at either end.      *)
THEOREM PercentileWithinSamples ==
  ASSUME NEW sd \in Seq(Int), sd # <<>>, Ascending(sd), NEW pct \in Thousandths
  PROVE  /\ 1000 * sd[1] <= percentile(sd, pct)
         /\ percentile(sd, pct) <= 1000 * sd[Len(sd)]
<1> DEFINE n == Len(sd)
           lo == Lower(sd, pct)
<1>1. n \in Nat \ {0} /\ lo \in 0 .. n - 1
  BY IndexSplits
<1>2. /\ percentile(sd, pct) \in Int
      /\ 1000 * sd[lo + 1] <= percentile(sd, pct)
      /\ lo + 1 >= n => percentile(sd, pct) = 1000 * sd[n]
      /\ lo + 1 < n => percentile(sd, pct) <= 1000 * sd[lo + 2]
  BY BetweenNeighbours
<1>3. \A i \in 1 .. n : sd[i] \in Int
  OBVIOUS
<1>4. \A i, j \in 1 .. n : i <= j => sd[i] <= sd[j]
  BY DEF Ascending
<1> HIDE DEF n, lo
<1>5. 1000 * sd[1] <= percentile(sd, pct)
  <2>1. 1 \in 1 .. n /\ lo + 1 \in 1 .. n /\ 1 <= lo + 1
    BY <1>1
  <2>2. sd[1] \in Int /\ sd[lo + 1] \in Int /\ sd[1] <= sd[lo + 1]
    BY <1>3, <1>4, <2>1
  <2> QED
    BY <1>2, <2>2
<1>6. percentile(sd, pct) <= 1000 * sd[n]
  <2>1. CASE lo + 1 >= n
    <3>1. n \in 1 .. n /\ sd[n] \in Int
      BY <1>1, <1>3
    <3> QED
      BY <1>2, <2>1, <3>1
  <2>2. CASE lo + 1 < n
    <3>1. lo + 2 \in 1 .. n /\ n \in 1 .. n /\ lo + 2 <= n
      BY <1>1, <2>2
    <3>2. sd[lo + 2] \in Int /\ sd[n] \in Int /\ sd[lo + 2] <= sd[n]
      BY <1>3, <1>4, <3>1
    <3> QED
      BY <1>2, <2>2, <3>2
  <2> QED
    BY <1>1, <2>1, <2>2
<1> QED
  BY <1>5, <1>6 DEF n

-----------------------------------------------------------------------------
(* The result files and their report.                                      *)

(* Only a producer that sends has consumers with samples.                  *)
SamplesInv ==
  /\ lat \in [Cids -> Seq(Latencies)]
  /\ \A c \in Cids : lat[c] # <<>> => ppc = "send"

ReportInv == SamplesInv /\ EverybodyReported

LEMMA WholeFile ==
  ASSUME NEW S, NEW s \in Seq(S), s # <<>>
  PROVE  SubSeq(s, 1, Len(s)) # <<>>
<1>1. Len(s) \in Nat \ {0}
  OBVIOUS
<1>2. Len(SubSeq(s, 1, Len(s))) = Len(s)
  BY <1>1
<1> QED
  BY <1>1, <1>2

LEMMA SamplesStep ==
  ASSUME SamplesInv, Programs \/ UNCHANGED <<ppc, lat>>
  PROVE  SamplesInv'
<1>1. CASE ProducerStep
  BY <1>1 DEF ProducerStep, SamplesInv
<1>2. ASSUME NEW c \in Cids, Receive(c) PROVE SamplesInv'
  <2>1. PICK l \in Latencies :
          ppc = "send" /\ lat' = [lat EXCEPT ![c] = Append(@, l)] /\ UNCHANGED ppc
    BY <1>2 DEF Receive
  <2>2. Append(lat[c], l) \in Seq(Latencies)
    BY DEF SamplesInv
  <2> QED
    BY <2>1, <2>2 DEF SamplesInv
<1>3. CASE UNCHANGED <<ppc, lat>>
  BY <1>3 DEF SamplesInv
<1> QED
  BY <1>1, <1>2, <1>3
     DEF Programs, EndLoop, WriteLatencies, WriteThroughput, Kill

(* What the analysis makes of the files it finds at any moment.            *)
LEMMA AnalyzeReportsAll ==
  ASSUME SamplesInv, Analyze
  PROVE  EverybodyReported'
<1>1. PICK shm \in ShmTables, cut \in [Cids -> 0 .. N_MESSAGES] :
        LET bins == [c \in Cids |-> SubSeq(lat[c], 1, cut[c])]
            rows == text_report(bins)
        IN  /\ \A c \in Cids :
                 cut[c] <= Len(lat[c]) /\ (cpc[c] = "bin" \/ cut[c] = Len(lat[c]))
            /\ summary' = IF ReportFails(bins) \/ ~ShmReadable(shm)
                          THEN [NoSummary EXCEPT !.status = "failed", !.shm = shm]
                          ELSE [status |-> "written", shm |-> shm, rows |-> rows,
                                radar |-> Radar(rows, shm)]
  BY DEF Analyze
<1> DEFINE bins == [c \in Cids |-> SubSeq(lat[c], 1, cut[c])]
           rows == text_report(bins)
<1>2. UNCHANGED <<ppc, cpc, lat>>
  BY DEF Analyze
<1>3. \A c \in Cids : lat[c] # <<>> /\ cpc[c] # "bin" => bins[c] # <<>>
  <2> SUFFICES ASSUME NEW c \in Cids, lat[c] # <<>>, cpc[c] # "bin" PROVE bins[c] # <<>>
    OBVIOUS
  <2>1. cut[c] = Len(lat[c]) /\ lat[c] \in Seq(Latencies)
    BY <1>1 DEF SamplesInv
  <2> QED
    BY <2>1, WholeFile
<1> HIDE DEF bins
<1>4. CASE ReportFails(bins) \/ ~ShmReadable(shm)
  <2>1. summary' = [NoSummary EXCEPT !.status = "failed", !.shm = shm]
    BY <1>1, <1>4, Zenon DEF bins
  <2>2. summary'.status = "failed" /\ summary'.shm = shm
    BY <2>1 DEF NoSummary
  <2>3. ReportFails(bins) => Interrupted
    BY DEF ReportFails, Interrupted, Reported, HasSamples, TpUnreadable
  <2>4. ~ShmReadable(shm) => \E c \in DOMAIN shm : shm[c] = Empty
    BY DEF ShmReadable
  <2>5. Interrupted' = Interrupted
    BY <1>2 DEF Interrupted
  <2> QED
    BY <1>4, <2>2, <2>3, <2>4, <2>5 DEF EverybodyReported, Empty
<1>5. CASE ~(ReportFails(bins) \/ ~ShmReadable(shm))
  <2>1. summary' = [status |-> "written", shm |-> shm, rows |-> rows,
                    radar |-> Radar(rows, shm)]
    BY <1>1, <1>5, Zenon DEF bins
  <2>2. summary'.status = "written" /\ summary'.rows = rows
    BY <2>1
  <2>3. ASSUME NEW c \in Cids, lat[c] # <<>>, cpc[c] # "bin", \A d \in 0 .. c : cpc[d] # "recv"
        PROVE  c \in DOMAIN rows
    <3>1. ppc # "start"
      BY <2>3 DEF SamplesInv
    <3>2. c \in Reported(bins)
      BY <1>3, <2>3 DEF Reported, Reached, HasSamples
    <3> QED
      BY <3>1, <3>2 DEF text_report
  <2> HIDE DEF rows
  <2> QED
    BY <1>2, <2>2, <2>3 DEF EverybodyReported
<1> QED
  BY <1>4, <1>5

(* An analysis that fails was started while a file was half written, or    *)
(* met an shm row without a figure; one that ends has a row for everybody  *)
(* with samples, as far as the .bin files go (analyze.py, 276-331, 431).   *)
THEOREM NobodyLeftOut == Spec => []EverybodyReported
<1>1. Init => ReportInv
  BY DEF Init, NoSummary, ReportInv, SamplesInv, EverybodyReported
<1>2. ReportInv /\ [Next]_vars => ReportInv'
  <2> SUFFICES ASSUME ReportInv, [Next]_vars PROVE ReportInv'
    OBVIOUS
  <2>1. SamplesInv
    BY DEF ReportInv
  <2>2. SamplesInv'
    <3>1. Programs \/ UNCHANGED <<ppc, lat>>
      BY DEF Next, Analyze, vars
    <3> QED
      BY <2>1, <3>1, SamplesStep
  <2>3. CASE Next /\ Programs
    <3>1. summary'.status = "none"
      BY <2>3 DEF Next, Programs, NoSummary
    <3> QED
      BY <2>2, <3>1 DEF ReportInv, EverybodyReported
  <2>4. CASE Analyze
    BY <2>1, <2>2, <2>4, AnalyzeReportsAll DEF ReportInv
  <2>5. CASE UNCHANGED vars
    <3>1. UNCHANGED <<ppc, cpc, lat, summary>>
      BY <2>5 DEF vars
    <3> QED
      BY <2>2, <3>1 DEF ReportInv, EverybodyReported, Interrupted
  <2> QED
    BY <2>3, <2>4, <2>5 DEF Next
<1>3. ReportInv => EverybodyReported
  BY DEF ReportInv
<1> QED
  BY <1>1, <1>2, <1>3, PTL DEF Spec

-----------------------------------------------------------------------------
(* The figures of a row.                                                   *)

LEMMA FiguresInOrder ==
  ASSUME NEW sd \in Seq(Int), sd # <<>>, Ascending(sd)
  PROVE  /\ percentile(sd, 500) \in Int /\ 1000 * sd[1] <= percentile(sd, 500)
         /\ percentile(sd, 500) <= percentile(sd, 900)
         /\ percentile(sd, 900) <= percentile(sd, 990)
         /\ percentile(sd, 990) <= percentile(sd, 999)
         /\ percentile(sd, 999) <= 1000 * sd[Len(sd)]
<1>1. /\ 500 \in Thousandths /\ 900 \in Thousandths /\ 990 \in Thousandths /\ 999 \in Thousandths
      /\ 500 <= 900 /\ 900 <= 990 /\ 990 <= 999
  BY DEF Thousandths
<1>2. percentile(sd, 500) \in Int
  BY <1>1, BetweenNeighbours
<1>3. 1000 * sd[1] <= percentile(sd, 500) /\ percentile(sd, 999) <= 1000 * sd[Len(sd)]
  BY <1>1, PercentileWithinSamples
<1>4. percentile(sd, 500) <= percentile(sd, 900)
  BY <1>1, PercentileGrows
<1>5. percentile(sd, 900) <= percentile(sd, 990)
  BY <1>1, PercentileGrows
<1>6. percentile(sd, 990) <= percentile(sd, 999)
  BY <1>1, PercentileGrows
<1> QED
  BY <1>2, <1>3, <1>4, <1>5, <1>6

LEMMA LastIsLargest ==
  ASSUME NEW sd \in Seq(Int), Ascending(sd), NEW k \in 1 .. Len(sd)
  PROVE  sd[k] \in Int /\ sd[k] <= sd[Len(sd)]
<1>1. Len(sd) \in 1 .. Len(sd) /\ k <= Len(sd)
  OBVIOUS
<1> QED
  BY <1>1 DEF Ascending

LEMMA GreatestNumber ==
  ASSUME NEW b \in Nat, NEW S \in SUBSET (0 .. b), S # {}
  PROVE  Max(S) \in S /\ \A x \in S : x <= Max(S)
<1> DEFINE T == {b - x : x \in S}
<1>1. T \in SUBSET Nat /\ T # {}
  <2>1. \A x \in S : b - x \in Nat
    OBVIOUS
  <2>2. \A t \in T : t \in Nat
    BY <2>1
  <2> QED
    BY <2>2
<1>2. PICK t \in T : \A u \in T : t <= u
  BY <1>1, LeastNumber
<1>3. PICK m \in S : t = b - m
  BY <1>2
<1>4. \A x \in S : m >= x
  <2> SUFFICES ASSUME NEW x \in S PROVE m >= x
    OBVIOUS
  <2>1. t <= b - x
    BY <1>2
  <2> QED
    BY <1>3, <2>1
<1>5. Max(S) \in S /\ \A x \in S : Max(S) >= x
  BY <1>3, <1>4 DEF Max
<1> QED
  BY <1>5

LEMMA LatenciesAreNumbers ==
  ASSUME NEW s \in Seq(Latencies)
  PROVE  \A i \in 1 .. Len(s) : s[i] \in Nat /\ s[i] # 0
<1>1. \A i \in 1 .. Len(s) : s[i] \in Latencies
  OBVIOUS
<1>2. \A x \in Latencies : x \in Nat /\ x # 0
  BY ReportAssumption
<1> QED
  BY <1>1, <1>2

LEMMA LeastSample ==
  ASSUME NEW s \in Seq(Latencies), s # <<>>
  PROVE  /\ Min(ToSet(s)) \in Nat /\ Min(ToSet(s)) \in Latencies
         /\ \A i \in 1 .. Len(s) : Min(ToSet(s)) <= s[i]
<1>1. /\ ToSet(s) \in SUBSET Nat /\ ToSet(s) \subseteq Latencies /\ ToSet(s) # {}
      /\ \A i \in 1 .. Len(s) : s[i] \in ToSet(s)
  <2>1. DOMAIN s = 1 .. Len(s) /\ 1 \in 1 .. Len(s)
    OBVIOUS
  <2>2. \A i \in 1 .. Len(s) : s[i] \in Nat
    BY LatenciesAreNumbers
  <2>3. \A i \in 1 .. Len(s) : s[i] \in Latencies
    OBVIOUS
  <2> QED
    BY <2>1, <2>2, <2>3 DEF ToSet
<1>2. \E n \in ToSet(s) : \A m \in ToSet(s) : n <= m
  BY <1>1, LeastNumber
<1>3. Min(ToSet(s)) \in ToSet(s) /\ \A m \in ToSet(s) : Min(ToSet(s)) <= m
  BY <1>2 DEF Min
<1> QED
  BY <1>1, <1>3

LEMMA LeastLatency ==
  ASSUME NEW l \in Latencies
  PROVE  Min(Latencies) \in Nat /\ Min(Latencies) # 0 /\ Min(Latencies) <= l /\ l \in Nat
<1>1. Latencies \in SUBSET Nat /\ Latencies # {} /\ 0 \notin Latencies
  BY ReportAssumption
<1>2. \E n \in Latencies : \A m \in Latencies : n <= m
  BY <1>1, LeastNumber
<1>3. Min(Latencies) \in Latencies /\ \A m \in Latencies : Min(Latencies) <= m
  BY <1>2 DEF Min
<1> QED
  BY <1>1, <1>3

(* A mean of figures none of which is missing is not below the least.      *)
LEMMA MeanIsLarge ==
  ASSUME NEW f, IsFiniteSet(DOMAIN f), NEW lo \in Int,
         \A c \in DOMAIN f : f[c] \in Int,
         \A c \in DOMAIN f : lo <= f[c],
         \A c \in DOMAIN f : f[c] # Empty
  PROVE  Mean(f).n = Cardinality(DOMAIN f) /\ Mean(f).sum >= lo * Mean(f).n
<1>1. {c \in DOMAIN f : f[c] # Empty} = DOMAIN f
  OBVIOUS
<1>2. Mean(f) = [sum |-> SumFunctionOnSet(f, DOMAIN f), n |-> Cardinality(DOMAIN f)]
  BY <1>1 DEF Mean
<1>3. /\ SumFunctionOnSet(f, DOMAIN f) \in Int
      /\ lo * Cardinality(DOMAIN f) <= SumFunctionOnSet(f, DOMAIN f)
  BY SumBounds
<1>4. PICK k \in Nat, t \in Int : k = Cardinality(DOMAIN f) /\ t = SumFunctionOnSet(f, DOMAIN f)
  BY <1>3, FS_CardinalityType
<1>5. t >= lo * k
  BY <1>3, <1>4
<1> QED
  BY <1>2, <1>4, <1>5

(* Between samples of a range there is no step larger than it.             *)
LEMMA JitterWithinRange ==
  ASSUME NEW ns \in Seq(Nat), ns # <<>>, NEW lo \in Nat, NEW hi \in Nat,
         \A i \in 1 .. Len(ns) : lo <= ns[i] /\ ns[i] <= hi
  PROVE  LET steps == jitter(ns)
             most == Max(ToSet(steps) \cup {0})
         IN  /\ most \in Nat /\ most <= hi - lo
             /\ SumFunction(steps) \in Nat
             /\ SumFunction(steps) <= (Len(ns) - 1) * most
<1> DEFINE steps == jitter(ns)
           most == Max(ToSet(steps) \cup {0})
           D == 1 .. Len(ns) - 1
<1>1. PICK n \in Nat : Len(ns) = n + 1
  <2>1. Len(ns) \in Nat /\ Len(ns) # 0
    OBVIOUS
  <2> QED
    BY <2>1
<1>2. ASSUME NEW k \in D PROVE steps[k] \in 0 .. hi - lo
  <2>1. k \in 1 .. Len(ns) /\ k + 1 \in 1 .. Len(ns)
    BY <1>1
  <2>2. PICK a \in Nat, b \in Nat : a = ns[k + 1] /\ b = ns[k]
    BY <2>1
  <2>3. lo <= a /\ a <= hi /\ lo <= b /\ b <= hi
    BY <2>1, <2>2
  <2>4. steps[k] = abs(a, b)
    BY <2>2 DEF jitter
  <2> QED
    BY <2>3, <2>4 DEF abs
<1>3. DOMAIN steps = D
  BY DEF jitter
<1>4. hi - lo \in Nat
  <2>1. 1 \in 1 .. Len(ns) /\ ns[1] \in Nat
    BY <1>1
  <2> QED
    BY <2>1
<1> DEFINE S == ToSet(steps) \cup {0}
<1> HIDE DEF steps
<1>5. S \in SUBSET (0 .. hi - lo) /\ S # {} /\ \A k \in D : steps[k] \in S
  <2>1. ToSet(steps) = {steps[k] : k \in D}
    BY <1>3 DEF ToSet
  <2>2. 0 \in 0 .. hi - lo
    BY <1>4
  <2> HIDE DEF D
  <2> QED
    BY <1>2, <2>1, <2>2
<1> HIDE DEF S
<1>6. most \in 0 .. hi - lo /\ \A k \in D : steps[k] <= most
  <2>1. Max(S) \in S /\ \A x \in S : x <= Max(S)
    BY <1>4, <1>5, GreatestNumber
  <2> QED
    BY <1>5, <2>1 DEF S
<1> HIDE DEF most
<1>7. IsFiniteSet(D) /\ Cardinality(D) = n
  <2>1. /\ IsFiniteSet(1 .. n)
        /\ Cardinality(1 .. n) = IF 1 > n THEN 0 ELSE n - 1 + 1
    BY FS_Interval
  <2>2. D = 1 .. n /\ (IF 1 > n THEN 0 ELSE n - 1 + 1) = n
    BY <1>1
  <2> QED
    BY <2>1, <2>2
<1>8. /\ \A k \in D : steps[k] \in Int
      /\ \A k \in D : 0 <= steps[k]
      /\ \A k \in D : steps[k] <= most
      /\ most \in Int /\ 0 \in Int
  BY <1>2, <1>4, <1>6
<1> HIDE DEF D
<1>9. /\ SumFunctionOnSet(steps, D) \in Int
      /\ 0 * n <= SumFunctionOnSet(steps, D)
      /\ SumFunctionOnSet(steps, D) <= most * n
  <2>1. /\ SumFunctionOnSet(steps, D) \in Int
        /\ 0 * Cardinality(D) <= SumFunctionOnSet(steps, D)
        /\ SumFunctionOnSet(steps, D) <= most * Cardinality(D)
    BY <1>7, <1>8, SumBounds
  <2> QED
    BY <1>7, <2>1
<1>10. SumFunction(steps) = SumFunctionOnSet(steps, D)
  BY <1>3 DEF SumFunction
<1>11. 0 * n = 0 /\ most * n = n * most /\ Len(ns) - 1 = n
  BY <1>1, <1>6
<1>12. most \in Nat /\ most <= hi - lo
  BY <1>4, <1>6
<1> QED
  BY <1>9, <1>10, <1>11, <1>12 DEF steps, most

(* The figures of the row of a consumer of which ns has been read.         *)
RowIsTrue(c, ns) ==
  LET r == Row(c, ns)
      least == Min(ToSet(lat[c]))
  IN  /\ 1000 * least <= r.p50
      /\ r.p50 <= r.p90 /\ r.p90 <= r.p99 /\ r.p99 <= r.p999 /\ r.p999 <= r.max
      /\ r.max_jitter <= r.max \div 1000 - least
      /\ 0 <= r.total_jitter /\ r.total_jitter <= (r.n_samples - 1) * r.max_jitter
      /\ r.loss # Empty => r.loss + r.n_samples = N_MESSAGES
      /\ r.mps.per > 0
      /\ r.mps.n > 0 <=> TpThere(c) /\ s2_ns[c] > s1_ns

TimesInv == now \in Nat /\ s1_ns \in Nat /\ s2_ns \in [Cids -> Nat]

LEMMA RowTrue ==
  ASSUME NEW c \in Cids, SamplesInv, TimesInv, NEW n \in 1 .. Len(lat[c]),
         TpThere(c) => n = Len(lat[c])
  PROVE  RowIsTrue(c, SubSeq(lat[c], 1, n)) /\ Row(c, SubSeq(lat[c], 1, n)).p50 \in Int
<1> DEFINE s == lat[c]
           ns == SubSeq(s, 1, n)
           sd == sorted(ns)
           r == Row(c, ns)
           least == Min(ToSet(s))
<1>1. s \in Seq(Latencies) /\ s # <<>> /\ Len(s) \in Nat
  BY DEF SamplesInv
<1>2. /\ ns \in Seq(Nat) /\ ns \in Seq(Int) /\ Len(ns) = n /\ ns # <<>>
      /\ \A i \in 1 .. n : ns[i] = s[i]
  <2>1. \A i \in 1 .. Len(s) : s[i] \in Nat
    BY <1>1, LatenciesAreNumbers
  <2>2. Len(ns) = n /\ \A i \in 1 .. n : ns[i] = s[i]
    BY <1>1
  <2>3. ns = [i \in 1 .. n |-> s[i]] /\ n \in Nat
    BY <1>1, <2>2
  <2> HIDE DEF ns, s
  <2>4. [i \in 1 .. n |-> s[i]] \in [1 .. n -> Nat] /\ [i \in 1 .. n |-> s[i]] \in [1 .. n -> Int]
    <3>1. \A i \in 1 .. n : i \in 1 .. Len(s)
      BY <1>1 DEF s
    <3>2. \A i \in 1 .. n : s[i] \in Nat /\ s[i] \in Int
      BY <2>1, <3>1
    <3> QED
      BY <3>2
  <2>5. [i \in 1 .. n |-> s[i]] \in Seq(Nat) /\ [i \in 1 .. n |-> s[i]] \in Seq(Int)
    BY <2>3, <2>4
  <2>6. n # 0
    OBVIOUS
  <2> QED
    BY <2>2, <2>3, <2>5, <2>6
<1>3. least \in Nat /\ \A i \in 1 .. n : least <= ns[i] /\ ns[i] \in Nat
  <2>1. least \in Nat /\ \A i \in 1 .. Len(s) : least <= s[i]
    BY <1>1, LeastSample
  <2> HIDE DEF least
  <2> QED
    BY <1>1, <1>2, <2>1
<1> HIDE DEF s, ns, least
<1>4. /\ sd \in Seq(Int) /\ Len(sd) = n /\ Ascending(sd) /\ sd # <<>>
      /\ \A k \in 1 .. n : \E i \in 1 .. n : sd[k] = ns[i]
      /\ \A i \in 1 .. n : \E k \in 1 .. n : sd[k] = ns[i]
  <2>1. /\ sd \in Seq(Int) /\ Len(sd) = Len(ns) /\ Ascending(sd)
        /\ \A k \in 1 .. Len(ns) : \E i \in 1 .. Len(ns) : sd[k] = ns[i]
        /\ \A i \in 1 .. Len(ns) : \E k \in 1 .. Len(ns) : sd[k] = ns[i]
    BY <1>2, SortedSamples
  <2> HIDE DEF sd
  <2>2. n # 0
    OBVIOUS
  <2>3. sd # <<>>
    BY <1>2, <2>1, <2>2
  <2> QED
    BY <1>2, <2>1, <2>3
<1>5. /\ r.p50 = percentile(sd, 500) /\ r.p90 = percentile(sd, 900)
      /\ r.p99 = percentile(sd, 990) /\ r.p999 = percentile(sd, 999)
      /\ r.max = 1000 * sd[n] /\ r.n_samples = n
      /\ r.total_jitter = SumFunction(jitter(ns))
      /\ r.max_jitter = Max(ToSet(jitter(ns)) \cup {0})
      /\ r.mps = IF TpThere(c) THEN mps(Len(lat[c]), s2_ns[c] - s1_ns) ELSE NoRate
      /\ r.loss = IF TpThere(c) THEN N_MESSAGES - Len(lat[c]) ELSE Empty
  BY <1>2 DEF Row
<1> HIDE DEF sd, r
<1>6. PICK hi \in Nat : hi = sd[n] /\ \A i \in 1 .. n : ns[i] <= hi
  <2>1. n \in 1 .. n /\ sd[n] \in Nat
    <3>1. n \in 1 .. n
      BY <1>1 DEF s
    <3> QED
      BY <1>3, <1>4, <3>1
  <2>2. ASSUME NEW i \in 1 .. n PROVE ns[i] <= sd[n]
    <3>1. PICK k \in 1 .. n : sd[k] = ns[i]
      BY <1>4
    <3>2. sd[k] <= sd[n]
      <4>1. sd \in Seq(Int) /\ Ascending(sd) /\ Len(sd) = n
        BY <1>4
      <4>2. k \in 1 .. Len(sd)
        BY <4>1
      <4> QED
        BY ONLY <4>1, <4>2, LastIsLargest
    <3> QED
      BY <3>1, <3>2
  <2> QED
    BY <2>1, <2>2
<1>7. /\ r.p50 \in Int /\ 1000 * sd[1] <= r.p50
      /\ r.p50 <= r.p90 /\ r.p90 <= r.p99 /\ r.p99 <= r.p999 /\ r.p999 <= r.max
  <2>1. sd \in Seq(Int) /\ sd # <<>> /\ Ascending(sd)
    BY <1>4
  <2>2. /\ percentile(sd, 500) \in Int /\ 1000 * sd[1] <= percentile(sd, 500)
        /\ percentile(sd, 500) <= percentile(sd, 900)
        /\ percentile(sd, 900) <= percentile(sd, 990)
        /\ percentile(sd, 990) <= percentile(sd, 999)
        /\ percentile(sd, 999) <= 1000 * sd[Len(sd)]
    BY ONLY <2>1, FiguresInOrder
  <2>3. /\ r.p50 = percentile(sd, 500) /\ r.p90 = percentile(sd, 900)
        /\ r.p99 = percentile(sd, 990) /\ r.p999 = percentile(sd, 999)
    BY <1>5
  <2>4. r.max = 1000 * sd[Len(sd)]
    <3>1. Len(sd) = n
      BY <1>4
    <3>2. r.max = 1000 * sd[n]
      BY <1>5
    <3> QED
      BY <3>1, <3>2
  <2> QED
    BY <2>2, <2>3, <2>4
<1>8. 1000 * least <= r.p50
  <2>1. 1 \in 1 .. n
    OBVIOUS
  <2>2. sd[1] \in Nat /\ least <= sd[1]
    BY <1>3, <1>4, <2>1
  <2> QED
    BY <1>3, <1>7, <2>2
<1>9. /\ r.max_jitter \in Nat /\ r.max_jitter <= hi - least
       /\ 0 <= r.total_jitter /\ r.total_jitter <= (r.n_samples - 1) * r.max_jitter
  <2>1. \A i \in 1 .. Len(ns) : least <= ns[i] /\ ns[i] <= hi
    BY <1>2, <1>3, <1>6
  <2>2. /\ Max(ToSet(jitter(ns)) \cup {0}) \in Nat
        /\ Max(ToSet(jitter(ns)) \cup {0}) <= hi - least
        /\ SumFunction(jitter(ns)) \in Nat
        /\ SumFunction(jitter(ns)) <= (Len(ns) - 1) * Max(ToSet(jitter(ns)) \cup {0})
    <3>1. ns \in Seq(Nat) /\ ns # <<>> /\ least \in Nat /\ hi \in Nat
      BY <1>2, <1>3
    <3> QED
      BY <2>1, <3>1, JitterWithinRange, Zenon
  <2>3. 0 <= SumFunction(jitter(ns))
    BY <2>2
  <2>4. /\ r.n_samples = Len(ns) /\ r.total_jitter = SumFunction(jitter(ns))
        /\ r.max_jitter = Max(ToSet(jitter(ns)) \cup {0})
    BY <1>2, <1>5
  <2> QED
    BY <2>2, <2>3, <2>4, Zenon
<1>10. r.max_jitter <= r.max \div 1000 - least
  <2>1. (1000 * hi) \div 1000 = hi
    OBVIOUS
  <2> QED
    BY <1>5, <1>6, <1>9, <2>1
<1>11. r.loss # Empty => r.loss + r.n_samples = N_MESSAGES
  BY <1>1, <1>5, ReportAssumption DEF s
<1>12. r.mps.per > 0 /\ (r.mps.n > 0 <=> TpThere(c) /\ s2_ns[c] > s1_ns)
  <2>1. PICK a \in Nat, b \in Nat : a = s2_ns[c] /\ b = s1_ns
    BY DEF TimesInv
  <2>2. Len(lat[c]) \in Nat /\ Len(lat[c]) > 0
    BY <1>1 DEF s
  <2>3. a - b > 0 <=> a > b
    BY <2>1
  <2>4. mps(Len(lat[c]), a - b) = IF a > b THEN [n |-> Len(lat[c]), per |-> a - b] ELSE NoRate
    BY <2>3 DEF mps, Measurable
  <2>5. CASE TpThere(c) /\ a > b
    BY <1>5, <2>1, <2>2, <2>3, <2>4, <2>5
  <2>6. CASE ~(TpThere(c) /\ a > b)
    <3>1. r.mps = NoRate
      BY <1>5, <2>1, <2>4, <2>6
    <3> QED
      BY <2>1, <2>6, <3>1 DEF NoRate
  <2> QED
    BY <2>5, <2>6
<1> QED
  BY <1>7, <1>8, <1>9, <1>10, <1>11, <1>12 DEF RowIsTrue, r, least, ns, s

(* What the analysis finds: rows of consumers it has read, and a radar     *)
(* only if no figure of shm is missing.                                    *)
LEMMA AnalysisFinds ==
  ASSUME SamplesInv, TimesInv, Analyze
  PROVE  \E shm, bins :
           /\ shm \in ShmTables
           /\ DOMAIN summary'.rows \subseteq Cids
           /\ \A c \in DOMAIN summary'.rows :
                /\ summary'.rows[c] = Row(c, bins[c])
                /\ RowIsTrue(c, bins[c]) /\ Row(c, bins[c]).p50 \in Int
                /\ lat[c] # <<>>
           /\ summary'.radar # <<>> =>
                /\ ShmReadable(shm) /\ summary'.shm = shm
                /\ Drawn(summary'.rows, shm) /\ summary'.radar = Radar(summary'.rows, shm)
<1>1. PICK shm \in ShmTables, cut \in [Cids -> 0 .. N_MESSAGES] :
        LET bins == [c \in Cids |-> SubSeq(lat[c], 1, cut[c])]
            rows == text_report(bins)
        IN  /\ \A c \in Cids :
                 cut[c] <= Len(lat[c]) /\ (cpc[c] = "bin" \/ cut[c] = Len(lat[c]))
            /\ summary' = IF ReportFails(bins) \/ ~ShmReadable(shm)
                          THEN [NoSummary EXCEPT !.status = "failed", !.shm = shm]
                          ELSE [status |-> "written", shm |-> shm, rows |-> rows,
                                radar |-> Radar(rows, shm)]
  BY DEF Analyze
<1> DEFINE bins == [c \in Cids |-> SubSeq(lat[c], 1, cut[c])]
           rows == text_report(bins)
<1>2. ASSUME NEW c \in Reported(bins)
      PROVE  /\ c \in Cids /\ lat[c] # <<>>
             /\ RowIsTrue(c, bins[c]) /\ Row(c, bins[c]).p50 \in Int
  <2>1. c \in Cids /\ bins[c] # <<>> /\ bins[c] = SubSeq(lat[c], 1, cut[c])
    BY <1>2 DEF Reported, HasSamples
  <2>2. lat[c] \in Seq(Latencies) /\ cut[c] \in Nat /\ cut[c] <= Len(lat[c])
    BY <1>1, <2>1 DEF SamplesInv
  <2>3. cut[c] # 0
    <3>1. SubSeq(lat[c], 1, 0) = <<>>
      BY <2>2
    <3> QED
      BY <2>1, <3>1
  <2>4. cut[c] \in 1 .. Len(lat[c])
    BY <2>2, <2>3
  <2>5. TpThere(c) => cut[c] = Len(lat[c])
    BY <1>1, <2>1 DEF TpThere
  <2>6. lat[c] # <<>>
    BY <2>4
  <2> QED
    BY <2>1, <2>4, <2>5, <2>6, RowTrue
<1>3. DOMAIN rows \subseteq Reported(bins) /\ \A c \in DOMAIN rows : rows[c] = Row(c, bins[c])
  BY DEF text_report
<1>4. CASE ReportFails(bins) \/ ~ShmReadable(shm)
  <2>1. summary' = [NoSummary EXCEPT !.status = "failed", !.shm = shm]
    BY <1>1, <1>4, Zenon
  <2>2. DOMAIN summary'.rows = {} /\ summary'.radar = <<>>
    BY <2>1 DEF NoSummary
  <2> QED
    BY <2>2
<1>5. CASE ~(ReportFails(bins) \/ ~ShmReadable(shm))
  <2>1. summary' = [status |-> "written", shm |-> shm, rows |-> rows,
                    radar |-> Radar(rows, shm)]
    BY <1>1, <1>5, Zenon
  <2>2. /\ summary'.rows = rows /\ summary'.shm = shm
        /\ summary'.radar = Radar(rows, shm)
    BY <2>1
  <2>3. summary'.radar # <<>> => Drawn(rows, shm)
    BY <2>2 DEF Radar
  <2>4. Reported(bins) \subseteq Cids
    BY DEF Reported
  <2> HIDE DEF bins, rows
  <2>5. \A c \in DOMAIN rows : /\ rows[c] = Row(c, bins[c])
                               /\ RowIsTrue(c, bins[c]) /\ Row(c, bins[c]).p50 \in Int
                               /\ lat[c] # <<>>
    BY <1>2, <1>3
  <2>6. DOMAIN rows \subseteq Cids
    BY <1>3, <2>4
  <2> QED
    BY <1>5, <2>2, <2>3, <2>5, <2>6
<1> QED
  BY <1>4, <1>5

(* Times are set, and never taken back.                                    *)
LEMMA TimesStep ==
  ASSUME TimesInv, Programs \/ UNCHANGED <<now, s1_ns, s2_ns>>
  PROVE  TimesInv'
<1>1. CASE ProducerStep
  BY <1>1 DEF ProducerStep, TimesInv
<1>2. ASSUME NEW c \in Cids, EndLoop(c) PROVE TimesInv'
  BY <1>2 DEF EndLoop, TimesInv
<1>3. CASE UNCHANGED <<now, s1_ns, s2_ns>>
  BY <1>3 DEF TimesInv
<1> QED
  BY <1>1, <1>2, <1>3 DEF Programs, Receive, WriteLatencies, WriteThroughput, Kill

RowsInv == SamplesInv /\ TimesInv /\ RowsAreTrue /\ RadarIsHonest

LEMMA AnalyzeRowsTrue ==
  ASSUME SamplesInv, TimesInv, Analyze
  PROVE  RowsAreTrue'
<1>1. PICK shm, bins :
        /\ shm \in ShmTables
        /\ DOMAIN summary'.rows \subseteq Cids
        /\ \A c \in DOMAIN summary'.rows :
             summary'.rows[c] = Row(c, bins[c]) /\ RowIsTrue(c, bins[c])
  BY AnalysisFinds
<1>2. UNCHANGED <<ppc, s1_ns, cpc, lat, s2_ns>>
  BY DEF Analyze
<1>3. \A c : TpThere(c)' <=> TpThere(c)
  BY <1>2 DEF TpThere
<1> QED
  BY <1>1, <1>2, <1>3 DEF RowsAreTrue, RowIsTrue

LEMMA AnalyzeRadarHonest ==
  ASSUME SamplesInv, TimesInv, Analyze
  PROVE  RadarIsHonest'
<1> SUFFICES ASSUME summary'.radar # <<>> PROVE RadarIsHonest'
  BY DEF RadarIsHonest
<1> DEFINE least == Min(Latencies)
           rows == summary'.rows
<1>1. PICK shm, bins :
        /\ shm \in ShmTables
        /\ DOMAIN rows \subseteq Cids
        /\ \A c \in DOMAIN rows : /\ rows[c] = Row(c, bins[c])
                                  /\ RowIsTrue(c, bins[c]) /\ Row(c, bins[c]).p50 \in Int
                                  /\ lat[c] # <<>>
        /\ ShmReadable(shm) /\ summary'.shm = shm
        /\ Drawn(rows, shm) /\ summary'.radar = Radar(rows, shm)
  BY AnalysisFinds
<1> DEFINE p50s == [c \in DOMAIN rows |-> rows[c].p50]
<1>2. /\ summary'.radar.raw = Mean(p50s)
      /\ summary'.radar.shm = Mean(shm)
  BY <1>1 DEF Radar
<1> HIDE DEF rows
<1>3. \A c \in DOMAIN rows :
        /\ least \in Nat /\ least # 0
        /\ Min(ToSet(lat[c])) \in Nat /\ least <= Min(ToSet(lat[c]))
  <2> SUFFICES ASSUME NEW c \in DOMAIN rows
               PROVE  /\ least \in Nat /\ least # 0
                      /\ Min(ToSet(lat[c])) \in Nat /\ least <= Min(ToSet(lat[c]))
    OBVIOUS
  <2>1. lat[c] \in Seq(Latencies) /\ lat[c] # <<>>
    BY <1>1 DEF SamplesInv
  <2>2. Min(ToSet(lat[c])) \in Nat /\ Min(ToSet(lat[c])) \in Latencies
    BY <2>1, LeastSample
  <2> QED
    BY <2>2, LeastLatency
<1>4. least \in Nat /\ least # 0
  BY <1>1, <1>3 DEF Drawn
<1> HIDE DEF least
<1>5. \A c \in DOMAIN p50s : p50s[c] \in Int /\ 1000 * least <= p50s[c] /\ p50s[c] # Empty
  <2> SUFFICES ASSUME NEW c \in DOMAIN rows
               PROVE  /\ rows[c].p50 \in Int /\ 1000 * least <= rows[c].p50
                      /\ rows[c].p50 # Empty
    OBVIOUS
  <2>1. rows[c].p50 \in Int /\ 1000 * Min(ToSet(lat[c])) <= rows[c].p50
    BY <1>1 DEF RowIsTrue
  <2> QED
    BY <1>3, <1>4, <2>1 DEF Empty
<1>6. IsFiniteSet(DOMAIN p50s) /\ DOMAIN p50s = DOMAIN rows
  <2>1. IsFiniteSet(Cids)
    BY ReportAssumption
  <2> QED
    BY <1>1, <2>1, FS_Subset
<1>7. /\ DOMAIN shm \subseteq Cids /\ IsFiniteSet(DOMAIN shm)
      /\ \A c \in DOMAIN shm : shm[c] \in Latencies /\ shm[c] # Empty
  <2>1. PICK d \in SUBSET Cids : shm \in [d -> Latencies \cup {Empty}]
    <3>1. shm \in UNION {[d -> Latencies \cup {Empty}] : d \in SUBSET Cids}
      BY <1>1 DEF ShmTables
    <3> QED
      BY <3>1, Zenon
  <2>2. \A c \in DOMAIN shm : shm[c] # Empty
    BY <1>1 DEF ShmReadable
  <2>3. IsFiniteSet(d)
    BY <2>1, ReportAssumption, FS_Subset
  <2> QED
    BY <2>1, <2>2, <2>3
<1>8. \A c \in DOMAIN shm : shm[c] \in Int /\ least <= shm[c]
  BY <1>7, LeastLatency DEF least
<1> HIDE DEF p50s
<1>9. /\ Mean(p50s).n = Cardinality(DOMAIN rows)
      /\ Mean(p50s).sum >= 1000 * least * Mean(p50s).n
  BY <1>4, <1>5, <1>6, MeanIsLarge
<1>10. /\ Mean(shm).n = Cardinality(DOMAIN shm)
       /\ Mean(shm).sum >= least * Mean(shm).n
  BY <1>4, <1>7, <1>8, MeanIsLarge
<1> QED
  BY <1>1, <1>2, <1>9, <1>10 DEF RadarIsHonest, rows, least

LEMMA RowsStep ==
  ASSUME RowsInv, [Next]_vars
  PROVE  RowsInv'
<1>1. SamplesInv /\ TimesInv
  BY DEF RowsInv
<1>2. SamplesInv' /\ TimesInv'
  <2>1. Programs \/ UNCHANGED <<ppc, lat>>
    BY DEF Next, Analyze, vars
  <2>2. Programs \/ UNCHANGED <<now, s1_ns, s2_ns>>
    BY DEF Next, Analyze, vars
  <2> QED
    BY <1>1, <2>1, <2>2, SamplesStep, TimesStep
<1>3. CASE Next /\ Programs
  <2>1. DOMAIN summary'.rows = {} /\ summary'.radar = <<>>
    BY <1>3 DEF Next, Programs, NoSummary
  <2> QED
    BY <1>2, <2>1 DEF RowsInv, RowsAreTrue, RadarIsHonest
<1>4. CASE Analyze
  BY <1>1, <1>2, <1>4, AnalyzeRowsTrue, AnalyzeRadarHonest DEF RowsInv
<1>5. CASE UNCHANGED vars
  BY <1>2, <1>5 DEF RowsInv, RowsAreTrue, RadarIsHonest, TpThere, vars
<1> QED
  BY <1>3, <1>4, <1>5 DEF Next

(* The figures of a row fit together and fit what the consumer saw         *)
(* (analyze.py, 173-183 and 288-307).                                      *)
THEOREM FiguresFit == Spec => []RowsAreTrue
<1>1. Init => RowsInv
  BY DEF Init, NoSummary, RowsInv, SamplesInv, TimesInv, RowsAreTrue, RadarIsHonest
<1>2. RowsInv /\ [Next]_vars => RowsInv'
  BY RowsStep
<1>3. RowsInv => RowsAreTrue
  BY DEF RowsInv
<1> QED
  BY <1>1, <1>2, <1>3, PTL DEF Spec

(* The radar takes no missing figure for a good one, and its latencies are *)
(* means over all rows (analyze.py, 236-246 and 370-376).                  *)
THEOREM RadarTellsTheTruth == Spec => []RadarIsHonest
<1>1. Init => RowsInv
  BY DEF Init, NoSummary, RowsInv, SamplesInv, TimesInv, RowsAreTrue, RadarIsHonest
<1>2. RowsInv /\ [Next]_vars => RowsInv'
  BY RowsStep
<1>3. RowsInv => RadarIsHonest
  BY DEF RowsInv
<1> QED
  BY <1>1, <1>2, <1>3, PTL DEF Spec

-----------------------------------------------------------------------------
(* The shm rows.                                                           *)

(* Unless a change went unnoticed, shm_final.csv is what the inputs give,  *)
(* or it is older than one of them and will be made anew, or it is being   *)
(* written; and unless inputs changed behind it, a program has what they   *)
(* give.                                                                   *)
FinalInv ==
  job.at # "write" =>
    unnoticed \/ Outdated \/ final.rows = aggregate_shm_csvs(Default)

JobInv ==
  /\ job.at # "idle" => ~table.written
  /\ job.at \in {"open", "write"} /\ ~job.changed =>
       job.threshold # Default \/ job.rows = aggregate_shm_csvs(Default)
  /\ job.at = "load" /\ ~job.changed =>
       unnoticed \/ final.rows = aggregate_shm_csvs(Default)

JobType ==
  /\ DOMAIN job = {"at", "paths", "threshold", "byHand", "rows", "changed"}
  /\ job.changed \in BOOLEAN

TableInv ==
  /\ clock \in Nat \ {0}
  /\ final.mtime \in Nat
  /\ final.mtime = 0 => final.rows = <<>>
  /\ JobType
  /\ FinalInv
  /\ JobInv
  /\ ShmRowsAreCurrent

(* Aggregation of no input at all.                                         *)
LEMMA NothingToAggregate ==
  DOMAIN inputs = {} => aggregate_shm_csvs(Default) = <<>>
<1> SUFFICES ASSUME DOMAIN inputs = {} PROVE aggregate_shm_csvs(Default) = <<>>
  OBVIOUS
<1>1. \A k : Group(k) = {}
  BY DEF Group
<1>2. \A k : Kept(k, Default) = {}
  BY <1>1 DEF Kept
<1>3. {j \in Configs : Kept(j, Default) # {}} = {}
  BY <1>2
<1> DEFINE row(k) == average_group(Kept(k, Default), k)
<1> HIDE DEF row
<1>4. [k \in {} |-> row(k)] = <<>>
  OBVIOUS
<1> QED
  BY <1>3, <1>4 DEF row, aggregate_shm_csvs

(* The aggregation depends on its inputs only.                             *)
LEMMA SameInputsSameRows ==
  ASSUME UNCHANGED inputs
  PROVE  aggregate_shm_csvs(Default)' = aggregate_shm_csvs(Default)
<1>1. \A k : Group(k)' = Group(k)
  BY DEF Group
<1>2. \A k : Kept(k, Default)' = Kept(k, Default)
  BY Zenon DEF Kept, Group, Slow
<1>3. ASSUME NEW k
      PROVE  average_group(Kept(k, Default), k)'
               = average_group(Kept(k, Default), k)
  <2>1. Kept(k, Default)' = Kept(k, Default)
    BY <1>2
  <2> QED
    BY <2>1 DEF average_group
<1> QED
  <2>1. {j \in Configs : Kept(j, Default)' # {}} = {j \in Configs : Kept(j, Default) # {}}
    BY <1>2
  <2> QED
    BY <1>3, <2>1, Zenon DEF aggregate_shm_csvs

LEMMA LookStep == TableInv /\ LookForInputs => TableInv'
<1> SUFFICES ASSUME TableInv, LookForInputs PROVE TableInv'
  OBVIOUS
<1>1. UNCHANGED <<clock, inputs, final, unnoticed>> /\ table' = NoTable
  BY DEF LookForInputs
<1>2. aggregate_shm_csvs(Default)' = aggregate_shm_csvs(Default)
  BY <1>1, SameInputsSameRows
<1>3. /\ job.at = "idle" /\ JobType' /\ ~table'.written
      /\ job'.at = "read" \/ (job'.at = "load" /\ ~Outdated)
  BY DEF LookForInputs, Idle, JobType, NoTable
<1>4. Outdated' = Outdated
  BY <1>1 DEF Outdated
<1>5. unnoticed \/ Outdated \/ final.rows = aggregate_shm_csvs(Default)
  BY <1>3 DEF TableInv, FinalInv
<1>6. FinalInv' /\ JobInv'
  BY <1>1, <1>2, <1>3, <1>4, <1>5 DEF FinalInv, JobInv
<1>7. ShmRowsAreCurrent'
  BY <1>1 DEF ShmRowsAreCurrent, NoTable
<1> QED
  BY <1>1, <1>3, <1>6, <1>7 DEF TableInv

LEMMA ReadStep == TableInv /\ Read => TableInv'
<1> SUFFICES ASSUME TableInv, Read PROVE TableInv'
  OBVIOUS
<1>1. UNCHANGED <<clock, inputs, final, table, unnoticed>> /\ job.at = "read"
  BY DEF Read
<1>2. aggregate_shm_csvs(Default)' = aggregate_shm_csvs(Default)
  BY <1>1, SameInputsSameRows
<1>3. Outdated' = Outdated
  BY <1>1 DEF Outdated
<1>4. /\ job'.at \in {"open", "idle"} /\ JobType'
      /\ job'.at = "open" /\ job'.threshold = Default =>
           job'.rows = aggregate_shm_csvs(Default)
  BY DEF Read, Idle, TableInv, JobType
<1>5. FinalInv' /\ JobInv'
  BY <1>1, <1>2, <1>3, <1>4 DEF TableInv, FinalInv, JobInv
<1>6. ShmRowsAreCurrent'
  BY <1>1 DEF TableInv, JobInv, ShmRowsAreCurrent
<1> QED
  BY <1>1, <1>4, <1>5, <1>6 DEF TableInv

LEMMA OpenStep == TableInv /\ OpenFinal => TableInv'
<1> SUFFICES ASSUME TableInv, OpenFinal PROVE TableInv'
  OBVIOUS
<1>1. /\ UNCHANGED <<clock, inputs, table, unnoticed>>
      /\ final' = [mtime |-> clock, rows |-> <<>>]
      /\ job.at = "open" /\ job'.at = "write" /\ JobType'
      /\ job'.threshold = job.threshold /\ job'.rows = job.rows
      /\ job'.changed = job.changed
  BY DEF OpenFinal, TableInv, JobType
<1>2. aggregate_shm_csvs(Default)' = aggregate_shm_csvs(Default)
  BY <1>1, SameInputsSameRows
<1>3. FinalInv' /\ JobInv'
  BY <1>1, <1>2 DEF TableInv, FinalInv, JobInv
<1>4. ShmRowsAreCurrent'
  BY <1>1 DEF TableInv, JobInv, ShmRowsAreCurrent
<1> QED
  BY <1>1, <1>3, <1>4 DEF TableInv

LEMMA CloseStep == TableInv /\ CloseFinal => TableInv'
<1> SUFFICES ASSUME TableInv, CloseFinal PROVE TableInv'
  OBVIOUS
<1>1. /\ UNCHANGED <<clock, inputs, table>>
      /\ final' = [mtime |-> clock, rows |-> job.rows]
      /\ unnoticed' = (job.threshold # Default \/ job.changed)
      /\ job.at = "write"
  BY DEF CloseFinal
<1>2. job'.at \in {"idle", "load"} /\ JobType'
  BY DEF CloseFinal, Idle, TableInv, JobType
<1>3. aggregate_shm_csvs(Default)' = aggregate_shm_csvs(Default)
  BY <1>1, SameInputsSameRows
<1>4. unnoticed' \/ final'.rows = aggregate_shm_csvs(Default)
  BY <1>1 DEF TableInv, JobInv, JobType
<1>5. FinalInv' /\ JobInv'
  <2>1. ~table'.written
    BY <1>1 DEF TableInv, JobInv
  <2> QED
    BY <1>2, <1>3, <1>4, <2>1 DEF FinalInv, JobInv
<1>6. ShmRowsAreCurrent'
  BY <1>1 DEF TableInv, JobInv, ShmRowsAreCurrent
<1> QED
  BY <1>1, <1>2, <1>5, <1>6 DEF TableInv

LEMMA LoadStep == TableInv /\ LoadFinal => TableInv'
<1> SUFFICES ASSUME TableInv, LoadFinal PROVE TableInv'
  OBVIOUS
<1>1. UNCHANGED <<clock, inputs, final, unnoticed>> /\ job.at = "load"
  BY DEF LoadFinal
<1>2. job'.at = "idle" /\ JobType'
  BY DEF LoadFinal, Idle, JobType
<1>3. aggregate_shm_csvs(Default)' = aggregate_shm_csvs(Default)
  BY <1>1, SameInputsSameRows
<1>4. Outdated' = Outdated
  BY <1>1 DEF Outdated
<1>5. FinalInv' /\ JobInv'
  BY <1>1, <1>2, <1>3, <1>4 DEF TableInv, FinalInv, JobInv
<1>6. table'.written => ~job.changed /\ table'.shm = Selected(final.rows)
  BY DEF LoadFinal, NoTable
<1>7. table'.written /\ ~unnoticed => final.rows = aggregate_shm_csvs(Default)
  BY <1>1, <1>6 DEF TableInv, JobInv
<1>8. ShmRowsAreCurrent'
  BY <1>1, <1>3, <1>6, <1>7 DEF ShmRowsAreCurrent, Selected
<1> QED
  BY <1>1, <1>2, <1>5, <1>8 DEF TableInv

LEMMA SweepShmStep == TableInv /\ run_sweep => TableInv'
BY LookStep, ReadStep, OpenStep, CloseStep, LoadStep DEF run_sweep

LEMMA KillStep == TableInv /\ KillProgram => TableInv'
<1> SUFFICES ASSUME TableInv, KillProgram PROVE TableInv'
  OBVIOUS
<1>1. /\ UNCHANGED <<clock, inputs, final, table>>
      /\ unnoticed' = (unnoticed \/ job.at = "write")
      /\ job.at # "idle" /\ job'.at = "idle" /\ JobType'
  BY DEF KillProgram, Idle, JobType
<1>2. aggregate_shm_csvs(Default)' = aggregate_shm_csvs(Default)
  BY <1>1, SameInputsSameRows
<1>3. Outdated' = Outdated
  BY <1>1 DEF Outdated
<1>4. unnoticed' \/ Outdated \/ final.rows = aggregate_shm_csvs(Default)
  BY <1>1 DEF TableInv, FinalInv
<1>5. FinalInv' /\ JobInv'
  BY <1>1, <1>2, <1>3, <1>4 DEF FinalInv, JobInv
<1>6. ShmRowsAreCurrent'
  BY <1>1 DEF TableInv, JobInv, ShmRowsAreCurrent
<1> QED
  BY <1>1, <1>5, <1>6 DEF TableInv

LEMMA ByHandStep ==
  ASSUME TableInv, NEW threshold, aggregate_main(threshold)
  PROVE  TableInv'
<1>1. UNCHANGED <<clock, inputs, final, unnoticed>> /\ ~table'.written
  BY DEF aggregate_main, NoTable
<1>2. job.at = "idle" /\ job'.at = "read" /\ JobType'
  BY DEF aggregate_main, Idle, JobType
<1>3. aggregate_shm_csvs(Default)' = aggregate_shm_csvs(Default)
  BY <1>1, SameInputsSameRows
<1>4. Outdated' = Outdated
  BY <1>1 DEF Outdated
<1>5. FinalInv' /\ JobInv'
  BY <1>1, <1>2, <1>3, <1>4 DEF TableInv, FinalInv, JobInv
<1> QED
  BY <1>1, <1>2, <1>5 DEF TableInv, ShmRowsAreCurrent

(* What a change of the inputs does to a program that has begun.           *)
LEMMA OvertakenJob ==
  ASSUME TableInv, Overtakes, UNCHANGED final, table' = NoTable,
         unnoticed' \/ Outdated' \/ final.rows = aggregate_shm_csvs(Default)'
  PROVE  JobType' /\ FinalInv' /\ JobInv'
<1>1. CASE job.at = "idle"
  BY <1>1 DEF Overtakes, TableInv, JobType, FinalInv, JobInv
<1>2. CASE job.at # "idle"
  <2>1. job'.at = job.at /\ job'.changed = TRUE /\ JobType'
    BY <1>2 DEF Overtakes, TableInv, JobType
  <2> QED
    BY <2>1 DEF FinalInv, JobInv, NoTable
<1> QED
  BY <1>1, <1>2

LEMMA PutInputStep ==
  ASSUME TableInv, NEW f, PutInput(f)
  PROVE  TableInv'
<1>1. PICK mtime \in 1 .. clock, rows \in Rows :
        /\ inputs' = [g \in DOMAIN inputs \cup {f} |->
                        IF g = f THEN [mtime |-> mtime, rows |-> rows] ELSE inputs[g]]
        /\ unnoticed' = (unnoticed \/ mtime <= final.mtime)
        /\ Overtakes /\ table' = NoTable
        /\ UNCHANGED <<clock, final>>
  BY DEF PutInput
<1>2. f \in DOMAIN inputs' /\ inputs'[f].mtime = mtime
  BY <1>1
<1>3. unnoticed' \/ mtime > final.mtime
  <2>1. mtime <= final.mtime \/ mtime > final.mtime
    BY DEF TableInv
  <2> QED
    BY <1>1, <2>1, Zenon
<1>4. unnoticed' \/ Outdated'
  BY <1>1, <1>2, <1>3 DEF Outdated
<1>5. JobType' /\ FinalInv' /\ JobInv'
  BY <1>1, <1>4, OvertakenJob
<1>6. ShmRowsAreCurrent'
  BY <1>1 DEF ShmRowsAreCurrent, NoTable
<1> QED
  BY <1>1, <1>5, <1>6 DEF TableInv

LEMMA RemoveInputStep ==
  ASSUME TableInv, NEW f, RemoveInput(f)
  PROVE  TableInv'
<1>1. /\ unnoticed' = (unnoticed \/ final.mtime # 0)
      /\ Overtakes /\ table' = NoTable /\ UNCHANGED <<clock, final>>
  BY DEF RemoveInput
<1>2. unnoticed' \/ Outdated' \/ final.rows = aggregate_shm_csvs(Default)'
  <2>1. CASE final.mtime # 0
    BY <1>1, <2>1
  <2>2. CASE final.mtime = 0
    <3>1. Outdated' \/ DOMAIN inputs' = {}
      BY <1>1, <2>2 DEF Outdated
    <3>2. (DOMAIN inputs = {})' => (aggregate_shm_csvs(Default) = <<>>)'
      BY NothingToAggregate, PTL
    <3> QED
      BY <2>2, <3>1, <3>2 DEF TableInv
  <2> QED
    BY <2>1, <2>2
<1>3. JobType' /\ FinalInv' /\ JobInv'
  BY <1>1, <1>2, OvertakenJob
<1> QED
  BY <1>1, <1>3 DEF TableInv, ShmRowsAreCurrent, NoTable

(* The shm rows of a comparison are those of the newshm files there are,   *)
(* unless a change went unnoticed (analyze.py, 252-262).                   *)
THEOREM ShmTableIsCurrent == TableSpec => []ShmRowsAreCurrent
<1>1. TableInit => TableInv
  <2> SUFFICES ASSUME TableInit PROVE TableInv
    OBVIOUS
  <2>1. DOMAIN inputs = {} /\ final.rows = <<>> /\ final.mtime = 0 /\ clock = 1
    BY DEF TableInit
  <2>2. aggregate_shm_csvs(Default) = <<>>
    BY <2>1, NothingToAggregate
  <2>3. JobType /\ JobInv /\ ShmRowsAreCurrent
    BY DEF TableInit, Idle, NoTable, JobType, JobInv, ShmRowsAreCurrent
  <2> QED
    BY <2>1, <2>2, <2>3 DEF TableInv, FinalInv
<1>2. TableInv /\ [TableNext]_tableVars => TableInv'
  <2> SUFFICES ASSUME TableInv, [TableNext]_tableVars PROVE TableInv'
    OBVIOUS
  <2>1. CASE run_sweep
    BY <2>1, SweepShmStep
  <2>2. ASSUME NEW t \in Thresholds, aggregate_main(t) PROVE TableInv'
    BY <2>2, ByHandStep
  <2>3. ASSUME NEW f \in Files, PutInput(f) \/ RemoveInput(f) PROVE TableInv'
    BY <2>3, PutInputStep, RemoveInputStep
  <2>4. CASE KillProgram
    BY <2>4, KillStep
  <2>5. CASE Tick \/ UNCHANGED tableVars
    <3>1. UNCHANGED <<inputs, final, job, table, unnoticed>> /\ clock' \in Nat \ {0}
      BY <2>5 DEF Tick, tableVars, TableInv
    <3>2. /\ aggregate_shm_csvs(Default)' = aggregate_shm_csvs(Default)
          /\ Outdated' = Outdated
      BY <3>1 DEF aggregate_shm_csvs, average_group, Kept, Group, Slow,
                  Outdated
    <3> QED
      BY <3>1, <3>2 DEF TableInv, JobType, FinalInv, JobInv, ShmRowsAreCurrent
  <2> QED
    BY <2>1, <2>2, <2>3, <2>4, <2>5 DEF TableNext
<1>3. TableInv => ShmRowsAreCurrent
  BY DEF TableInv
<1> QED
  BY <1>1, <1>2, <1>3, PTL DEF TableSpec

-----------------------------------------------------------------------------
(* What aggregation keeps.                                                 *)

(* There are finitely many inputs, and what they hold are numbers.         *)
InputsInv ==
  /\ IsFiniteSet(DOMAIN inputs)
  /\ \A f \in DOMAIN inputs : \A k \in DOMAIN inputs[f].rows :
       inputs[f].rows[k] \in P50s \cup {NaN}

LEMMA InputsStep ==
  ASSUME InputsInv, TableNext \/ UNCHANGED inputs
  PROVE  InputsInv'
<1>1. CASE UNCHANGED inputs
  BY <1>1 DEF InputsInv
<1>2. ASSUME NEW f \in Files, PutInput(f) PROVE InputsInv'
  <2>1. PICK mtime \in 1 .. clock, rows \in Rows :
          inputs' = [g \in DOMAIN inputs \cup {f} |->
                       IF g = f THEN [mtime |-> mtime, rows |-> rows] ELSE inputs[g]]
    BY <1>2 DEF PutInput
  <2>2. IsFiniteSet(DOMAIN inputs')
    BY <2>1, FS_AddElement DEF InputsInv
  <2>3. \A k \in DOMAIN rows : rows[k] \in P50s \cup {NaN}
    BY DEF Rows
  <2> QED
    BY <2>1, <2>2, <2>3 DEF InputsInv
<1>3. ASSUME NEW f \in Files, RemoveInput(f) PROVE InputsInv'
  <2>1. inputs' = [g \in DOMAIN inputs \ {f} |-> inputs[g]]
    BY <1>3 DEF RemoveInput, Restrict
  <2>2. IsFiniteSet(DOMAIN inputs')
    BY <2>1, FS_RemoveElement DEF InputsInv
  <2> QED
    BY <2>1, <2>2 DEF InputsInv
<1> QED
  BY <1>1, <1>2, <1>3 DEF TableNext, run_sweep, LookForInputs, Read, OpenFinal,
       CloseFinal, LoadFinal, KillProgram, aggregate_main, Tick

LEMMA NothingGetsLost ==
  ASSUME InputsInv
  PROVE  EveryConfigurationStays
<1> SUFFICES ASSUME NEW k \in Configs, Group(k) # {}
             PROVE  LET rows == aggregate_shm_csvs(Default)
                    IN  /\ k \in DOMAIN rows
                        /\ rows[k].n = 0 => \E f \in Group(k) : inputs[f].rows[k] = NaN
                        /\ rows[k].sum > Default * rows[k].n =>
                             \A f \in Group(k) : Slow(f, k, Default)
  BY DEF EveryConfigurationStays
<1> DEFINE kept == Kept(k, Default)
           finite == {f \in kept : inputs[f].rows[k] # NaN}
           p50 == [f \in finite |-> inputs[f].rows[k]]
           row == aggregate_shm_csvs(Default)[k]
<1>1. kept # {} /\ kept \subseteq Group(k)
  <2> DEFINE fast == {f \in Group(k) : ~Slow(f, k, Default)}
             one == CHOOSE f \in Group(k) : \A g \in Group(k) : inputs[f].rows[k] <= inputs[g].rows[k]
  <2>1. kept = IF fast # {} \/ Group(k) = {} THEN fast ELSE {one}
    BY DEF Kept
  <2> DEFINE S == {inputs[f].rows[k] + 1 : f \in Group(k)}
  <2>2. \A f \in Group(k) : inputs[f].rows[k] \in Int /\ inputs[f].rows[k] + 1 \in Nat
    <3>1. \A f \in Group(k) : inputs[f].rows[k] \in P50s \cup {NaN}
      BY DEF Group, InputsInv
    <3>2. \A x \in P50s \cup {NaN} : x \in Int /\ x + 1 \in Nat
      BY AnalysisAssumption DEF NaN
    <3> QED
      BY <3>1, <3>2
  <2>3. S \in SUBSET Nat /\ S # {}
    BY <2>2
  <2>4. PICK n \in S : \A m \in S : n <= m
    BY <2>3, LeastNumber
  <2>5. PICK f \in Group(k) : n = inputs[f].rows[k] + 1
    BY <2>4
  <2>6. \A g \in Group(k) : inputs[f].rows[k] <= inputs[g].rows[k]
    <3>1. \A g \in Group(k) : n <= inputs[g].rows[k] + 1
      BY <2>4
    <3> QED
      BY <2>2, <2>5, <3>1
  <2>7. one \in Group(k)
    BY <2>6
  <2> HIDE DEF one
  <2> QED
    BY <2>1, <2>7
<1>2. k \in DOMAIN aggregate_shm_csvs(Default) /\ row = average_group(kept, k)
  BY <1>1 DEF aggregate_shm_csvs
<1>3. row.n = Cardinality(finite) /\ row.sum = SumFunctionOnSet(p50, finite)
  BY <1>2 DEF average_group, Average, SumFunction
<1>4. IsFiniteSet(finite)
  <2>1. finite \in SUBSET (DOMAIN inputs)
    BY <1>1 DEF Group
  <2> HIDE DEF finite
  <2> QED
    BY <2>1, FS_Subset DEF InputsInv
<1>5. \A f \in finite : p50[f] \in Int /\ p50[f] # NaN /\ p50[f] = inputs[f].rows[k]
  <2>1. \A f \in finite : f \in DOMAIN inputs /\ k \in DOMAIN inputs[f].rows
    BY <1>1 DEF Group
  <2>2. \A f \in finite : inputs[f].rows[k] \in P50s \cup {NaN} /\ inputs[f].rows[k] # NaN
    BY <2>1 DEF InputsInv
  <2>3. \A x \in P50s : x \in Int
    BY AnalysisAssumption
  <2>4. \A f \in finite : p50[f] = inputs[f].rows[k]
    OBVIOUS
  <2> HIDE DEF p50, finite
  <2> QED
    BY <2>2, <2>3, <2>4
<1>6. Default \in Int
  BY AnalysisAssumption
<1>7. ASSUME row.n = 0 PROVE \E f \in Group(k) : inputs[f].rows[k] = NaN
  <2>1. finite = {}
    BY <1>3, <1>4, <1>7, FS_EmptySet
  <2> QED
    BY <1>1, <2>1
<1>8. ASSUME NEW f \in Group(k), ~Slow(f, k, Default), row.sum > Default * row.n
      PROVE  FALSE
  <2>1. kept = {g \in Group(k) : ~Slow(g, k, Default)}
    BY <1>8 DEF Kept
  <2>2. \A g \in finite : p50[g] <= Default
    <3>1. \A g \in finite : ~Slow(g, k, Default)
      BY <2>1
    <3> HIDE DEF finite, p50, kept
    <3>2. \A g \in finite : ~(p50[g] > Default)
      BY <1>5, <3>1 DEF Slow
    <3> QED
      BY <1>5, <1>6, <3>2
  <2> HIDE DEF finite, p50, kept
  <2>3. /\ SumFunctionOnSet(p50, finite) \in Int
        /\ SumFunctionOnSet(p50, finite) <= Default * Cardinality(finite)
    BY <1>4, <1>5, <1>6, <2>2, SumBounds
  <2>4. PICK n \in Nat, s \in Int : n = Cardinality(finite) /\ s = SumFunctionOnSet(p50, finite)
    BY <1>4, <2>3, FS_CardinalityType
  <2>5. s <= Default * n /\ s > Default * n
    BY <1>3, <1>8, <2>3, <2>4
  <2> HIDE DEF row
  <2>6. Default * n \in Int
    BY <1>6
  <2> QED
    BY <2>4, <2>5, <2>6
<1> QED
  BY <1>2, <1>7, <1>8

(* Aggregation loses no configuration and no figure, and a slow run never  *)
(* weighs on the others (analyze_shm_csv.py, 83-123).                      *)
THEOREM NoConfigurationLost == TableSpec => []EveryConfigurationStays
<1>1. TableInit => InputsInv
  BY FS_EmptySet DEF TableInit, InputsInv
<1>2. InputsInv /\ [TableNext]_tableVars => InputsInv'
  BY InputsStep DEF tableVars
<1>3. InputsInv => EveryConfigurationStays
  BY NothingGetsLost
<1> QED
  BY <1>1, <1>2, <1>3, PTL DEF TableSpec

=============================================================================
