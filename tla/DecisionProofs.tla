---------------------------- MODULE DecisionProofs ----------------------------
(***************************************************************************)
(* Proofs about DecisionTables: Evaluate returns what the hit policy       *)
(* means, for every table and whatever its cells evaluate to.              *)
(***************************************************************************)
EXTENDS DecisionTables, TLAPS, FiniteSetTheorems, WellFoundedInduction

\* A set of numbers has a least one.
LEMMA LeastExists ==
    ASSUME NEW S \in SUBSET Nat, S # {}
    PROVE  \E n \in S : \A m \in S : n <= m
<1> DEFINE R == OpToRel(<, Nat)
<1>1. IsWellFoundedOn(R, Nat)
  BY NatLessThanWellFounded
<1>2. PICK x \in S : \A y \in S : ~ (<<y, x>> \in R)
  <2> HIDE DEF R
  <2> QED BY <1>1, WFMin
<1>3. \A y \in Nat : y < x => <<y, x>> \in R
  BY <1>2 DEF OpToRel
<1>4. \A y \in S : x <= y
  <2> HIDE DEF R
  <2> SUFFICES ASSUME NEW y \in S, ~(x <= y) PROVE FALSE
    OBVIOUS
  <2>1. y < x /\ y \in Nat
    OBVIOUS
  <2> QED BY <1>2, <1>3, <2>1
<1> QED BY <1>2, <1>4

\* The values of a loop that starts with x and takes a step for each of 1..N.
Chain(f, x, step, N) == f[0] = x /\ \A i \in 1..N : f[i] = step[i][f[i - 1]]

\* Such a loop has its values.
LEMMA ChainExists ==
    ASSUME NEW N \in Nat, NEW X, NEW x \in X, NEW step \in [1..N -> [X -> X]]
    PROVE  \E f \in [0..N -> X] : Chain(f, x, step, N)
<1> DEFINE Has(n) == \E f \in [0..n -> X] : Chain(f, x, step, n)
           Bad == {n \in 0..N : ~Has(n)}
<1> SUFFICES ASSUME Bad # {} PROVE FALSE
  BY N \in 0..N
<1>1. PICK n \in Bad : \A m \in Bad : n <= m
  <2>1. Bad \in SUBSET Nat
    OBVIOUS
  <2> HIDE DEF Bad
  <2> QED BY <2>1, LeastExists
<1>2. n \in 0..N
  BY <1>1
<1>3. n # 0
  <2> DEFINE f == [i \in 0..0 |-> x]
  <2>1. f \in [0..0 -> X] /\ f[0] = x /\ 1..0 = {}
    OBVIOUS
  <2> HIDE DEF f
  <2>2. Has(0)
    BY <2>1 DEF Chain
  <2> QED BY <1>1, <2>2
<1>4. n - 1 \in 0..N /\ n - 1 < n
  BY <1>2, <1>3
<1>5. n - 1 \notin Bad
  <2> HIDE DEF Bad
  <2> QED BY <1>1, <1>2, <1>4
<1>6. PICK f \in [0..(n - 1) -> X] : Chain(f, x, step, n - 1)
  BY <1>4, <1>5
<1> DEFINE g == [i \in 0..n |-> IF i = n THEN step[n][f[n - 1]] ELSE f[i]]
<1>7. n \in 1..N /\ f[n - 1] \in X
  BY <1>2, <1>3, <1>4, <1>6
<1>8. step[n][f[n - 1]] \in X
  BY <1>7
<1>9. g \in [0..n -> X]
  BY <1>2, <1>6, <1>8
<1>10. g[0] = x
  BY <1>2, <1>3, <1>6 DEF Chain
<1>11. ASSUME NEW i \in 1..n PROVE g[i] = step[i][g[i - 1]]
  <2>1. i - 1 \in 0..(n - 1) /\ g[i - 1] = f[i - 1]
    BY <1>2, <1>11
  <2>2. CASE i = n
    BY <2>1, <2>2, <1>2
  <2>3. CASE i # n
    <3>1. i \in 1..(n - 1) /\ g[i] = f[i]
      BY <2>3, <1>2, <1>11
    <3> QED BY <3>1, <2>1, <1>6 DEF Chain
  <2> QED BY <2>2, <2>3
<1>12. Has(n)
  <2> HIDE DEF g
  <2> QED BY <1>9, <1>10, <1>11 DEF Chain
<1> QED BY <1>1, <1>12

\* A member that no other is below is what Min chooses.
LEMMA MinIs ==
    ASSUME NEW S \in SUBSET Int, NEW x \in S, \A y \in S : x <= y
    PROVE  Min(S) = x
<1>1. Min(S) \in S /\ \A y \in S : Min(S) <= y
  BY DEF Min
<1>2. Min(S) \in Int /\ x \in Int /\ Min(S) <= x /\ x <= Min(S)
  BY <1>1
<1> HIDE DEF Min
<1> QED BY <1>2

\* A member that no other is above is what Max chooses.
LEMMA MaxIs ==
    ASSUME NEW S \in SUBSET Int, NEW x \in S, \A y \in S : x >= y
    PROVE  Max(S) = x
<1>1. Max(S) \in S /\ \A y \in S : Max(S) >= y
  BY DEF Max
<1>2. Max(S) \in Int /\ x \in Int /\ Max(S) >= x /\ x >= Max(S)
  BY <1>1
<1> HIDE DEF Max
<1> QED BY <1>2

\* A rank is a number.
LEMMA RankIsNumber ==
    ASSUME NEW d \in Tables, d.cols > 0, NEW m
    PROVE  Rank(d, m) \in Int
<1> DEFINE allowed == d.values[1]
           at == {i \in DOMAIN allowed : Text(allowed[i]) = Text(m[1])}
<1>1. Len(allowed) \in Nat /\ DOMAIN allowed = 1..Len(allowed)
  <2>1. d.cols \in Nat
    BY TablesAssumption
  <2>2. 1 \in 1..d.cols
    BY <2>1
  <2> QED BY <2>2, TablesAssumption DEF IsSeq
<1>2. at \in SUBSET Nat
  BY <1>1
<1>3. Rank(d, m) = IF at = {} THEN Len(allowed) + 1 ELSE Min(at)
  BY DEF Rank
<1> HIDE DEF at, allowed
<1>4. CASE at = {}
  BY <1>1, <1>3, <1>4
<1>5. CASE at # {}
  <2>1. PICK n \in at : \A k \in at : n <= k
    BY <1>2, <1>5, LeastExists
  <2>2. Min(at) = n
    BY <1>2, <2>1, MinIs
  <2> QED BY <1>2, <1>3, <1>5, <2>1, <2>2
<1> QED BY <1>4, <1>5

------------------------------------------------------------------------------
\* Sets of rules in their order.

\* idx lists the n members of S in ascending order.
Enumerates(idx, n, S) ==
    /\ idx \in [1..n -> S]
    /\ \A i, j \in 1..n : i < j => idx[i] < idx[j]
    /\ \A s \in S : \E i \in 1..n : idx[i] = s

\* So S has n members.
LEMMA EnumeratedCount ==
    ASSUME NEW n \in Nat, NEW S \in SUBSET Nat, NEW idx, Enumerates(idx, n, S)
    PROVE  IsFiniteSet(S) /\ Cardinality(S) = n
<1>1. IsFiniteSet(1..n) /\ Cardinality(1..n) = n
  BY FS_Interval
<1>2. \A i, j \in 1..n : idx[i] = idx[j] => i = j
  <2> SUFFICES ASSUME NEW i \in 1..n, NEW j \in 1..n, idx[i] = idx[j], i # j PROVE FALSE
    OBVIOUS
  <2>1. i < j \/ j < i
    OBVIOUS
  <2>2. idx[i] \in Nat /\ idx[j] \in Nat
    BY DEF Enumerates
  <2> QED BY <2>1, <2>2 DEF Enumerates
<1>3. idx \in Bijection(1..n, S)
  BY <1>2 DEF Enumerates, Bijection, Injection, Surjection, IsInjective
<1>4. ExistsBijection(1..n, S)
  BY <1>3 DEF ExistsBijection
<1> QED BY <1>1, <1>4, FS_Bijection

\* The k-th of them has k - 1 before it.
LEMMA EnumeratedNth ==
    ASSUME NEW n \in Nat, NEW S \in SUBSET Nat, NEW idx, Enumerates(idx, n, S), NEW k \in 1..n
    PROVE  (CHOOSE i \in S : Cardinality({j \in S : j < i}) = k - 1) = idx[k]
<1> DEFINE Before(i) == {j \in S : j < i}
<1>1. ASSUME NEW l \in 1..n PROVE Cardinality(Before(idx[l])) = l - 1
  <2> DEFINE f == [i \in 1..(l - 1) |-> idx[i]]
             B == Before(idx[l])
  <2>0. l - 1 \in Nat /\ \A i \in 1..(l - 1) : i \in 1..n /\ i < l
    OBVIOUS
  <2>1. \A i \in 1..n : idx[i] \in S /\ idx[i] \in Nat
    BY DEF Enumerates
  <2>2. f \in [1..(l - 1) -> B]
    BY <2>0, <2>1 DEF Enumerates
  <2>3. \A i, j \in 1..(l - 1) : i < j => f[i] < f[j]
    BY <2>0 DEF Enumerates
  <2>4. ASSUME NEW s \in B PROVE \E i \in 1..(l - 1) : f[i] = s
    <3>1. PICK i \in 1..n : idx[i] = s
      BY <2>4 DEF Enumerates
    <3>2. s < idx[l]
      BY <2>4
    <3>3. ~(i = l) /\ ~(l < i)
      BY <2>1, <3>1, <3>2 DEF Enumerates
    <3>4. i \in 1..(l - 1)
      BY <3>1, <3>3
    <3> QED BY <3>1, <3>4
  <2>5. B \in SUBSET Nat
    OBVIOUS
  <2> HIDE DEF f, B
  <2>6. Enumerates(f, l - 1, B)
    BY <2>2, <2>3, <2>4 DEF Enumerates
  <2>7. Cardinality(B) = l - 1
    BY <2>0, <2>5, <2>6, EnumeratedCount
  <2> QED BY <2>7 DEF B
<1> HIDE DEF Before
<1>2. idx[k] \in S /\ Cardinality(Before(idx[k])) = k - 1
  BY <1>1 DEF Enumerates
<1>3. ASSUME NEW i \in S, Cardinality(Before(i)) = k - 1 PROVE i = idx[k]
  <2>1. PICK l \in 1..n : idx[l] = i
    BY <1>3 DEF Enumerates
  <2>2. l - 1 = k - 1
    BY <1>1, <1>3, <2>1
  <2> QED BY <2>1, <2>2
<1>4. (CHOOSE i \in S : Cardinality(Before(i)) = k - 1) = idx[k]
  BY <1>2, <1>3
<1> QED BY <1>4 DEF Before

\* The first of them is the least.
LEMMA EnumeratedFirst ==
    ASSUME NEW n \in Nat \ {0}, NEW S \in SUBSET Nat, NEW idx, Enumerates(idx, n, S)
    PROVE  idx[1] \in S /\ Min(S) = idx[1]
<1>1. 1 \in 1..n /\ idx[1] \in S
  BY DEF Enumerates
<1>2. ASSUME NEW s \in S PROVE idx[1] <= s
  <2>1. PICK i \in 1..n : idx[i] = s
    BY <1>2 DEF Enumerates
  <2>2. i = 1 \/ 1 < i
    OBVIOUS
  <2>3. idx[1] \in Nat /\ s \in Nat
    BY <1>1, <1>2
  <2>4. CASE i = 1
    BY <2>1, <2>3, <2>4
  <2>5. CASE 1 < i
    BY <1>1, <2>1, <2>3, <2>5 DEF Enumerates
  <2> QED BY <2>2, <2>4, <2>5
<1>3. S \in SUBSET Int
  OBVIOUS
<1> QED BY <1>1, <1>2, <1>3, MinIs

------------------------------------------------------------------------------
\* The end of Evaluate.  The matches are the outputs of the rules that idx
\* lists.
ListsOutputs(d, ms, n, idx) ==
    /\ Len(ms) = n /\ DOMAIN ms = 1..n
    /\ \A k \in 1..n : ms[k] = d.rules[idx[k]].out

\* The matching rules are numbers.
LEMMA MatchedAre ==
    ASSUME NEW d \in Tables
    PROVE  Matched(d) \in SUBSET Nat /\ Matched(d) \in SUBSET (1..Len(d.rules)) /\ Len(d.rules) \in Nat
<1>1. Len(d.rules) \in Nat /\ DOMAIN d.rules = 1..Len(d.rules)
  BY TablesAssumption DEF IsSeq
<1>2. Matched(d) \in SUBSET (DOMAIN d.rules)
  BY DEF Matched
<1> QED BY <1>1, <1>2

\* PRIORITY: the loop over the matches finds the earliest of the best ranked.
LEMMA BestIsPreferred ==
    ASSUME NEW d \in Tables, d.cols > 0, NEW n \in Nat \ {0}, NEW idx, NEW ms,
           Enumerates(idx, n, Matched(d)), ListsOutputs(d, ms, n, idx)
    PROVE  Best(d, ms) = d.rules[Preferred(d)].out
<1> DEFINE X == {ms[k] : k \in 1..n}
           S == Matched(d)
           R(m) == Rank(d, m)
           step == [i \in 1..n |-> [m \in X |-> IF R(ms[i]) < R(m) THEN ms[i] ELSE m]]
           F(f) == [i \in 0..n |-> IF i = 0 THEN ms[1]
                                   ELSE IF R(ms[i]) < R(f[i - 1]) THEN ms[i] ELSE f[i - 1]]
<1>0. n \in Nat /\ n # 0 /\ 1 \in 1..n /\ n \in 1..n
  OBVIOUS
<1>1. ms[1] \in X /\ step \in [1..n -> [X -> X]]
  BY <1>0
<1>2. PICK f \in [0..n -> X] : Chain(f, ms[1], step, n)
  <2> HIDE DEF X, step
  <2> QED BY <1>0, <1>1, ChainExists
<1>3. f = F(f)
  <2>1. \A i \in 0..n : f[i] = F(f)[i]
    <3> SUFFICES ASSUME NEW i \in 0..n PROVE f[i] = F(f)[i]
      OBVIOUS
    <3>1. CASE i = 0
      BY <1>2, <3>1 DEF Chain
    <3>2. CASE i # 0
      <4>1. i \in 1..n /\ i - 1 \in 0..n
        BY <3>2
      <4>2. f[i - 1] \in X
        BY <1>2, <4>1
      <4> QED BY <1>2, <3>2, <4>1, <4>2 DEF Chain
    <3> QED BY <3>1, <3>2
  <2> HIDE DEF X, step, R
  <2> QED BY <1>2, <2>1
<1>4. Best(d, ms) = (CHOOSE g : g = F(g))[n]
  BY DEF Best, ListsOutputs
<1>5. PICK g : g = F(g) /\ Best(d, ms) = g[n]
  <2> HIDE DEF F
  <2> QED BY <1>3, <1>4
<1> HIDE DEF R
<1>6. /\ g[0] = ms[1]
      /\ \A i \in 1..n : g[i] = IF R(ms[i]) < R(g[i - 1]) THEN ms[i] ELSE g[i - 1]
  <2> DEFINE h == F(g)
  <2>1. h[0] = ms[1]
    BY <1>0
  <2>2. \A i \in 1..n : h[i] = IF R(ms[i]) < R(g[i - 1]) THEN ms[i] ELSE g[i - 1]
    BY <1>0
  <2> HIDE DEF h
  <2>3. g = h
    BY <1>5 DEF h
  <2> QED BY <2>1, <2>2, <2>3
<1>7. \A m : R(m) \in Int
  BY RankIsNumber DEF R
<1> DEFINE Wins(l, i) == \A j \in 1..i : R(ms[l]) < R(ms[j]) \/ (R(ms[l]) = R(ms[j]) /\ l <= j)
           Has(i) == \E l \in 1..i : g[i] = ms[l] /\ Wins(l, i)
           Bad == {i \in 1..n : ~Has(i)}
<1> HIDE DEF F, X, step
<1>8. Bad = {}
  <2> SUFFICES ASSUME Bad # {} PROVE FALSE
    OBVIOUS
  <2>1. PICK i \in Bad : \A m \in Bad : i <= m
    <3>1. Bad \in SUBSET Nat
      OBVIOUS
    <3> HIDE DEF Bad
    <3> QED BY <3>1, LeastExists
  <2>2. i \in 1..n /\ ~Has(i)
    BY <2>1
  <2>3. i # 1
    <3> SUFFICES ASSUME i = 1 PROVE FALSE
      OBVIOUS
    <3>1. g[1] = ms[1]
      BY <1>0, <1>6, <1>7
    <3>2. Wins(1, 1)
      BY <1>7
    <3> QED BY <2>2, <3>1, <3>2
  <2>4. i - 1 \in 1..n /\ i - 1 < i /\ i - 1 \notin Bad
    <3>1. i - 1 \in 1..n /\ i - 1 < i
      BY <2>2, <2>3
    <3> HIDE DEF Bad
    <3> QED BY <2>1, <2>2, <3>1
  <2>5. PICK l \in 1..(i - 1) : g[i - 1] = ms[l] /\ Wins(l, i - 1)
    BY <2>4
  <2>6. l \in 1..i /\ i \in 1..i /\ \A j \in 1..i : j = i \/ j \in 1..(i - 1)
    BY <2>2, <2>5
  <2>7. CASE R(ms[i]) < R(ms[l])
    <3>1. g[i] = ms[i]
      BY <1>6, <2>2, <2>5, <2>7
    <3>2. ASSUME NEW j \in 1..i PROVE R(ms[i]) < R(ms[j]) \/ (R(ms[i]) = R(ms[j]) /\ i <= j)
      <4>1. CASE j = i
        BY <1>7, <2>2, <4>1
      <4>2. CASE j \in 1..(i - 1)
        BY <1>7, <2>5, <2>7, <4>2
      <4> QED BY <2>6, <4>1, <4>2
    <3> QED BY <2>2, <2>6, <3>1, <3>2
  <2>8. CASE ~(R(ms[i]) < R(ms[l]))
    <3>1. g[i] = ms[l]
      BY <1>6, <2>2, <2>5, <2>8
    <3>2. ASSUME NEW j \in 1..i PROVE R(ms[l]) < R(ms[j]) \/ (R(ms[l]) = R(ms[j]) /\ l <= j)
      <4>1. CASE j = i
        BY <1>7, <2>2, <2>5, <2>8, <4>1
      <4>2. CASE j \in 1..(i - 1)
        BY <2>5, <4>2
      <4> QED BY <2>6, <4>1, <4>2
    <3> QED BY <2>2, <2>6, <3>1, <3>2
  <2> QED BY <2>7, <2>8
<1>9. PICK l \in 1..n : g[n] = ms[l] /\ Wins(l, n)
  BY <1>0, <1>8
<1>10. S \in SUBSET Nat
  BY MatchedAre
<1>11. idx[l] \in S /\ ms[l] = d.rules[idx[l]].out
  BY <1>9 DEF Enumerates, ListsOutputs
<1>12. ASSUME NEW s \in S PROVE Precedes(d, idx[l], s)
  <2>1. PICK j \in 1..n : idx[j] = s
    BY <1>12 DEF Enumerates
  <2>2. ms[j] = d.rules[s].out
    BY <2>1 DEF ListsOutputs
  <2>3. l <= j => idx[l] <= s
    <3>1. idx[l] \in Nat /\ s \in Nat
      BY <1>10, <1>11, <1>12
    <3>2. l < j => idx[l] < s
      BY <1>9, <2>1 DEF Enumerates
    <3>3. l = j => idx[l] = s
      BY <2>1
    <3> QED BY <1>9, <2>1, <3>1, <3>2, <3>3
  <2>4. R(ms[l]) < R(ms[j]) \/ (R(ms[l]) = R(ms[j]) /\ l <= j)
    BY <1>9, <2>1
  <2> QED BY <1>11, <2>2, <2>3, <2>4 DEF Precedes, R
<1>13. ASSUME NEW s \in S, \A j \in S : Precedes(d, s, j) PROVE s = idx[l]
  <2>1. Precedes(d, s, idx[l]) /\ Precedes(d, idx[l], s)
    BY <1>11, <1>12, <1>13
  <2>2. Rank(d, d.rules[s].out) \in Int /\ Rank(d, d.rules[idx[l]].out) \in Int
    BY RankIsNumber
  <2>3. s \in Nat /\ idx[l] \in Nat
    BY <1>10, <1>11, <1>13
  <2> QED BY <2>1, <2>2, <2>3 DEF Precedes
<1>14. Preferred(d) = idx[l]
  <2> HIDE DEF S
  <2>1. (CHOOSE i \in S : \A j \in S : Precedes(d, i, j)) = idx[l]
    BY <1>11, <1>12, <1>13
  <2> QED BY <2>1 DEF Preferred, S
<1> QED BY <1>5, <1>9, <1>11, <1>14

\* A table that is registered has the columns it says; one that aggregates
\* has numbers in them.
LEMMA NumbersAre ==
    ASSUME NEW d \in Tables, Validate(d), d.cols = 1, NEW i \in DOMAIN d.rules
    PROVE  d.rules[i].out[1].n \in Int
<1>1. Len(d.rules[i].out) = 1 /\ DOMAIN d.rules[i].out = 1..1
  BY TablesAssumption DEF Validate, IsSeq
<1>2. 1 \in DOMAIN d.rules[i].out
  BY <1>1
<1>3. \A c \in DOMAIN d.rules[i].out : d.rules[i].out[c].n \in Int
  BY TablesAssumption
<1> QED BY <1>2, <1>3

\* g has the values of the loop of collect.
Accumulates(g, d, ms, n) ==
    /\ Folded(d, ms) = g[n]
    /\ g[0] = 0
    /\ \A i \in 1..n : g[i] = Aggregate(d.agg, g[i - 1], ms[i][1].n, i = 1)

\* There are such values.
LEMMA FoldedChain ==
    ASSUME NEW d, NEW n \in Nat, NEW ms, Len(ms) = n, \A k \in 1..n : ms[k][1].n \in Int
    PROVE  \E g : Accumulates(g, d, ms, n)
<1> DEFINE A(acc, i) == Aggregate(d.agg, acc, ms[i][1].n, i = 1)
           step == [i \in 1..n |-> [x \in Int |-> A(x, i)]]
           F(f) == [i \in 0..n |-> IF i = 0 THEN 0 ELSE A(f[i - 1], i)]
<1>1. ASSUME NEW i \in 1..n, NEW x \in Int PROVE A(x, i) \in Int
  <2>1. ms[i][1].n \in Int
    OBVIOUS
  <2> QED BY <2>1 DEF Aggregate
<1> HIDE DEF A
<1>2. step \in [1..n -> [Int -> Int]]
  BY <1>1
<1>3. PICK f \in [0..n -> Int] : Chain(f, 0, step, n)
  <2> DEFINE X == Int
             zero == 0
  <2>1. zero \in X /\ step \in [1..n -> [X -> X]]
    BY <1>2
  <2> HIDE DEF step, X, zero
  <2>2. \E f \in [0..n -> X] : Chain(f, zero, step, n)
    BY <2>1, ChainExists
  <2> QED BY <2>2 DEF X, zero
<1>4. f = F(f)
  <2>1. \A i \in 0..n : f[i] = F(f)[i]
    <3> SUFFICES ASSUME NEW i \in 0..n PROVE f[i] = F(f)[i]
      OBVIOUS
    <3>1. CASE i = 0
      BY <1>3, <3>1 DEF Chain
    <3>2. CASE i # 0
      <4>1. i \in 1..n /\ i - 1 \in 0..n
        BY <3>2
      <4>2. f[i - 1] \in Int
        BY <1>3, <4>1
      <4> QED BY <1>3, <3>2, <4>1, <4>2 DEF Chain
    <3> QED BY <3>1, <3>2
  <2> HIDE DEF step
  <2> QED BY <1>3, <2>1
<1>5. Folded(d, ms) = (CHOOSE g : g = F(g))[n]
  BY DEF Folded, A
<1>6. PICK g : g = F(g) /\ Folded(d, ms) = g[n]
  <2> HIDE DEF F
  <2> QED BY <1>4, <1>5
<1>7. g[0] = 0 /\ \A i \in 1..n : g[i] = A(g[i - 1], i)
  <2> DEFINE h == F(g)
  <2>1. h[0] = 0 /\ \A i \in 1..n : h[i] = A(g[i - 1], i)
    OBVIOUS
  <2> HIDE DEF h
  <2>2. g = h
    BY <1>6 DEF h
  <2> QED BY <2>1, <2>2
<1> QED BY <1>6, <1>7 DEF A, Accumulates

\* MIN and MAX: the loop finds the least or the greatest number.
LEMMA FoldedBound ==
    ASSUME NEW d \in Tables, Validate(d), NEW n \in Nat \ {0}, NEW idx, NEW ms,
           Enumerates(idx, n, Matched(d)), ListsOutputs(d, ms, n, idx), Numeric(d)
    PROVE  /\ d.agg = "MIN" => Folded(d, ms) = Min(Numbers(d))
           /\ d.agg = "MAX" => Folded(d, ms) = Max(Numbers(d))
<1> DEFINE v(k) == ms[k][1].n
<1>0. n \in Nat /\ 1 \in 1..n /\ n \in 1..n /\ Len(ms) = n
  BY DEF ListsOutputs
<1>1. ASSUME NEW k \in 1..n PROVE idx[k] \in Matched(d) /\ v(k) = d.rules[idx[k]].out[1].n /\ v(k) \in Int
  <2>1. idx[k] \in Matched(d) /\ ms[k] = d.rules[idx[k]].out
    BY <1>1 DEF Enumerates, ListsOutputs
  <2>2. idx[k] \in DOMAIN d.rules
    BY <2>1 DEF Matched
  <2>3. d.rules[idx[k]].out[1].n \in Int
    BY <2>2, NumbersAre DEF Numeric
  <2> QED BY <2>1, <2>3
<1>2. PICK g : /\ Folded(d, ms) = g[n]
               /\ g[0] = 0
               /\ \A i \in 1..n : g[i] = Aggregate(d.agg, g[i - 1], v(i), i = 1)
  <2>1. \A k \in 1..n : ms[k][1].n \in Int
    BY <1>1
  <2>2. \E g : Accumulates(g, d, ms, n)
    BY <1>0, <2>1, FoldedChain
  <2> QED BY <2>2 DEF Accumulates
<1>3. /\ Numbers(d) \in SUBSET Int
      /\ \A k \in 1..n : v(k) \in Numbers(d)
      /\ \A y \in Numbers(d) : \E k \in 1..n : v(k) = y
  <2>1. ASSUME NEW s \in Matched(d)
        PROVE  \E k \in 1..n : v(k) = d.rules[s].out[1].n
    <3>1. PICK k \in 1..n : idx[k] = s
      BY <2>1 DEF Enumerates
    <3> QED BY <1>1, <3>1
  <2>2. \A y \in Numbers(d) : \E k \in 1..n : v(k) = y
    BY <2>1 DEF Numbers
  <2>3. \A k \in 1..n : v(k) \in Numbers(d)
    BY <1>1 DEF Numbers
  <2> HIDE DEF v
  <2> QED BY <1>1, <2>2, <2>3
<1> HIDE DEF v
<1>4. ASSUME d.agg \in {"MIN", "MAX"}
      PROVE  \E l \in 1..n : g[n] = v(l) /\ \A j \in 1..n :
                IF d.agg = "MIN" THEN v(l) <= v(j) ELSE v(l) >= v(j)
  <2> DEFINE Le(x, y) == IF d.agg = "MIN" THEN x <= y ELSE x >= y
             Has(i) == \E l \in 1..i : g[i] = v(l) /\ \A j \in 1..i : Le(v(l), v(j))
             Bad == {i \in 1..n : ~Has(i)}
  <2>1. Bad = {}
    <3> SUFFICES ASSUME Bad # {} PROVE FALSE
      OBVIOUS
    <3>1. PICK i \in Bad : \A m \in Bad : i <= m
      <4>1. Bad \in SUBSET Nat
        OBVIOUS
      <4> HIDE DEF Bad
      <4> QED BY <4>1, LeastExists
    <3>2. i \in 1..n /\ ~Has(i)
      BY <3>1
    <3>3. i # 1
      <4> SUFFICES ASSUME i = 1 PROVE FALSE
        OBVIOUS
      <4>1. g[1] = v(1)
        BY <1>0, <1>2, <1>4 DEF Aggregate
      <4>2. Le(v(1), v(1))
        BY <1>0, <1>1 DEF v
      <4> QED BY <3>2, <4>1, <4>2
    <3>4. i - 1 \in 1..n /\ i - 1 < i /\ i - 1 \notin Bad
      <4>1. i - 1 \in 1..n /\ i - 1 < i
        BY <3>2, <3>3
      <4> HIDE DEF Bad
      <4> QED BY <3>1, <3>2, <4>1
    <3>5. PICK l \in 1..(i - 1) : g[i - 1] = v(l) /\ \A j \in 1..(i - 1) : Le(v(l), v(j))
      BY <3>4
    <3>6. l \in 1..i /\ l \in 1..n /\ i \in 1..i /\ \A j \in 1..i : j \in 1..n /\ (j = i \/ j \in 1..(i - 1))
      BY <3>2, <3>5
    <3>7. \A j \in 1..n : v(j) \in Int
      BY <1>1 DEF v
    <3>8. g[i] = Aggregate(d.agg, v(l), v(i), FALSE)
      BY <1>2, <3>2, <3>3, <3>5
    <3>9. CASE g[i] = v(i) /\ Le(v(i), v(l))
      <4>1. ASSUME NEW j \in 1..i PROVE Le(v(i), v(j))
        <5>1. v(i) \in Int /\ v(l) \in Int /\ v(j) \in Int
          BY <3>2, <3>6, <3>7
        <5>2. CASE j = i
          BY <5>1, <5>2
        <5>3. CASE j \in 1..(i - 1)
          BY <3>5, <3>9, <5>1, <5>3
        <5> QED BY <3>6, <5>2, <5>3
      <4> QED BY <3>2, <3>6, <3>9, <4>1
    <3>10. CASE g[i] = v(l) /\ Le(v(l), v(i))
      <4>1. ASSUME NEW j \in 1..i PROVE Le(v(l), v(j))
        BY <3>5, <3>6, <3>10
      <4> QED BY <3>2, <3>6, <3>10, <4>1
    <3>11. v(i) \in Int /\ v(l) \in Int
      BY <3>2, <3>6, <3>7
    <3>12. (g[i] = v(i) /\ Le(v(i), v(l))) \/ (g[i] = v(l) /\ Le(v(l), v(i)))
      BY <1>4, <3>8, <3>11 DEF Aggregate
    <3> QED BY <3>9, <3>10, <3>12
  <2> QED BY <1>0, <2>1
<1>5. ASSUME d.agg = "MIN" PROVE Folded(d, ms) = Min(Numbers(d))
  <2>1. PICK l \in 1..n : g[n] = v(l) /\ \A j \in 1..n : v(l) <= v(j)
    BY <1>4, <1>5
  <2>2. v(l) \in Numbers(d) /\ \A y \in Numbers(d) : v(l) <= y
    BY <1>3, <2>1
  <2> QED BY <1>2, <1>3, <2>1, <2>2, MinIs
<1>6. ASSUME d.agg = "MAX" PROVE Folded(d, ms) = Max(Numbers(d))
  <2>1. PICK l \in 1..n : g[n] = v(l) /\ \A j \in 1..n : v(l) >= v(j)
    BY <1>4, <1>6
  <2>2. v(l) \in Numbers(d) /\ \A y \in Numbers(d) : v(l) >= y
    BY <1>3, <2>1
  <2> QED BY <1>2, <1>3, <2>1, <2>2, MaxIs
<1> QED BY <1>5, <1>6

\* SUM: the loop over the matches adds what the rules have.
LEMMA FoldedSum ==
    ASSUME NEW d \in Tables, Validate(d), NEW n \in Nat \ {0}, NEW idx, NEW ms,
           Enumerates(idx, n, Matched(d)), ListsOutputs(d, ms, n, idx), Numeric(d), d.agg = "SUM"
    PROVE  Folded(d, ms) = Total(d)
<1> DEFINE v(k) == ms[k][1].n
           N == Len(d.rules)
           S == Matched(d)
           add(i) == IF i \in S THEN d.rules[i].out[1].n ELSE 0
           step == [i \in 1..N |-> [x \in Int |-> x + add(i)]]
           F(f) == [i \in 0..N |-> IF i = 0 THEN 0 ELSE f[i - 1] + add(i)]
<1>0. n \in Nat /\ n \in 0..n /\ Len(ms) = n /\ N \in Nat /\ S \in SUBSET Nat /\ S \in SUBSET (1..N)
  BY MatchedAre DEF ListsOutputs
<1>1. ASSUME NEW k \in 1..n PROVE idx[k] \in S /\ v(k) = add(idx[k])
  BY <1>1 DEF Enumerates, ListsOutputs
<1>2. \A i \in S : d.rules[i].out[1].n \in Int
  <2>1. S \subseteq DOMAIN d.rules
    BY DEF Matched
  <2> HIDE DEF S
  <2> QED BY <2>1, NumbersAre DEF Numeric
<1>3. \A i \in 1..N : add(i) \in Int
  BY <1>2
<1>4. \A k \in 1..n : v(k) \in Int
  <2> HIDE DEF v
  <2> QED BY <1>0, <1>1, <1>3
<1> HIDE DEF add
<1>5. PICK f \in [0..N -> Int] : Chain(f, 0, step, N)
  <2> DEFINE X == Int
             zero == 0
  <2>1. zero \in X /\ step \in [1..N -> [X -> X]]
    BY <1>3
  <2> HIDE DEF step, X, zero, N
  <2>2. \E f \in [0..N -> X] : Chain(f, zero, step, N)
    BY <1>0, <2>1, ChainExists
  <2> QED BY <2>2 DEF X, zero
<1>6. f = F(f)
  <2>1. \A i \in 0..N : f[i] = F(f)[i]
    <3> SUFFICES ASSUME NEW i \in 0..N PROVE f[i] = F(f)[i]
      OBVIOUS
    <3> HIDE DEF N
    <3>1. CASE i = 0
      BY <1>5, <3>1 DEF Chain
    <3>2. CASE i # 0
      <4>1. i \in 1..N /\ i - 1 \in 0..N
        BY <1>0, <3>2
      <4>2. f[i - 1] \in Int
        BY <1>5, <4>1
      <4> QED BY <1>5, <3>2, <4>1, <4>2 DEF Chain
    <3> QED BY <3>1, <3>2
  <2> HIDE DEF step, N
  <2> QED BY <1>5, <2>1
<1>7. Total(d) = (CHOOSE g : g = F(g))[N]
  BY DEF Total, add
<1>8. PICK t : t = F(t) /\ Total(d) = t[N]
  <2> HIDE DEF F
  <2> QED BY <1>6, <1>7
<1>9. t[0] = 0 /\ \A i \in 1..N : t[i] = t[i - 1] + add(i)
  <2> DEFINE h == F(t)
  <2>1. h[0] = 0 /\ \A i \in 1..N : h[i] = t[i - 1] + add(i)
    <3> HIDE DEF N
    <3> QED BY <1>0
  <2> HIDE DEF h
  <2>2. t = h
    BY <1>8 DEF h
  <2> QED BY <2>1, <2>2
<1>10. PICK g : g[0] = 0 /\ Folded(d, ms) = g[n] /\ \A k \in 1..n : g[k] = g[k - 1] + v(k)
  <2>1. PICK g : Accumulates(g, d, ms, n)
    BY <1>0, <1>4, FoldedChain
  <2> QED BY <2>1 DEF Accumulates, Aggregate
<1> HIDE DEF v, N, F, step
\* After i rules the sum is that of the k matches among them.
<1> DEFINE Has(i) == \E k \in 0..n : /\ t[i] = g[k] /\ t[i] \in Int
                                     /\ \A j \in 1..n : idx[j] <= i <=> j <= k
           Bad == {i \in 0..N : ~Has(i)}
<1>11. \A j \in 1..n : idx[j] \in 1..N /\ idx[j] \in Nat
  BY <1>0, <1>1
<1>12. Bad = {}
  <2> SUFFICES ASSUME Bad # {} PROVE FALSE
    OBVIOUS
  <2>1. PICK i \in Bad : \A m \in Bad : i <= m
    <3>1. Bad \in SUBSET Nat
      BY <1>0
    <3> HIDE DEF Bad
    <3> QED BY <3>1, LeastExists
  <2>2. i \in 0..N /\ i \in Nat /\ ~Has(i)
    BY <1>0, <2>1
  <2>3. i # 0
    <3> SUFFICES ASSUME i = 0 PROVE FALSE
      OBVIOUS
    <3>1. 0 \in 0..n /\ t[0] = g[0] /\ t[0] \in Int /\ \A j \in 1..n : ~(idx[j] <= 0) /\ ~(j <= 0)
      BY <1>0, <1>9, <1>10, <1>11
    <3> QED BY <2>2, <3>1
  <2>4. i - 1 \in 0..N /\ i - 1 < i /\ i - 1 \notin Bad
    <3>1. i - 1 \in 0..N /\ i - 1 < i
      BY <1>0, <2>2, <2>3
    <3> HIDE DEF Bad
    <3> QED BY <2>1, <2>2, <3>1
  <2>5. PICK k \in 0..n : t[i - 1] = g[k] /\ t[i - 1] \in Int /\ \A j \in 1..n : idx[j] <= i - 1 <=> j <= k
    BY <2>4
  <2>6. t[i] = g[k] + add(i) /\ t[i] \in Int
    <3>1. i \in 1..N
      BY <1>0, <2>2, <2>3
    <3> QED BY <1>3, <1>9, <2>5, <3>1
  <2>7. CASE i \in S
    <3>1. PICK l \in 1..n : idx[l] = i
      BY <2>7 DEF Enumerates
    <3>2. ~(l <= k)
      BY <2>2, <2>5, <3>1
    <3>3. k + 1 \in 1..n /\ k + 1 <= l
      BY <1>0, <2>5, <3>1, <3>2
    <3>4. ~(k + 1 < l)
      <4> SUFFICES ASSUME k + 1 < l PROVE FALSE
        OBVIOUS
      <4>1. idx[k + 1] < i /\ idx[k + 1] \in Nat
        BY <1>11, <3>1, <3>3 DEF Enumerates
      <4>2. idx[k + 1] <= i - 1
        BY <2>2, <4>1
      <4> QED BY <2>5, <3>3, <4>2
    <3>5. l = k + 1 /\ k + 1 \in 0..n
      BY <3>1, <3>3, <3>4
    <3>6. g[k + 1] = g[k] + add(i)
      <4>1. g[k + 1] = g[(k + 1) - 1] + v(k + 1)
        BY <1>10, <3>3
      <4>2. v(k + 1) = add(i)
        BY <1>1, <3>1, <3>5 DEF v
      <4> QED BY <2>5, <4>1, <4>2
    <3>7. ASSUME NEW j \in 1..n PROVE idx[j] <= i <=> j <= k + 1
      <4>1. idx[j] \in Nat /\ (j < l => idx[j] < i) /\ (l < j => i < idx[j])
        BY <1>11, <3>1, <3>7 DEF Enumerates
      <4> QED BY <2>2, <2>5, <3>1, <3>5, <4>1
    <3> QED BY <2>2, <2>6, <3>5, <3>6, <3>7
  <2>8. CASE i \notin S
    <3>1. add(i) = 0
      BY <2>8 DEF add
    <3>2. \A j \in 1..n : idx[j] # i
      BY <1>1, <2>8
    <3>3. \A j \in 1..n : idx[j] <= i <=> idx[j] <= i - 1
      BY <1>11, <2>2, <3>2
    <3>4. t[i] = g[k]
      BY <2>5, <2>6, <3>1
    <3> QED BY <2>2, <2>5, <2>6, <3>3, <3>4
  <2> QED BY <2>7, <2>8
<1>13. PICK k \in 0..n : t[N] = g[k] /\ \A j \in 1..n : idx[j] <= N <=> j <= k
  <2>1. N \in 0..N /\ N \notin Bad
    BY <1>0, <1>12
  <2> QED BY <2>1
<1>14. k = n
  <2>1. n \in 1..n /\ idx[n] <= N
    BY <1>0, <1>11
  <2> QED BY <1>13, <2>1
<1> QED BY <1>8, <1>10, <1>13, <1>14 DEF N

\* When the loop has looked at all rules and none failed, Evaluate returns what
\* the table means.
LEMMA HitIsMeaning ==
    ASSUME NEW d \in Tables, Validate(d), NEW n \in Nat, NEW idx, NEW ms,
           Enumerates(idx, n, Matched(d)), ListsOutputs(d, ms, n, idx), n # 0,
           Failed(d) = {}, Policy(d) # "FIRST"
    PROVE  Hit(d, ms) = MeaningOfAll(d)
<1> DEFINE S == Matched(d)
<1>0. n \in Nat \ {0} /\ 1 \in 1..n /\ Len(ms) = n /\ ms # <<>>
  BY DEF ListsOutputs
<1>1. S \in SUBSET Nat
  BY MatchedAre
<1>2. Cardinality(S) = n
  <2> HIDE DEF S
  <2> QED BY <1>1, EnumeratedCount DEF S
<1>3. idx[1] \in S /\ First(d) = idx[1] /\ S # {}
  BY <1>0, <1>1, EnumeratedFirst DEF First
<1>4. \A k \in 1..n : idx[k] \in S /\ ms[k] = d.rules[idx[k]].out
  BY DEF Enumerates, ListsOutputs
<1>5. Scalarize(d, ms[1]) = Out(d, First(d))
  BY <1>0, <1>3, <1>4 DEF Out
<1>6. CASE Policy(d) = "UNIQUE"
  <2>1. n > 1 <=> n # 1
    BY <1>0
  <2> QED BY <1>0, <1>2, <1>3, <1>5, <1>6, <2>1 DEF Hit, MeaningOfAll
<1>7. CASE Policy(d) = "ANY"
  <2> DEFINE alike == \A i, j \in S : \A c \in 1..d.cols :
                 Text(d.rules[i].out[c]) = Text(d.rules[j].out[c])
  <2>1. ASSUME alike PROVE Agree(d, ms)
    BY <1>0, <1>4, <2>1 DEF Agree, ListsOutputs
  <2>2. ASSUME Agree(d, ms) PROVE alike
    <3> SUFFICES ASSUME NEW i \in S, NEW j \in S, NEW c \in 1..d.cols
                 PROVE  Text(d.rules[i].out[c]) = Text(d.rules[j].out[c])
      OBVIOUS
    <3>1. PICK k \in 1..n : idx[k] = i
      BY DEF Enumerates
    <3>2. PICK l \in 1..n : idx[l] = j
      BY DEF Enumerates
    <3>3. ms[k] = d.rules[i].out /\ ms[l] = d.rules[j].out
      BY <1>4, <3>1, <3>2
    <3>4. Text(ms[k][c]) = Text(ms[1][c]) /\ Text(ms[l][c]) = Text(ms[1][c])
      BY <2>2, <3>1, <3>2 DEF Agree, ListsOutputs
    <3> QED BY <3>3, <3>4
  <2>3. Agree(d, ms) <=> alike
    BY <2>1, <2>2
  <2>4. Hit(d, ms) = IF Agree(d, ms) THEN Out(d, First(d)) ELSE Error
    BY <1>0, <1>5, <1>7 DEF Hit
  <2>5. MeaningOfAll(d) = IF alike THEN Out(d, First(d)) ELSE Error
    BY <1>3, <1>7 DEF MeaningOfAll
  <2> HIDE DEF alike
  <2> QED BY <2>3, <2>4, <2>5
<1>8. CASE Policy(d) = "PRIORITY"
  <2>1. Best(d, ms) = d.rules[Preferred(d)].out
    BY <1>0, BestIsPreferred DEF Validate
  <2>2. Hit(d, ms) = Scalarize(d, Best(d, ms))
    BY <1>0, <1>8 DEF Hit
  <2>3. MeaningOfAll(d) = Out(d, Preferred(d))
    BY <1>3, <1>8 DEF MeaningOfAll
  <2> QED BY <2>1, <2>2, <2>3 DEF Out
<1>9. CASE Policy(d) \notin {"UNIQUE", "FIRST", "ANY", "PRIORITY"}
  <2>1. Hit(d, ms) = Collect(d, ms)
    BY <1>0, <1>9 DEF Hit
  <2>2. MeaningOfAll(d) = Collected(d)
    BY <1>3, <1>9 DEF MeaningOfAll
  <2>3. CASE d.agg = "COUNT"
    BY <1>0, <1>2, <2>1, <2>2, <2>3 DEF Collect, Collected
  <2>4. CASE d.agg = ""
    <3>1. ASSUME NEW k \in 1..n PROVE Scalarize(d, ms[k]) = Out(d, Nth(d, k))
      <4>1. Nth(d, k) = idx[k]
        BY <1>1, EnumeratedNth DEF Nth
      <4> QED BY <1>4, <4>1 DEF Out
    <3>2. [k \in DOMAIN ms |-> Scalarize(d, ms[k])] = [k \in 1..n |-> Out(d, Nth(d, k))]
      BY <3>1 DEF ListsOutputs
    <3>3. Collect(d, ms) = List([k \in DOMAIN ms |-> Scalarize(d, ms[k])])
      BY <2>4 DEF Collect
    <3>4. Collected(d) = List([k \in 1..n |-> Out(d, Nth(d, k))])
      BY <1>2, <2>4 DEF Collected
    <3> QED BY <2>1, <2>2, <3>2, <3>3, <3>4
  <2>5. CASE d.agg \notin {"", "COUNT"}
    <3>1. (d.cols = 1 /\ \A i \in DOMAIN ms : ms[i][1].t = "num") <=> Numeric(d)
      <4>1. ASSUME NEW s \in S PROVE \E k \in DOMAIN ms : ms[k] = d.rules[s].out
        BY <1>4 DEF Enumerates, ListsOutputs
      <4>2. \A k \in DOMAIN ms : \E s \in S : ms[k] = d.rules[s].out
        BY <1>4 DEF ListsOutputs
      <4> QED BY <4>1, <4>2 DEF Numeric
    <3>2. Collect(d, ms) = IF Numeric(d) /\ d.agg \in {"SUM", "MIN", "MAX"}
                             THEN Num(Folded(d, ms)) ELSE Error
      BY <2>5, <3>1 DEF Collect
    <3>3. CASE ~Numeric(d) \/ d.agg \notin {"SUM", "MIN", "MAX"}
      <4>1. Collected(d) = Error
        BY <2>5, <3>3 DEF Collected
      <4> QED BY <2>1, <2>2, <3>2, <3>3, <4>1
    <3>4. CASE Numeric(d) /\ d.agg = "SUM"
      <4>1. Folded(d, ms) = Total(d)
        BY <1>0, <3>4, FoldedSum
      <4>2. Collected(d) = Num(Total(d))
        BY <3>4 DEF Collected
      <4> QED BY <2>1, <2>2, <3>2, <3>4, <4>1, <4>2
    <3>5. CASE Numeric(d) /\ d.agg = "MIN"
      <4>1. Folded(d, ms) = Min(Numbers(d))
        BY <1>0, <3>5, FoldedBound
      <4>2. Collected(d) = Num(Min(Numbers(d)))
        BY <3>5 DEF Collected
      <4> QED BY <2>1, <2>2, <3>2, <3>5, <4>1, <4>2
    <3>6. CASE Numeric(d) /\ d.agg = "MAX"
      <4>1. Folded(d, ms) = Max(Numbers(d))
        BY <1>0, <3>6, FoldedBound
      <4>2. Collected(d) = Num(Max(Numbers(d)))
        BY <3>6 DEF Collected
      <4> QED BY <2>1, <2>2, <3>2, <3>6, <4>1, <4>2
    <3> QED BY <3>3, <3>4, <3>5, <3>6
  <2> QED BY <2>3, <2>4, <2>5
<1> QED BY <1>6, <1>7, <1>8, <1>9

------------------------------------------------------------------------------
\* The loop.  Before rule r, the matches are the outputs of the matching rules
\* before it, in their order.
Before(d, r) == {i \in Matched(d) : i < r}

Listed(d, ms, r) ==
    /\ ms \in Seq({d.rules[i].out : i \in DOMAIN d.rules})
    /\ \E idx : Enumerates(idx, Len(ms), Before(d, r)) /\ ListsOutputs(d, ms, Len(ms), idx)

\* No rule before the next one has failed, and FIRST has stopped at its match.
Progress(d, ms, r) ==
    /\ r \in 1..(Len(d.rules) + 1)
    /\ \A i \in Failed(d) : r <= i
    /\ Listed(d, ms, r)
    /\ Policy(d) = "FIRST" /\ ms # <<>> => Before(d, r) = {r - 1}

LoopInv ==
    /\ table \in Tables
    /\ phase = "new" => rule = 1 /\ matches = <<>>
    /\ phase = "registered" => Validate(table) /\ rule = 1 /\ matches = <<>>
    /\ phase = "looping" =>
          Validate(table) /\ ~InputFailing(table) /\ Progress(table, matches, rule)
    /\ HitPolicyMeaning

\* At first there are no matches.
LEMMA ProgressFirst ==
    ASSUME NEW d \in Tables
    PROVE  Progress(d, <<>>, 1)
<1>1. Len(d.rules) \in Nat /\ DOMAIN d.rules = 1..Len(d.rules)
  BY TablesAssumption DEF IsSeq
<1>2. \A i \in DOMAIN d.rules : 1 <= i /\ ~(i < 1)
  BY <1>1
<1>3. \A i \in Failed(d) : 1 <= i
  BY <1>2 DEF Failed
<1>4. Before(d, 1) = {}
  BY <1>2 DEF Before, Matched
<1> DEFINE idx == [i \in 1..0 |-> 0]
<1>5. 1..0 = {} /\ Len(<<>>) = 0 /\ DOMAIN <<>> = 1..0
  OBVIOUS
<1>6. Enumerates(idx, 0, {}) /\ ListsOutputs(d, <<>>, 0, idx)
  BY <1>5 DEF Enumerates, ListsOutputs
<1> HIDE DEF idx
<1>7. Listed(d, <<>>, 1)
  BY <1>4, <1>5, <1>6 DEF Listed
<1> QED BY <1>1, <1>3, <1>7 DEF Progress

\* A rule that does not match is passed over.
LEMMA ProgressSkips ==
    ASSUME NEW d \in Tables, NEW ms, NEW r \in DOMAIN d.rules, Progress(d, ms, r),
           r \notin Failed(d), r \notin Matched(d), ~(Policy(d) = "FIRST" /\ ms # <<>>)
    PROVE  Progress(d, ms, r + 1)
<1>1. Len(d.rules) \in Nat /\ r \in 1..Len(d.rules) /\ Failed(d) \subseteq Nat /\ Matched(d) \subseteq Nat
  <2>1. Len(d.rules) \in Nat /\ DOMAIN d.rules = 1..Len(d.rules)
    BY TablesAssumption DEF IsSeq
  <2>2. Failed(d) \subseteq DOMAIN d.rules /\ Matched(d) \subseteq DOMAIN d.rules
    BY DEF Failed, Matched
  <2>3. DOMAIN d.rules \subseteq Nat
    BY <2>1
  <2> QED BY <2>1, <2>2, <2>3
<1>2. Before(d, r + 1) = Before(d, r)
  BY <1>1 DEF Before
<1>3. Listed(d, ms, r + 1)
  BY <1>2 DEF Listed, Progress
<1>4. r + 1 \in 1..(Len(d.rules) + 1) /\ \A i \in Failed(d) : r + 1 <= i
  BY <1>1 DEF Progress
<1> QED BY <1>3, <1>4 DEF Progress

\* The outputs of a rule that matches come last.
LEMMA ProgressMatches ==
    ASSUME NEW d \in Tables, NEW ms, NEW r \in DOMAIN d.rules, Progress(d, ms, r),
           r \notin Failed(d), r \in Matched(d), ~(Policy(d) = "FIRST" /\ ms # <<>>)
    PROVE  Progress(d, Append(ms, d.rules[r].out), r + 1)
<1> DEFINE O == {d.rules[i].out : i \in DOMAIN d.rules}
           o == d.rules[r].out
           n == Len(ms)
           more == Append(ms, o)
<1>1. Len(d.rules) \in Nat /\ r \in 1..Len(d.rules) /\ Failed(d) \subseteq Nat /\ Matched(d) \subseteq Nat
  <2>1. Len(d.rules) \in Nat /\ DOMAIN d.rules = 1..Len(d.rules)
    BY TablesAssumption DEF IsSeq
  <2>2. Failed(d) \subseteq DOMAIN d.rules /\ Matched(d) \subseteq DOMAIN d.rules
    BY DEF Failed, Matched
  <2>3. DOMAIN d.rules \subseteq Nat
    BY <2>1
  <2> QED BY <2>1, <2>2, <2>3
<1>2. Before(d, r + 1) = Before(d, r) \cup {r}
  BY <1>1 DEF Before
<1>3. o \in O /\ ms \in Seq(O)
  BY DEF Progress, Listed
<1> HIDE DEF O, o
<1>4. /\ more \in Seq(O) /\ n \in Nat /\ Len(more) = n + 1 /\ DOMAIN more = 1..(n + 1)
      /\ more[n + 1] = o /\ \A k \in 1..n : more[k] = ms[k]
  BY <1>3
<1>5. PICK idx : Enumerates(idx, n, Before(d, r)) /\ ListsOutputs(d, ms, n, idx)
  BY DEF Progress, Listed
<1> HIDE DEF n, more
<1> DEFINE B == Before(d, r)
           C == Before(d, r + 1)
           jdx == [k \in 1..(n + 1) |-> IF k = n + 1 THEN r ELSE idx[k]]
<1>6. \A k \in 1..(n + 1) : k = n + 1 \/ (k \in 1..n /\ k # n + 1)
  BY <1>4
<1>7. /\ jdx[n + 1] = r /\ \A k \in 1..n : jdx[k] = idx[k] /\ idx[k] \in B
      /\ DOMAIN jdx = 1..(n + 1) /\ n + 1 \in 1..(n + 1)
  BY <1>4, <1>5, <1>6 DEF Enumerates
<1>8. \A i \in B : i \in Nat /\ i < r
  BY <1>1 DEF Before
<1>9. jdx \in [1..(n + 1) -> C]
  BY <1>2, <1>5, <1>6 DEF Enumerates
<1> HIDE DEF jdx, B
<1>10. ASSUME NEW i \in 1..(n + 1), NEW j \in 1..(n + 1), i < j PROVE jdx[i] < jdx[j]
  <2>1. i \in 1..n
    BY <1>4, <1>10
  <2>2. CASE j = n + 1
    BY <1>7, <1>8, <2>1, <2>2
  <2>3. CASE j \in 1..n
    BY <1>5, <1>7, <1>10, <2>1, <2>3 DEF Enumerates
  <2> QED BY <1>6, <2>2, <2>3
<1>11. ASSUME NEW s \in C PROVE \E k \in 1..(n + 1) : jdx[k] = s
  <2>1. CASE s = r
    BY <1>7, <2>1
  <2>2. CASE s \in B
    <3>1. PICK k \in 1..n : idx[k] = s
      BY <1>5, <2>2 DEF Enumerates, B
    <3>2. k \in 1..(n + 1)
      BY <1>4
    <3> QED BY <1>7, <3>1, <3>2
  <2> QED BY <1>2, <1>11, <2>1, <2>2 DEF B
<1>12. Enumerates(jdx, n + 1, C)
  <2> HIDE DEF C
  <2> QED BY <1>9, <1>10, <1>11 DEF Enumerates
<1>13. ListsOutputs(d, more, n + 1, jdx)
  <2>1. ASSUME NEW k \in 1..(n + 1) PROVE more[k] = d.rules[jdx[k]].out
    <3>1. CASE k = n + 1
      BY <1>4, <1>7, <3>1 DEF o
    <3>2. CASE k \in 1..n
      BY <1>4, <1>5, <1>7, <3>2 DEF ListsOutputs
    <3> QED BY <1>6, <3>1, <3>2
  <2> QED BY <1>4, <2>1 DEF ListsOutputs
<1>14. Listed(d, more, r + 1)
  BY <1>4, <1>12, <1>13 DEF Listed, O
<1>15. r + 1 \in 1..(Len(d.rules) + 1) /\ \A i \in Failed(d) : r + 1 <= i
  BY <1>1 DEF Progress
<1>16. Policy(d) = "FIRST" => C = {(r + 1) - 1}
  <2> SUFFICES ASSUME ms = <<>> PROVE C = {(r + 1) - 1}
    OBVIOUS
  <2>1. n = 0 /\ 1..n = {}
    BY DEF n
  <2>2. B = {}
    BY <1>5, <2>1 DEF Enumerates, B
  <2> QED BY <1>1, <1>2, <2>2 DEF B
<1>17. Progress(d, more, r + 1)
  BY <1>14, <1>15, <1>16 DEF Progress
<1> QED BY <1>17 DEF more, o

\* A rule that fails is one the policy has to look at.
LEMMA FailureIsMeaning ==
    ASSUME NEW d \in Tables, NEW ms, NEW r \in DOMAIN d.rules, Progress(d, ms, r),
           r \in Failed(d), ~(Policy(d) = "FIRST" /\ ms # <<>>)
    PROVE  Meaning(d) = Error
<1>1. CASE Policy(d) # "FIRST"
  BY <1>1 DEF Meaning, MeaningOfAll
<1>2. CASE Policy(d) = "FIRST"
  <2>1. ms = <<>>
    BY <1>2
  <2>2. PICK idx : Enumerates(idx, Len(ms), Before(d, r))
    BY DEF Progress, Listed
  <2>3. Len(ms) = 0 /\ 1..Len(ms) = {}
    BY <2>1
  <2>4. Before(d, r) = {}
    BY <2>2, <2>3 DEF Enumerates
  <2>5. \A j \in Matched(d) : j \in Nat /\ j # r /\ ~(j < r)
    BY <2>4, MatchedAre DEF Before, Matched
  <2>6. r \in Nat
    BY MatchedAre DEF Progress
  <2>7. \A j \in Matched(d) : r < j
    BY <2>5, <2>6
  <2> QED BY <1>2, <2>7 DEF Meaning, MeaningOfFirst
<1> QED BY <1>1, <1>2

\* When the loop has ended, Evaluate returns what the table means.
LEMMA EndIsMeaning ==
    ASSUME NEW d \in Tables, Validate(d), ~InputFailing(d), NEW ms, NEW r, Progress(d, ms, r),
           r > Len(d.rules) \/ (Policy(d) = "FIRST" /\ ms # <<>>)
    PROVE  Hit(d, ms) = Meaning(d)
<1> DEFINE n == Len(ms)
           S == Matched(d)
<1>0. /\ Len(d.rules) \in Nat /\ r \in 1..(Len(d.rules) + 1) /\ S \subseteq Nat /\ Failed(d) \subseteq Nat
      /\ \A i \in S \cup Failed(d) : i <= Len(d.rules)
  <2>1. Len(d.rules) \in Nat /\ DOMAIN d.rules = 1..Len(d.rules)
    BY TablesAssumption DEF IsSeq
  <2>2. Failed(d) \subseteq DOMAIN d.rules /\ Matched(d) \subseteq DOMAIN d.rules
    BY DEF Failed, Matched
  <2>3. DOMAIN d.rules \subseteq Nat
    BY <2>1
  <2> QED BY <2>1, <2>2, <2>3 DEF Progress
<1>1. PICK idx : Enumerates(idx, n, Before(d, r)) /\ ListsOutputs(d, ms, n, idx)
  BY DEF Progress, Listed
<1>2. n \in Nat /\ (n = 0 <=> ms = <<>>)
  BY DEF Progress, Listed
<1>3. n # 0 => Before(d, r) # {}
  BY <1>1, <1>2 DEF Enumerates
<1>4. n = 0 => Before(d, r) = {}
  BY <1>1 DEF Enumerates
<1> HIDE DEF n
<1>5. CASE Policy(d) = "FIRST" /\ ms # <<>>
  <2>1. Before(d, r) = {r - 1}
    BY <1>5 DEF Progress
  <2>2. n # 0 /\ 1 \in 1..n
    BY <1>2, <1>5
  <2>3. idx[1] = r - 1 /\ ms[1] = d.rules[idx[1]].out
    BY <1>1, <2>1, <2>2 DEF Enumerates, ListsOutputs
  <2>4. r - 1 \in S /\ \A j \in S : r - 1 <= j
    <3>1. r - 1 \in S /\ \A j \in S : j < r => j = r - 1
      BY <2>1 DEF Before
    <3> QED BY <1>0, <3>1
  <2>5. First(d) = r - 1
    <3>1. S \in SUBSET Int
      BY <1>0
    <3> QED BY <2>4, <3>1, MinIs DEF First
  <2>6. ~ \E i \in Failed(d) : \A j \in S : i < j
    <3> SUFFICES ASSUME NEW i \in Failed(d), i < r - 1 PROVE FALSE
      BY <2>4
    <3>1. r <= i
      BY DEF Progress
    <3> QED BY <1>0, <3>1
  <2>7. Meaning(d) = Out(d, First(d))
    BY <1>5, <2>4, <2>6 DEF Meaning, MeaningOfFirst
  <2>8. Hit(d, ms) = Scalarize(d, ms[1])
    BY <1>5 DEF Hit
  <2> QED BY <2>3, <2>5, <2>7, <2>8 DEF Out
<1>6. CASE r > Len(d.rules)
  <2>1. Before(d, r) = S
    BY <1>0, <1>6 DEF Before
  <2>2. Failed(d) = {}
    <3> SUFFICES ASSUME NEW i \in Failed(d) PROVE FALSE
      OBVIOUS
    <3>1. r <= i
      BY DEF Progress
    <3> QED BY <1>0, <1>6, <3>1
  <2>3. CASE n = 0
    <3>1. S = {} /\ Hit(d, ms) = Nil
      BY <1>2, <1>4, <2>1, <2>3 DEF Hit
    <3> QED BY <2>2, <3>1 DEF Meaning, MeaningOfFirst, MeaningOfAll
  <2>4. CASE n # 0 /\ Policy(d) # "FIRST"
    <3>1. Enumerates(idx, n, Matched(d))
      BY <1>1, <2>1
    <3>2. Hit(d, ms) = MeaningOfAll(d)
      BY <1>1, <1>2, <2>2, <2>4, <3>1, HitIsMeaning
    <3> QED BY <2>4, <3>2 DEF Meaning
  <2> QED BY <1>2, <1>5, <2>3, <2>4
<1> QED BY <1>5, <1>6

\* The loop keeps its invariant.
LEMMA LoopStep == LoopInv /\ [Next]_vars => LoopInv'
<1> SUFFICES ASSUME LoopInv, [Next]_vars PROVE LoopInv'
  OBVIOUS
<1>0. table \in Tables
  BY DEF LoopInv
<1>1. CASE UNCHANGED vars
  BY <1>1 DEF vars, LoopInv, HitPolicyMeaning
<1>2. CASE Register
  BY <1>0, <1>2 DEF Register, LoopInv, HitPolicyMeaning
<1>8. CASE InputFails
  <2>1. Meaning(table) = Error
    BY <1>8 DEF InputFails, Meaning
  <2> QED BY <1>0, <1>8, <2>1 DEF InputFails, Returns, LoopInv, HitPolicyMeaning
<1>9. CASE InputsEvaluated
  <2>1. Progress(table, <<>>, 1)
    BY <1>0, ProgressFirst
  <2> QED BY <1>0, <1>9, <2>1 DEF InputsEvaluated, LoopInv, HitPolicyMeaning
<1>3. ASSUME Looping
      PROVE  /\ rule \in DOMAIN table.rules /\ Progress(table, matches, rule) /\ Validate(table)
             /\ ~(Policy(table) = "FIRST" /\ matches # <<>>)
             /\ rule \in Failed(table) <=> Failing(table.rules[rule])
             /\ rule \in Matched(table) <=> /\ table.rules[rule].match = Bool(TRUE)
                                            /\ ~Failing(table.rules[rule])
  <2>1. Progress(table, matches, rule) /\ Validate(table) /\ rule <= Len(table.rules)
        /\ ~(Policy(table) = "FIRST" /\ matches # <<>>)
    BY <1>3 DEF Looping, LoopInv
  <2>2. rule \in DOMAIN table.rules
    <3>1. Len(table.rules) \in Nat /\ DOMAIN table.rules = 1..Len(table.rules)
      BY <1>0, TablesAssumption DEF IsSeq
    <3>2. rule \in 1..(Len(table.rules) + 1)
      BY <2>1 DEF Progress
    <3> QED BY <2>1, <3>1, <3>2
  <2> QED BY <2>1, <2>2 DEF Failed, Matched
<1>4. CASE RuleFails
  <2>1. Meaning(table) = Error
    BY <1>0, <1>3, <1>4, FailureIsMeaning DEF RuleFails
  <2> QED BY <1>0, <1>4, <2>1 DEF RuleFails, Returns, LoopInv, HitPolicyMeaning
<1>5. CASE RuleSkipped
  <2>1. Bool(FALSE) # Bool(TRUE) /\ Bool(FALSE) # Error
    BY DEF Bool, Value, Error
  <2>2. rule \notin Failed(table) /\ rule \notin Matched(table)
    BY <1>3, <1>5, <2>1 DEF RuleSkipped, Failing
  <2>3. Progress(table, matches, rule + 1)
    BY <1>0, <1>3, <1>5, <2>2, ProgressSkips DEF RuleSkipped
  <2> QED BY <1>0, <1>3, <1>5, <2>3 DEF RuleSkipped, NextRule, Looping, LoopInv, HitPolicyMeaning
<1>6. CASE RuleMatches
  <2>1. rule \notin Failed(table) /\ rule \in Matched(table)
    BY <1>3, <1>6 DEF RuleMatches
  <2>2. Progress(table, Append(matches, table.rules[rule].out), rule + 1)
    BY <1>0, <1>3, <1>6, <2>1, ProgressMatches DEF RuleMatches
  <2> QED BY <1>0, <1>3, <1>6, <2>2 DEF RuleMatches, NextRule, Looping, LoopInv, HitPolicyMeaning
<1>7. CASE Evaluated
  <2>1. Validate(table) /\ Progress(table, matches, rule) /\ ~Looping /\ phase = "looping"
        /\ ~InputFailing(table)
    BY <1>7 DEF Evaluated, LoopInv
  <2>2. rule > Len(table.rules) \/ (Policy(table) = "FIRST" /\ matches # <<>>)
    <3>1. Len(table.rules) \in Nat /\ rule \in 1..(Len(table.rules) + 1)
      BY <1>0, <2>1, MatchedAre DEF Progress
    <3> QED BY <2>1, <3>1 DEF Looping
  <2>3. Hit(table, matches) = Meaning(table)
    BY <1>0, <2>1, <2>2, EndIsMeaning
  <2> QED BY <1>0, <1>7, <2>3 DEF Evaluated, Returns, LoopInv, HitPolicyMeaning
<1> QED BY <1>1, <1>2, <1>4, <1>5, <1>6, <1>7, <1>8, <1>9 DEF Next

\* Evaluate (dmn/dmn.go) returns what the hit policy of the table means, for
\* every table that Register accepts: any number of rules and columns, any
\* priorities, and whatever the input columns and the cells evaluate to, errors
\* included.
THEOREM EvaluateMeansPolicy == Spec => []HitPolicyMeaning
<1>1. Init => LoopInv
  BY DEF Init, LoopInv, HitPolicyMeaning
<1>2. LoopInv => HitPolicyMeaning
  BY DEF LoopInv
<1> QED BY <1>1, <1>2, LoopStep, PTL DEF Spec
=============================================================================
