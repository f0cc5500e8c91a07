-------------------------------- MODULE Sums --------------------------------
(***************************************************************************)
(* Lemmas about sums over a finite set: what MapThenSumSet of the module   *)
(* FiniteSetsExt returns, and how it changes with an entry.  It is         *)
(* defined by a recursive function on the subsets; what holds for every    *)
(* subset is proved by the least counterexample.                           *)
(***************************************************************************)
EXTENDS FiniteSetsExt, FiniteSetTheorems, WellFoundedInduction, TLAPS

Sum(f, S) == MapThenSumSet(LAMBDA x : f[x], S)

(* The element a sum takes first, and the table of the sums of all subsets. *)
First(s) == CHOOSE x \in s : TRUE

SumsOf(f, g, D) ==
    g = [s \in D |-> IF s = {} THEN 0 ELSE f[First(s)] + g[s \ {First(s)}]]

LEMMA SumOfTable ==
    ASSUME NEW f, NEW S
    PROVE  Sum(f, S) = (CHOOSE g : SumsOf(f, g, SUBSET S))[S]
    BY DEF Sum, MapThenSumSet, MapThenFoldSet, SumsOf, First

-----------------------------------------------------------------------------
(* Finite sets by size.                                                    *)

LEMMA LeastNumber ==
    ASSUME NEW N \in SUBSET Nat, N # {}
    PROVE  \E m \in N : \A k \in N : m <= k
<1>1. PICK m \in N : \A k \in N : ~ (<<k, m>> \in OpToRel(<, Nat))
  BY NatLessThanWellFounded, WFMin, Zenon
<1>2. \A k \in N : m <= k
  <2> TAKE k \in N
  <2>1. m \in Nat /\ k \in Nat
    OBVIOUS
  <2>2. SUFFICES ASSUME k < m PROVE FALSE
    BY <2>1
  <2>3. <<k, m>> \in {ss \in Nat \X Nat : ss[1] < ss[2]}
    BY <2>1, <2>2
  <2> QED BY <1>1, <2>3 DEF OpToRel
<1> QED BY <1>2

(* Of some finite sets one is smallest: what fails for a set fails for one  *)
(* whose proper subsets are all right.                                     *)
LEMMA SmallestSet ==
    ASSUME NEW S, IsFiniteSet(S), NEW D \in SUBSET (SUBSET S), D # {}
    PROVE  \E s \in D : \A t \in D : Cardinality(s) <= Cardinality(t)
<1> DEFINE N == {Cardinality(s) : s \in D}
<1>1. \A s \in D : Cardinality(s) \in Nat
  BY FS_Subset, FS_CardinalityType
<1>2. N \in SUBSET Nat /\ N # {}
  BY <1>1
<1>3. PICK m \in N : \A k \in N : m <= k
  BY <1>2, LeastNumber
<1> QED BY <1>3

LEMMA SmallerSet ==
    ASSUME NEW D, NEW t, IsFiniteSet(t), \A u \in D : Cardinality(t) <= Cardinality(u),
           NEW x \in t
    PROVE  t \ {x} \notin D
<1>1. Cardinality(t \ {x}) = Cardinality(t) - 1 /\ Cardinality(t) \in Nat
  BY FS_RemoveElement, FS_CardinalityType
<1>2. ~ (Cardinality(t) <= Cardinality(t \ {x}))
  BY <1>1
<1> QED BY <1>2

LEMMA FirstTaken ==
    ASSUME NEW s, IsFiniteSet(s), s # {}
    PROVE  /\ First(s) \in s /\ IsFiniteSet(s \ {First(s)})
           /\ Cardinality(s) \in Nat /\ Cardinality(s \ {First(s)}) \in Nat
           /\ Cardinality(s \ {First(s)}) = Cardinality(s) - 1
<1>1. First(s) \in s
  BY DEF First
<1> QED BY <1>1, FS_RemoveElement, FS_CardinalityType

-----------------------------------------------------------------------------
(* The table of sums exists: it is built one size of subset at a time.     *)
UpTo(S, n) == {s \in SUBSET S : Cardinality(s) <= n}

LEMMA TableGrows ==
    ASSUME NEW f, NEW S, IsFiniteSet(S), NEW n \in Nat, NEW g, SumsOf(f, g, UpTo(S, n)),
           NEW m \in Nat, m = n + 1
    PROVE  \E h : SumsOf(f, h, UpTo(S, m))
<1> DEFINE h == [s \in UpTo(S, m) |->
                   IF s = {} THEN 0 ELSE f[First(s)] + g[s \ {First(s)}]]
<1>1. ASSUME NEW s \in UpTo(S, m), s # {}
      PROVE  h[s \ {First(s)}] = g[s \ {First(s)}]
  <2> DEFINE t == s \ {First(s)}
  <2>1. IsFiniteSet(s) /\ s \in SUBSET S /\ Cardinality(s) <= m
    BY FS_Subset DEF UpTo
  <2>2. t \in UpTo(S, n) /\ t \in UpTo(S, m)
    <3>1. Cardinality(t) = Cardinality(s) - 1 /\ Cardinality(s) \in Nat /\ Cardinality(t) \in Nat
      BY <1>1, <2>1, FirstTaken
    <3>2. t \in SUBSET S
      BY <2>1
    <3> HIDE DEF t
    <3> QED BY <2>1, <3>1, <3>2 DEF UpTo
  <2>3. g[t] = IF t = {} THEN 0 ELSE f[First(t)] + g[t \ {First(t)}]
    BY <2>2 DEF SumsOf
  <2> HIDE DEF t
  <2>4. h[t] = IF t = {} THEN 0 ELSE f[First(t)] + g[t \ {First(t)}]
    BY <2>2
  <2>5. h[t] = g[t]
    BY <2>3, <2>4
  <2> QED BY <2>5 DEF t
<1>2. h = [s \in UpTo(S, m) |->
             IF s = {} THEN 0 ELSE f[First(s)] + h[s \ {First(s)}]]
  BY <1>1
<1> QED BY <1>2 DEF SumsOf

LEMMA TableExists ==
    ASSUME NEW f, NEW S, IsFiniteSet(S)
    PROVE  \E g : SumsOf(f, g, SUBSET S)
<1> DEFINE N == {n \in Nat : ~ \E g : SumsOf(f, g, UpTo(S, n))}
<1>1. Cardinality(S) \in Nat /\ UpTo(S, Cardinality(S)) = SUBSET S
  BY FS_Subset, FS_CardinalityType DEF UpTo
<1>2. ASSUME N # {} PROVE FALSE
  <2>1. PICK m \in N : \A k \in N : m <= k
    BY <1>2, LeastNumber
  <2>2. m # 0
    <3>1. \A s \in UpTo(S, 0) : s = {}
      <4> TAKE s \in UpTo(S, 0)
      <4>1. IsFiniteSet(s) /\ Cardinality(s) \in Nat /\ Cardinality(s) <= 0
        BY FS_Subset, FS_CardinalityType DEF UpTo
      <4> QED BY <4>1, FS_EmptySet
    <3>2. SumsOf(f, [s \in UpTo(S, 0) |-> 0], UpTo(S, 0))
      BY <3>1 DEF SumsOf
    <3> QED BY <3>2
  <2>3. PICK n \in Nat : m = n + 1
    <3>1. m - 1 \in Nat /\ m = (m - 1) + 1
      BY <2>1, <2>2
    <3> QED BY <3>1
  <2>4. n \notin N
    BY <2>1, <2>3
  <2>5. PICK g : SumsOf(f, g, UpTo(S, n))
    BY <2>4
  <2>6. \E h : SumsOf(f, h, UpTo(S, m))
    BY <2>3, <2>5, TableGrows
  <2>7. ~ \E h : SumsOf(f, h, UpTo(S, m))
    BY <2>1
  <2> QED BY <2>6, <2>7
<1>3. \E g : SumsOf(f, g, UpTo(S, Cardinality(S)))
  BY <1>1, <1>2
<1> QED BY <1>1, <1>3

-----------------------------------------------------------------------------
(* What the sums of the subsets are.                                       *)
TableOf(f, S) == CHOOSE g : SumsOf(f, g, SUBSET S)

LEMMA SumIsTable ==
    ASSUME NEW f, NEW S
    PROVE  S \in SUBSET S /\ Sum(f, S) = TableOf(f, S)[S]
    BY SumOfTable DEF TableOf

LEMMA TableStep ==
    ASSUME NEW f, NEW S, IsFiniteSet(S), NEW s \in SUBSET S
    PROVE  /\ s = {} => TableOf(f, S)[s] = 0
           /\ s # {} => TableOf(f, S)[s] = f[First(s)] + TableOf(f, S)[s \ {First(s)}]
<1>1. SumsOf(f, TableOf(f, S), SUBSET S)
  BY TableExists DEF TableOf
<1> HIDE DEF TableOf
<1> QED BY <1>1 DEF SumsOf

LEMMA SumIsInt ==
    ASSUME NEW S, IsFiniteSet(S), NEW f \in [S -> Int], NEW s \in SUBSET S
    PROVE  TableOf(f, S)[s] \in Int
<1> DEFINE g == TableOf(f, S)
           D == {t \in SUBSET S : g[t] \notin Int}
<1> HIDE DEF g
<1> SUFFICES ASSUME D # {} PROVE FALSE
  BY DEF g
<1>1. PICK t \in D : \A u \in D : Cardinality(t) <= Cardinality(u)
  BY SmallestSet
<1>2. /\ t = {} => g[t] = 0
      /\ t # {} => g[t] = f[First(t)] + g[t \ {First(t)}]
  BY TableStep DEF g
<1>3. t # {}
  BY <1>1, <1>2
<1>4. IsFiniteSet(t) /\ t \in SUBSET S
  BY FS_Subset
<1>5. t \ {First(t)} \notin D
  BY <1>1, <1>3, <1>4, FirstTaken, SmallerSet
<1>6. g[t \ {First(t)}] \in Int /\ f[First(t)] \in Int
  BY <1>3, <1>4, <1>5, FirstTaken
<1> QED BY <1>1, <1>2, <1>3, <1>6

(* Any element can be taken first: the sum does not depend on the choice.  *)
LEMMA TakeAny ==
    ASSUME NEW S, IsFiniteSet(S), NEW f \in [S -> Int], NEW s \in SUBSET S, NEW x \in s
    PROVE  TableOf(f, S)[s] = f[x] + TableOf(f, S)[s \ {x}]
<1> DEFINE g == TableOf(f, S)
           D == {t \in SUBSET S : \E y \in t : g[t] # f[y] + g[t \ {y}]}
<1> HIDE DEF g
<1> SUFFICES ASSUME D # {} PROVE FALSE
  BY DEF g
<1>1. PICK t \in D : \A u \in D : Cardinality(t) <= Cardinality(u)
  BY SmallestSet
<1>2. PICK y \in t : g[t] # f[y] + g[t \ {y}]
  OBVIOUS
<1> DEFINE a == First(t)
<1>3. IsFiniteSet(t) /\ t \in SUBSET S /\ t # {}
  BY <1>2, FS_Subset
<1>4. a \in t /\ g[t] = f[a] + g[t \ {a}]
  BY <1>3, FirstTaken, TableStep DEF g
<1>5. a # y
  BY <1>2, <1>4
<1>6. /\ t \ {a} \notin D /\ t \ {y} \notin D
  BY <1>1, <1>2, <1>3, <1>4, SmallerSet
<1> HIDE DEF a
<1>7. g[t \ {a}] = f[y] + g[(t \ {a}) \ {y}]
  BY <1>2, <1>3, <1>5, <1>6
<1>8. g[t \ {y}] = f[a] + g[(t \ {y}) \ {a}]
  BY <1>2, <1>3, <1>4, <1>5, <1>6
<1>9. (t \ {a}) \ {y} = (t \ {y}) \ {a}
  OBVIOUS
<1>10. PICK rest \in Int : rest = g[(t \ {a}) \ {y}] /\ rest = g[(t \ {y}) \ {a}]
  BY <1>3, <1>9, SumIsInt DEF g
<1>11. f[a] \in Int /\ f[y] \in Int
  BY <1>2, <1>3, <1>4
<1>12. g[t] = f[a] + (f[y] + rest) /\ g[t \ {y}] = f[a] + rest
  BY <1>4, <1>7, <1>8, <1>10
<1> QED BY <1>2, <1>10, <1>11, <1>12

(* The sum of a subset depends on the entries of the subset only.          *)
LEMMA SameEntries ==
    ASSUME NEW S, IsFiniteSet(S), NEW f, NEW h, NEW s \in SUBSET S,
           \A x \in s : f[x] = h[x]
    PROVE  TableOf(f, S)[s] = TableOf(h, S)[s]
<1> DEFINE g == TableOf(f, S)
           k == TableOf(h, S)
           D == {t \in SUBSET S : t \subseteq s /\ g[t] # k[t]}
<1> HIDE DEF g, k
<1> SUFFICES ASSUME D # {} PROVE FALSE
  BY DEF g, k
<1>1. PICK t \in D : \A u \in D : Cardinality(t) <= Cardinality(u)
  BY SmallestSet
<1>2. /\ t = {} => g[t] = 0 /\ k[t] = 0
      /\ t # {} => /\ g[t] = f[First(t)] + g[t \ {First(t)}]
                  /\ k[t] = h[First(t)] + k[t \ {First(t)}]
  BY TableStep DEF g, k
<1>3. t # {}
  BY <1>1, <1>2
<1>4. IsFiniteSet(t) /\ t \in SUBSET S
  BY FS_Subset
<1>5. First(t) \in t /\ t \ {First(t)} \notin D
  BY <1>1, <1>3, <1>4, FirstTaken, SmallerSet
<1>6. g[t \ {First(t)}] = k[t \ {First(t)}] /\ f[First(t)] = h[First(t)]
  BY <1>4, <1>5
<1> QED BY <1>1, <1>2, <1>3, <1>6

-----------------------------------------------------------------------------
(* The facts that proofs about sums use.                                   *)

LEMMA SumType ==
    ASSUME NEW S, IsFiniteSet(S), NEW f \in [S -> Int]
    PROVE  Sum(f, S) \in Int
    BY SumIsTable, SumIsInt

(* The sum changes by as much as one entry.                                *)
LEMMA SumChanges ==
    ASSUME NEW S, IsFiniteSet(S), NEW f \in [S -> Int], NEW h \in [S -> Int], NEW x \in S,
           \A y \in S \ {x} : h[y] = f[y]
    PROVE  Sum(h, S) = Sum(f, S) + (h[x] - f[x])
<1>1. /\ Sum(f, S) = f[x] + TableOf(f, S)[S \ {x}]
      /\ Sum(h, S) = h[x] + TableOf(h, S)[S \ {x}]
  <2>1. S \in SUBSET S /\ Sum(f, S) = TableOf(f, S)[S] /\ Sum(h, S) = TableOf(h, S)[S]
    BY SumIsTable
  <2>2. \A s \in SUBSET S : x \in s => TableOf(f, S)[s] = f[x] + TableOf(f, S)[s \ {x}]
    BY TakeAny
  <2>3. \A s \in SUBSET S : x \in s => TableOf(h, S)[s] = h[x] + TableOf(h, S)[s \ {x}]
    BY TakeAny
  <2> QED BY <2>1, <2>2, <2>3
<1>2. TableOf(h, S)[S \ {x}] = TableOf(f, S)[S \ {x}]
  BY SameEntries
<1>3. TableOf(f, S)[S \ {x}] \in Int
  BY SumIsInt
<1> QED BY <1>1, <1>2, <1>3

LEMMA SumsAgree ==
    ASSUME NEW S, IsFiniteSet(S), NEW f, NEW h, \A x \in S : f[x] = h[x]
    PROVE  Sum(f, S) = Sum(h, S)
    BY SumIsTable, SameEntries

LEMMA SumOfZeros ==
    ASSUME NEW S, IsFiniteSet(S), NEW f \in [S -> Int], \A x \in S : f[x] = 0
    PROVE  Sum(f, S) = 0
<1> DEFINE g == TableOf(f, S)
           D == {t \in SUBSET S : g[t] # 0}
<1> HIDE DEF g
<1> SUFFICES ASSUME D # {} PROVE FALSE
  BY SumIsTable DEF g
<1>1. PICK t \in D : \A u \in D : Cardinality(t) <= Cardinality(u)
  BY SmallestSet
<1>a. t \in SUBSET S
  OBVIOUS
<1>2. /\ t = {} => g[t] = 0
      /\ t # {} => g[t] = f[First(t)] + g[t \ {First(t)}]
  BY <1>a, TableStep DEF g
<1>3. t # {} /\ IsFiniteSet(t) /\ t \in SUBSET S
  BY <1>1, <1>2, FS_Subset
<1>4. First(t) \in t /\ t \ {First(t)} \notin D
  BY <1>1, <1>3, FirstTaken, SmallerSet
<1>5. g[t \ {First(t)}] = 0 /\ f[First(t)] = 0
  BY <1>3, <1>4
<1> QED BY <1>1, <1>2, <1>3, <1>5

-----------------------------------------------------------------------------
(* Tables: a row of columns T for each of S.                               *)
RowSums(f, S, T) == [p \in S |-> Sum(f[p], T)]
TableSum(f, S, T) == Sum(RowSums(f, S, T), S)

Tables(S, T) == [S -> [T -> Int]]

(* Two tables that differ at most at (x, y).                               *)
SameElsewhere(f, h, x, y, S, T) ==
    \A p \in S, q \in T : p # x \/ q # y => h[p][q] = f[p][q]

LEMMA RowSumsType ==
    ASSUME NEW S, NEW T, IsFiniteSet(T), NEW f \in Tables(S, T)
    PROVE  RowSums(f, S, T) \in [S -> Int]
<1>1. \A p \in S : f[p] \in [T -> Int]
  BY DEF Tables
<1>2. \A p \in S : Sum(f[p], T) \in Int
  BY <1>1, SumType
<1> QED BY <1>2 DEF RowSums

LEMMA TableSumType ==
    ASSUME NEW S, NEW T, IsFiniteSet(S), IsFiniteSet(T), NEW f \in Tables(S, T)
    PROVE  TableSum(f, S, T) \in Int
<1> DEFINE rows == RowSums(f, S, T)
<1>1. rows \in [S -> Int]
  BY RowSumsType
<1> HIDE DEF rows
<1>2. Sum(rows, S) \in Int
  BY <1>1, SumType
<1> QED BY <1>2 DEF TableSum, rows

LEMMA RowSumsChange ==
    ASSUME NEW S, NEW T, IsFiniteSet(S), NEW f, NEW h, NEW x \in S,
           RowSums(f, S, T) \in [S -> Int], RowSums(h, S, T) \in [S -> Int],
           \A p \in S \ {x} : RowSums(h, S, T)[p] = RowSums(f, S, T)[p]
    PROVE  TableSum(h, S, T)
             = TableSum(f, S, T) + (RowSums(h, S, T)[x] - RowSums(f, S, T)[x])
  BY SumChanges DEF TableSum

LEMMA TableSumChanges ==
    ASSUME NEW S, NEW T, IsFiniteSet(S), IsFiniteSet(T),
           NEW f \in Tables(S, T), NEW h \in Tables(S, T), NEW x \in S, NEW y \in T,
           SameElsewhere(f, h, x, y, S, T)
    PROVE  TableSum(h, S, T) = TableSum(f, S, T) + (h[x][y] - f[x][y])
<1> DEFINE old == RowSums(f, S, T)
           new == RowSums(h, S, T)
<1>1. old \in [S -> Int] /\ new \in [S -> Int]
  BY RowSumsType
<1>2. old[x] = Sum(f[x], T) /\ new[x] = Sum(h[x], T)
  BY DEF RowSums
<1>3. ASSUME NEW p \in S \ {x} PROVE new[p] = old[p]
  <2>1. \A q \in T : h[p][q] = f[p][q]
    BY DEF SameElsewhere
  <2>2. Sum(h[p], T) = Sum(f[p], T)
    BY <2>1, SumsAgree
  <2> QED BY <2>2 DEF RowSums
<1>4. Sum(h[x], T) = Sum(f[x], T) + (h[x][y] - f[x][y])
  <2>1. f[x] \in [T -> Int] /\ h[x] \in [T -> Int] /\ \A q \in T \ {y} : h[x][q] = f[x][q]
    BY DEF Tables, SameElsewhere
  <2> QED BY <2>1, SumChanges
<1>5. TableSum(h, S, T) = TableSum(f, S, T) + (new[x] - old[x])
  <2>1. \A p \in S \ {x} : new[p] = old[p]
    BY <1>3
  <2> QED BY <1>1, <2>1, RowSumsChange
<1> HIDE DEF old, new
<1>6. new[x] - old[x] = h[x][y] - f[x][y]
  <2>1. old[x] \in Int /\ new[x] \in Int /\ f[x][y] \in Int /\ h[x][y] \in Int
    BY <1>1 DEF Tables
  <2> QED BY <1>2, <1>4, <2>1
<1> QED BY <1>5, <1>6

LEMMA TableOfZeros ==
    ASSUME NEW S, NEW T, IsFiniteSet(S), IsFiniteSet(T), NEW f \in Tables(S, T),
           \A p \in S, q \in T : f[p][q] = 0
    PROVE  TableSum(f, S, T) = 0
<1> DEFINE rows == RowSums(f, S, T)
<1>1. ASSUME NEW p \in S PROVE Sum(f[p], T) = 0
  <2>1. f[p] \in [T -> Int] /\ \A q \in T : f[p][q] = 0
    BY DEF Tables
  <2> QED BY <2>1, SumOfZeros
<1>2. rows \in [S -> Int] /\ \A p \in S : rows[p] = 0
  BY <1>1, RowSumsType DEF RowSums
<1> HIDE DEF rows
<1>3. Sum(rows, S) = 0
  BY <1>2, SumOfZeros
<1> QED BY <1>3 DEF TableSum, rows

(* A sum of naturals is no less than any of its terms.                     *)
LEMMA SumOfNats ==
    ASSUME NEW S, IsFiniteSet(S), NEW f \in [S -> Int], \A x \in S : f[x] >= 0,
           NEW s \in SUBSET S
    PROVE  TableOf(f, S)[s] >= 0
<1> DEFINE g == TableOf(f, S)
           D == {t \in SUBSET S : ~(g[t] >= 0)}
<1>a. \A t \in SUBSET S : g[t] \in Int
  BY SumIsInt
<1>b. ASSUME NEW t \in SUBSET S
      PROVE  /\ t = {} => g[t] = 0
             /\ t # {} => g[t] = f[First(t)] + g[t \ {First(t)}]
  BY TableStep
<1> HIDE DEF g
<1> SUFFICES ASSUME D # {} PROVE FALSE
  BY DEF g
<1>1. PICK t \in D : \A u \in D : Cardinality(t) <= Cardinality(u)
  BY SmallestSet
<1>2. t \in SUBSET S
  OBVIOUS
<1>3. /\ t = {} => g[t] = 0
      /\ t # {} => g[t] = f[First(t)] + g[t \ {First(t)}]
  BY <1>2, <1>b
<1>4. t # {} /\ IsFiniteSet(t)
  BY <1>1, <1>2, <1>3, FS_Subset
<1>5. First(t) \in t /\ t \ {First(t)} \notin D /\ t \ {First(t)} \in SUBSET S
  BY <1>1, <1>2, <1>4, FirstTaken, SmallerSet
<1>6. /\ g[t \ {First(t)}] >= 0 /\ f[First(t)] >= 0
      /\ g[t \ {First(t)}] \in Int /\ f[First(t)] \in Int
  BY <1>a, <1>2, <1>5
<1> QED BY <1>1, <1>3, <1>4, <1>6

LEMMA SumBounds ==
    ASSUME NEW S, IsFiniteSet(S), NEW f \in [S -> Int], \A x \in S : f[x] >= 0
    PROVE  /\ Sum(f, S) \in Int /\ Sum(f, S) >= 0
           /\ \A x \in S : f[x] <= Sum(f, S)
<1>1. /\ S \in SUBSET S /\ Sum(f, S) = TableOf(f, S)[S] /\ Sum(f, S) \in Int
      /\ TableOf(f, S)[S] >= 0
  BY SumIsTable, SumType, SumOfNats
<1>2. ASSUME NEW x \in S PROVE f[x] <= Sum(f, S)
  <2>1. TableOf(f, S)[S] = f[x] + TableOf(f, S)[S \ {x}]
    BY <1>1, TakeAny
  <2>2. TableOf(f, S)[S \ {x}] >= 0 /\ TableOf(f, S)[S \ {x}] \in Int /\ f[x] \in Int
    BY SumOfNats, SumIsInt
  <2> QED BY <1>1, <2>1, <2>2
<1> QED BY <1>1, <1>2

LEMMA TableSumBounds ==
    ASSUME NEW S, NEW T, IsFiniteSet(S), IsFiniteSet(T), NEW f \in Tables(S, T),
           \A p \in S, q \in T : f[p][q] >= 0
    PROVE  /\ TableSum(f, S, T) \in Int /\ TableSum(f, S, T) >= 0
           /\ \A p \in S, q \in T : f[p][q] <= TableSum(f, S, T)
<1>1. ASSUME NEW p \in S
      PROVE  /\ f[p] \in [T -> Int] /\ Sum(f[p], T) \in Int /\ Sum(f[p], T) >= 0
             /\ \A q \in T : f[p][q] <= Sum(f[p], T)
  <2>1. f[p] \in [T -> Int]
    BY DEF Tables
  <2> QED BY <2>1, SumBounds
<1>2. /\ RowSums(f, S, T) \in [S -> Int]
      /\ \A p \in S : RowSums(f, S, T)[p] = Sum(f[p], T)
  BY <1>1 DEF RowSums
<1>3. \A p \in S : RowSums(f, S, T)[p] >= 0
  BY <1>1, <1>2
<1>4. /\ TableSum(f, S, T) \in Int /\ TableSum(f, S, T) >= 0
      /\ \A p \in S : RowSums(f, S, T)[p] <= TableSum(f, S, T)
  BY <1>2, <1>3, SumBounds DEF TableSum
<1>5. ASSUME NEW p \in S, NEW q \in T PROVE f[p][q] <= TableSum(f, S, T)
  <2>1. f[p][q] \in Int /\ f[p][q] <= Sum(f[p], T) /\ Sum(f[p], T) \in Int
    BY <1>1
  <2>2. Sum(f[p], T) <= TableSum(f, S, T)
    BY <1>2, <1>4
  <2> QED BY <1>4, <2>1, <2>2
<1> QED BY <1>4, <1>5
=============================================================================
