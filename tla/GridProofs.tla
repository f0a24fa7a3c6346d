------------------------------- MODULE GridProofs -------------------------------
(***************************************************************************)
(* Theorems about the search space of a job.  A range stands for every     *)
(* value of its set once (RangeIs); each key multiplies the combinations   *)
(* found before it (ExtendFinds, ExtendOrders), so that the product over   *)
(* the sorted keys is complete, as long as promised and in order           *)
(* (ProductIs).  GridInv says that the runner works on the very grid the   *)
(* job was accepted with.                                                  *)
(***************************************************************************)
EXTENDS MCAlgorithms, MetricsProofs, TLAPS

(* Position n of a list of blocks of m: block i, place j in it.            *)
InBlock(n, m, i, j) == i = ((n - 1) \div m) + 1 /\ j = ((n - 1) % m) + 1

LEMMA PlaceOf ==
  ASSUME NEW m \in Nat \ {0}, NEW l \in Nat, NEW n \in 1 .. l * m
  PROVE  \E i \in 1 .. l, j \in 1 .. m : InBlock(n, m, i, j) /\ n = (i - 1) * m + j
<1>1. PICK a \in Nat, q \in Nat, r \in Nat :
        a = n - 1 /\ q = a \div m /\ r = a % m /\ r < m /\ a = q * m + r
  OBVIOUS
<1>2. q < l
  <2> SUFFICES ASSUME q >= l PROVE FALSE
    BY <1>1
  <2>1. q * m >= l * m
    BY <1>1
  <2>2. q * m \in Nat /\ l * m \in Nat /\ a < l * m /\ a >= q * m
    BY <1>1
  <2> QED BY ONLY <2>1, <2>2
<1>3. q + 1 \in 1 .. l /\ r + 1 \in 1 .. m /\ n = ((q + 1) - 1) * m + (r + 1)
  BY <1>1, <1>2
<1>4. InBlock(n, m, q + 1, r + 1)
  BY <1>1 DEF InBlock
<1> QED BY <1>3, <1>4

LEMMA PlaceIs ==
  ASSUME NEW m \in Nat \ {0}, NEW l \in Nat, NEW i \in 1 .. l, NEW j \in 1 .. m
  PROVE  \E n \in 1 .. l * m : InBlock(n, m, i, j)
<1>1. PICK q \in Nat, r \in Nat, a \in Nat : q = i - 1 /\ r = j - 1 /\ r < m /\ a = q * m + r
  <2>1. i - 1 \in Nat /\ j - 1 \in Nat /\ (i - 1) * m \in Nat
    OBVIOUS
  <2> QED BY <2>1
<1>2. a \div m = q /\ a % m = r
  BY <1>1
<1>3. a + 1 \in 1 .. l * m
  <2>1. (q + 1) * m <= l * m
    BY <1>1
  <2>2. (q + 1) * m = q * m + m /\ q * m \in Nat /\ l * m \in Nat
    BY <1>1
  <2> QED BY <1>1, <2>1, <2>2
<1>4. InBlock(a + 1, m, i, j)
  BY <1>1, <1>2 DEF InBlock
<1> QED BY <1>3, <1>4

LEMMA PlacesAscend ==
  ASSUME NEW m \in Nat \ {0}, NEW i \in Nat \ {0}, NEW j \in 1 .. m, NEW g \in Nat \ {0}, NEW h \in 1 .. m,
         (i - 1) * m + j < (g - 1) * m + h
  PROVE  i < g \/ (i = g /\ j < h)
<1>1. i > g => (i - 1) * m >= (g - 1) * m + m
  <2> SUFFICES ASSUME i > g PROVE (i - 1) * m >= (g - 1) * m + m
    OBVIOUS
  <2>1. i - 1 >= g
    OBVIOUS
  <2>2. (i - 1) * m >= g * m
    BY <2>1
  <2>3. g * m = (g - 1) * m + m
    OBVIOUS
  <2> QED BY <2>2, <2>3
<1>2. (i - 1) * m \in Nat /\ (g - 1) * m \in Nat
  OBVIOUS
<1>3. ~(i > g)
  BY <1>1, <1>2
<1> QED BY <1>2, <1>3

-----------------------------------------------------------------------------
(* A grid gives each key a list of numbers that is not empty.              *)
IsGrid(grid, D) ==
  /\ D = DOMAIN grid
  /\ \A k \in D : grid[k] \in Seq(Int) /\ Len(grid[k]) \in Nat \ {0} /\ DOMAIN grid[k] = 1 .. Len(grid[k])

\* The choices of one value for each of some keys.
Combinations(grid, keys) ==
  {f \in [keys -> Int] : \A k \in keys : \E i \in 1 .. Len(grid[k]) : f[k] = grid[k][i]}

\* found lists l combinations, all choices for the keys and no others.
Finds(found, l, grid, keys) ==
  /\ l \in Nat \ {0} /\ DOMAIN found = 1 .. l /\ Len(found) = l
  /\ \A n \in 1 .. l : found[n] \in Combinations(grid, keys)
  /\ \A f \in Combinations(grid, keys) : \E n \in 1 .. l : found[n] = f

LEMMA ExtendIs ==
  ASSUME NEW grid, NEW k, NEW found, NEW l \in Nat, Len(found) = l, NEW m \in Nat, m = Len(grid[k]),
         NEW made, made = Extend(grid, found, k)
  PROVE  /\ made = [n \in 1 .. l * m |-> made[n]]
         /\ \A n \in 1 .. l * m : \A i, j : InBlock(n, m, i, j) => made[n] = With(found[i], k, grid[k][j])
<1>1. made = [n \in 1 .. l * m |->
                With(found[((n - 1) \div m) + 1], k, grid[k][((n - 1) % m) + 1])]
  BY DEF Extend
<1> QED BY <1>1, Zenon DEF InBlock

LEMMA ExtendFinds ==
  ASSUME NEW D, NEW grid, IsGrid(grid, D), NEW keys \in SUBSET D, NEW k \in D, k \notin keys,
         NEW found, NEW l, Finds(found, l, grid, keys)
  PROVE  Finds(Extend(grid, found, k), l * Len(grid[k]), grid, keys \cup {k})
<1>1. PICK m \in Nat \ {0} : m = Len(grid[k]) /\ \A j \in 1 .. m : grid[k][j] \in Int
  BY DEF IsGrid
<1>2. l \in Nat \ {0} /\ Len(found) = l
  BY DEF Finds
<1>3. PICK made : made = Extend(grid, found, k)
  OBVIOUS
<1>4. l * m \in Nat \ {0}
  BY <1>1, <1>2
<1>5. /\ made = [n \in 1 .. l * m |-> made[n]]
      /\ \A n \in 1 .. l * m : \A i, j : InBlock(n, m, i, j) => made[n] = With(found[i], k, grid[k][j])
  <2>1. m \in Nat /\ l \in Nat
    BY <1>1, <1>2
  <2> QED BY <1>1, <1>2, <1>3, <2>1, ExtendIs
<1>6. DOMAIN made = 1 .. l * m /\ Len(made) = l * m
  BY <1>4, <1>5
<1>7. ASSUME NEW n \in 1 .. l * m PROVE made[n] \in Combinations(grid, keys \cup {k})
  <2>1. PICK i \in 1 .. l, j \in 1 .. m : InBlock(n, m, i, j)
    BY <1>1, <1>2, PlaceOf
  <2>2. made[n] = With(found[i], k, grid[k][j])
    BY <1>5, <2>1
  <2>3. found[i] \in Combinations(grid, keys)
    BY DEF Finds
  <2>4. PICK f : f = found[i] /\ f \in [keys -> Int]
                 /\ \A q \in keys : \E x \in 1 .. Len(grid[q]) : f[q] = grid[q][x]
    BY <2>3 DEF Combinations
  <2>5. /\ made[n] \in [keys \cup {k} -> Int]
        /\ made[n][k] = grid[k][j] /\ \A q \in keys : made[n][q] = f[q]
    <3>1. grid[k][j] \in Int /\ f \in [keys -> Int] /\ made[n] = With(f, k, grid[k][j])
      BY <1>1, <2>2, <2>4
    <3>2. made[n] = [q \in keys \cup {k} |-> IF q = k THEN grid[k][j] ELSE f[q]]
      BY <3>1 DEF With
    <3> QED BY <3>1, <3>2
  <2> QED BY <1>1, <2>4, <2>5 DEF Combinations
<1>8. ASSUME NEW f \in Combinations(grid, keys \cup {k}) PROVE \E n \in 1 .. l * m : made[n] = f
  <2>1. f \in [keys \cup {k} -> Int]
        /\ \A q \in keys \cup {k} : \E x \in 1 .. Len(grid[q]) : f[q] = grid[q][x]
    BY DEF Combinations
  <2> DEFINE g == [q \in keys |-> f[q]]
  <2>2. g \in Combinations(grid, keys)
    BY <2>1 DEF Combinations
  <2>3. PICK i \in 1 .. l : found[i] = g
    <3> HIDE DEF g
    <3> QED BY <2>2 DEF Finds
  <2>4. PICK j \in 1 .. m : f[k] = grid[k][j]
    BY <1>1, <2>1
  <2>5. PICK n \in 1 .. l * m : InBlock(n, m, i, j)
    BY <1>1, <1>2, PlaceIs
  <2>6. made[n] = With(g, k, grid[k][j])
    BY <1>5, <2>3, <2>5
  <2>7. With(g, k, grid[k][j]) = f
    <3>1. g \in [keys -> Int] /\ DOMAIN g = keys
      BY <2>1
    <3>2. f = [q \in keys \cup {k} |-> f[q]]
      BY <2>1
    <3>3. \A q \in keys : g[q] = f[q]
      OBVIOUS
    <3> HIDE DEF g
    <3>4. With(g, k, grid[k][j]) = [q \in keys \cup {k} |-> IF q = k THEN f[k] ELSE g[q]]
      BY <2>4, <3>1 DEF With
    <3> QED BY <3>2, <3>3, <3>4
  <2> QED BY <2>6, <2>7
<1> HIDE DEF Extend
<1>9. Finds(made, l * m, grid, keys \cup {k})
  BY <1>4, <1>6, <1>7, <1>8 DEF Finds
<1> QED BY <1>1, <1>3, <1>9

\* f comes before g in the order of the first c keys of s.
Before(f, g, s, c) ==
  \E n \in 1 .. c : f[s[n]] < g[s[n]] /\ \A x \in 1 .. n - 1 : f[s[x]] = g[s[x]]

InTurn(found, l, s, c) == \A a, b \in 1 .. l : a < b => Before(found[a], found[b], s, c)

\* The first j keys of s.
Upto(s, j) == {s[x] : x \in 1 .. j}

LEMMA ExtendOrders ==
  ASSUME NEW D, NEW grid, IsGrid(grid, D), NEW c \in Nat, NEW s \in [1 .. c -> D],
         NEW j \in 1 .. c, \A x \in 1 .. j - 1 : s[x] # s[j],
         NEW found, NEW l, Finds(found, l, grid, Upto(s, j - 1)), InTurn(found, l, s, j - 1),
         Ascending(grid[s[j]])
  PROVE  InTurn(Extend(grid, found, s[j]), l * Len(grid[s[j]]), s, j)
<1>1. PICK k : k = s[j] /\ k \in D /\ k \notin Upto(s, j - 1)
  BY DEF Upto
<1>2. PICK m \in Nat \ {0} : m = Len(grid[k]) /\ DOMAIN grid[k] = 1 .. m
                             /\ \A x \in 1 .. m : grid[k][x] \in Int
  BY <1>1 DEF IsGrid
<1>3. PICK made : made = Extend(grid, found, k)
  OBVIOUS
<1>4. l \in Nat \ {0} /\ Len(found) = l
  BY DEF Finds
<1>5. ASSUME NEW n \in 1 .. l * m, NEW i, NEW x, InBlock(n, m, i, x)
      PROVE  made[n] = With(found[i], k, grid[k][x])
  <2>1. made = [p \in 1 .. l * m |->
                  With(found[((p - 1) \div m) + 1], k, grid[k][((p - 1) % m) + 1])]
    BY <1>2, <1>3, <1>4 DEF Extend
  <2> QED BY <1>5, <2>1, Zenon DEF InBlock
<1>6. ASSUME NEW n \in 1 .. l * m, NEW i \in 1 .. l, NEW x \in 1 .. m, InBlock(n, m, i, x)
      PROVE  made[n][k] = grid[k][x] /\ \A z \in 1 .. j - 1 : made[n][s[z]] = found[i][s[z]]
  <2>1. found[i] \in [Upto(s, j - 1) -> Int]
    BY DEF Finds, Combinations
  <2>2. \A z \in 1 .. j - 1 : s[z] \in Upto(s, j - 1)
    BY DEF Upto
  <2>3. made[n] = [q \in DOMAIN found[i] \cup {k} |-> IF q = k THEN grid[k][x] ELSE found[i][q]]
    <3>1. made[n] = With(found[i], k, grid[k][x])
      BY <1>5, <1>6
    <3> QED BY <3>1 DEF With
  <2> QED BY <1>1, <2>1, <2>2, <2>3
<1>7. ASSUME NEW a \in 1 .. l * m, NEW b \in 1 .. l * m, a < b
      PROVE  Before(made[a], made[b], s, j)
  <2>0. m \in Nat \ {0} /\ l \in Nat /\ a \in 1 .. l * m /\ b \in 1 .. l * m
    BY <1>2, <1>4
  <2>1. PICK i \in 1 .. l, x \in 1 .. m : InBlock(a, m, i, x) /\ a = (i - 1) * m + x
    BY ONLY <2>0, PlaceOf
  <2>2. PICK g \in 1 .. l, y \in 1 .. m : InBlock(b, m, g, y) /\ b = (g - 1) * m + y
    BY ONLY <2>0, PlaceOf
  <2>3. i < g \/ (i = g /\ x < y)
    <3>1. i \in Nat \ {0} /\ g \in Nat \ {0} /\ (i - 1) * m + x < (g - 1) * m + y
      BY <1>7, <2>1, <2>2
    <3> QED BY <3>1, PlacesAscend
  <2>4. /\ made[a][k] = grid[k][x] /\ \A z \in 1 .. j - 1 : made[a][s[z]] = found[i][s[z]]
        /\ made[b][k] = grid[k][y] /\ \A z \in 1 .. j - 1 : made[b][s[z]] = found[g][s[z]]
    BY <1>6, <2>1, <2>2
  <2>5. CASE i < g
    <3>1. PICK n \in 1 .. j - 1 : found[i][s[n]] < found[g][s[n]]
                                  /\ \A z \in 1 .. n - 1 : found[i][s[z]] = found[g][s[z]]
      BY <2>5 DEF InTurn, Before
    <3>2. \A z \in 1 .. n : z \in 1 .. j - 1
      OBVIOUS
    <3>3. made[a][s[n]] < made[b][s[n]] /\ \A z \in 1 .. n - 1 : made[a][s[z]] = made[b][s[z]]
      BY <2>4, <3>1, <3>2
    <3>4. n \in 1 .. j
      OBVIOUS
    <3> QED BY <3>3, <3>4 DEF Before
  <2>6. CASE i = g /\ x < y
    <3>1. made[a][k] < made[b][k]
      <4>1. grid[k][x] < grid[k][y]
        BY <1>1, <1>2, <2>6 DEF Ascending
      <4> QED BY <2>4, <4>1
    <3>2. \A z \in 1 .. j - 1 : made[a][s[z]] = made[b][s[z]]
      BY <2>4, <2>6
    <3> QED BY <1>1, <3>1, <3>2 DEF Before
  <2> QED BY <2>3, <2>5, <2>6
<1> HIDE DEF Extend
<1>8. InTurn(made, l * m, s, j)
  BY <1>7 DEF InTurn
<1> QED BY <1>1, <1>2, <1>3, <1>8

-----------------------------------------------------------------------------
(* Both folds over the keys by their traces.                               *)
CountStep(grid, s) == [p \in (1 .. Len(s)) \X Nat |-> p[2] * Len(grid[s[p[1]]])]

LEMMA CountTrace ==
  ASSUME NEW D, NEW grid, IsGrid(grid, D), NEW s \in Seq(D), s = Keys(grid)
  PROVE  \E h : /\ IsTrace(h, Len(s), Nat, 1, CountStep(grid, s))
               /\ CombinationCount(grid) = h[Len(s)]
<1>1. PICK m \in Nat : m = Len(s) /\ DOMAIN s = 1 .. m
  OBVIOUS
<1> DEFINE P == SUBSET (1 .. m)
           G == CountStep(grid, s)
<1>2. G \in [(1 .. m) \X Nat -> Nat] /\ 1 \in Nat
  <2>1. \A i \in 1 .. m : Len(grid[s[i]]) \in Nat
    BY <1>1 DEF IsGrid
  <2> QED BY <1>1, <2>1 DEF CountStep
<1>3. \A t \in P \ {{}} : Max(t) \in 1 .. m /\ t \ {Max(t)} \in P
  BY MaxOfPositions
<1>4. \A k \in 1 .. m, a \in Nat : G[<<k, a>>] = a * Len(grid[s[k]])
  BY <1>1 DEF CountStep
<1> HIDE DEF G
<1>5. PICK f : Solves(f, m, Nat, 1, G)
  <2>1. Solvable(m, Nat, 1, G)
    BY <1>2, FoldExists
  <2> QED BY <2>1 DEF Solvable
<1>6. \A t \in P : f[t] = IF t = {} THEN 1 ELSE f[t \ {Max(t)}] * Len(grid[s[Max(t)]])
  BY <1>3, <1>4, <1>5 DEF Solves, Folded
<1>7. \E g : g = [t \in P |-> IF t = {} THEN 1 ELSE g[t \ {Max(t)}] * Len(grid[s[Max(t)]])]
  <2>1. f \in [P -> Nat]
    BY <1>5 DEF Solves
  <2> HIDE DEF P
  <2> QED BY <1>6, <2>1
<1>8. PICK g : /\ g = [t \in P |-> IF t = {} THEN 1 ELSE g[t \ {Max(t)}] * Len(grid[s[Max(t)]])]
               /\ CombinationCount(grid) = g[1 .. m]
  <2>1. \E g : /\ g = [t \in P |-> IF t = {} THEN 1 ELSE g[t \ {Max(t)}] * Len(grid[s[Max(t)]])]
               /\ FoldLeft(LAMBDA n, k : n * Len(grid[k]), 1, s) = g[1 .. m]
    BY ONLY <1>1, <1>7 DEF FoldLeft, MapThenFoldSet
  <2> QED BY <2>1, Zenon DEF CombinationCount
<1>9. \A t \in P : g[t] = IF t = {} THEN 1 ELSE g[t \ {Max(t)}] * Len(grid[s[Max(t)]])
  BY <1>8
<1>10. Unfolds(g, m, Nat, 1, G)
  <2>1. g[{}] = 1
    BY <1>9
  <2>2. ASSUME NEW k \in 1 .. m, g[1 .. k - 1] \in Nat
        PROVE  g[1 .. k] = G[<<k, g[1 .. k - 1]>>]
    <3>1. Max(1 .. k) = k /\ (1 .. k) \ {k} = 1 .. k - 1 /\ 1 .. k # {}
      <4>1. k \in Nat \ {0}
        OBVIOUS
      <4> QED BY <4>1, LastOfPrefix
    <3>2. 1 .. k \in P
      OBVIOUS
    <3>3. g[1 .. k] = g[1 .. k - 1] * Len(grid[s[k]])
      BY <1>9, <3>1, <3>2
    <3> QED BY <1>4, <2>2, <3>3
  <2> QED BY <2>1, <2>2 DEF Unfolds
<1>11. FoldsTo(g[1 .. m], m, Nat, 1, G)
  BY <1>1, <1>2, <1>10, TraceOf
<1>12. PICK h : IsTrace(h, m, Nat, 1, G) /\ g[1 .. m] = h[m]
  BY <1>11 DEF FoldsTo
<1> QED BY <1>1, <1>8, <1>12, Zenon DEF G

\* Combinations for some of the keys.
Partial(D) == UNION {[E -> Int] : E \in SUBSET D}

LEMMA ExtendType ==
  ASSUME NEW D, NEW grid, IsGrid(grid, D), NEW k \in D, NEW found \in Seq(Partial(D))
  PROVE  Extend(grid, found, k) \in Seq(Partial(D))
<1>1. PICK m \in Nat \ {0} : m = Len(grid[k]) /\ \A j \in 1 .. m : grid[k][j] \in Int
  BY DEF IsGrid
<1>2. PICK l \in Nat : l = Len(found) /\ \A i \in 1 .. l : found[i] \in Partial(D)
  OBVIOUS
<1>3. ASSUME NEW i \in 1 .. l, NEW v \in Int PROVE With(found[i], k, v) \in Partial(D)
  <2>1. PICK E \in SUBSET D : found[i] \in [E -> Int]
    BY <1>2 DEF Partial
  <2>2. E \cup {k} \in SUBSET D
    OBVIOUS
  <2>3. With(found[i], k, v) \in [E \cup {k} -> Int]
    BY <2>1 DEF With
  <2> QED BY <2>2, <2>3 DEF Partial
<1>4. ASSUME NEW n \in 1 .. l * m
      PROVE  With(found[((n - 1) \div m) + 1], k, grid[k][((n - 1) % m) + 1]) \in Partial(D)
  <2>1. PICK i \in 1 .. l, j \in 1 .. m : InBlock(n, m, i, j)
    <3>1. m \in Nat \ {0} /\ l \in Nat /\ n \in 1 .. l * m
      OBVIOUS
    <3>2. \E i \in 1 .. l, j \in 1 .. m : InBlock(n, m, i, j) /\ n = (i - 1) * m + j
      BY ONLY <3>1, PlaceOf
    <3> QED BY ONLY <3>2
  <2>2. With(found[i], k, grid[k][j]) \in Partial(D)
    BY <1>1, <1>3
  <2> QED BY <2>1, <2>2, Zenon DEF InBlock
<1>5. l * m \in Nat
  BY <1>1, <1>2
<1>6. [n \in 1 .. l * m |-> With(found[((n - 1) \div m) + 1], k, grid[k][((n - 1) % m) + 1])]
        \in Seq(Partial(D))
  BY <1>4, <1>5
<1> QED BY <1>1, <1>2, <1>6 DEF Extend

FindStep(grid, s, A) == [p \in (1 .. Len(s)) \X A |-> Extend(grid, p[2], s[p[1]])]

LEMMA FindTrace ==
  ASSUME NEW D, NEW grid, IsGrid(grid, D), NEW s \in Seq(D), s = Keys(grid),
         NEW A, A = Seq(Partial(D))
  PROVE  \E h : /\ IsTrace(h, Len(s), A, <<<<>>>>, FindStep(grid, s, A))
               /\ Enumerate(grid) = h[Len(s)]
<1>1. PICK m \in Nat : m = Len(s) /\ DOMAIN s = 1 .. m /\ \A i \in 1 .. m : s[i] \in D
  OBVIOUS
<1>2. PICK base : base = <<<<>>>> /\ base \in A
  <2>1. <<>> \in [{} -> Int] /\ {} \in SUBSET D
    OBVIOUS
  <2>2. PICK e : e = <<>> /\ e \in Partial(D)
    BY <2>1 DEF Partial
  <2>3. <<e>> \in Seq(Partial(D))
    BY <2>2
  <2> QED BY <2>2, <2>3
<1> DEFINE P == SUBSET (1 .. m)
           G == FindStep(grid, s, A)
<1>3. G \in [(1 .. m) \X A -> A]
  <2>1. \A i \in 1 .. m, a \in A : Extend(grid, a, s[i]) \in A
    BY <1>1, ExtendType
  <2> QED BY <1>1, <2>1 DEF FindStep
<1>4. \A t \in P \ {{}} : Max(t) \in 1 .. m /\ t \ {Max(t)} \in P
  BY MaxOfPositions
<1>5. \A k \in 1 .. m, a \in A : G[<<k, a>>] = Extend(grid, a, s[k])
  BY <1>1 DEF FindStep
<1> HIDE DEF G
<1>6. PICK f : Solves(f, m, A, base, G)
  <2>1. Solvable(m, A, base, G)
    BY <1>2, <1>3, FoldExists
  <2> QED BY <2>1 DEF Solvable
<1>7. \A t \in P : f[t] = IF t = {} THEN base ELSE Extend(grid, f[t \ {Max(t)}], s[Max(t)])
  BY <1>4, <1>5, <1>6 DEF Solves, Folded
<1>8. \E g : g = [t \in P |-> IF t = {} THEN base ELSE Extend(grid, g[t \ {Max(t)}], s[Max(t)])]
  <2>1. f \in [P -> A]
    BY <1>6 DEF Solves
  <2> HIDE DEF P
  <2> QED BY <1>7, <2>1
<1>9. PICK g : /\ g = [t \in P |-> IF t = {} THEN base ELSE Extend(grid, g[t \ {Max(t)}], s[Max(t)])]
               /\ Enumerate(grid) = g[1 .. m]
  <2>1. \E g : /\ g = [t \in P |-> IF t = {} THEN base ELSE Extend(grid, g[t \ {Max(t)}], s[Max(t)])]
               /\ FoldLeft(LAMBDA found, k : Extend(grid, found, k), base, s) = g[1 .. m]
    BY ONLY <1>1, <1>8 DEF FoldLeft, MapThenFoldSet
  <2> QED BY <1>2, <2>1, Zenon DEF Enumerate
<1>10. \A t \in P : g[t] = IF t = {} THEN base ELSE Extend(grid, g[t \ {Max(t)}], s[Max(t)])
  BY <1>9
<1>11. Unfolds(g, m, A, base, G)
  <2>1. g[{}] = base
    BY <1>10
  <2>2. ASSUME NEW k \in 1 .. m, g[1 .. k - 1] \in A
        PROVE  g[1 .. k] = G[<<k, g[1 .. k - 1]>>]
    <3>1. Max(1 .. k) = k /\ (1 .. k) \ {k} = 1 .. k - 1 /\ 1 .. k # {}
      <4>1. k \in Nat \ {0}
        OBVIOUS
      <4> QED BY <4>1, LastOfPrefix
    <3>2. 1 .. k \in P
      OBVIOUS
    <3>3. g[1 .. k] = Extend(grid, g[1 .. k - 1], s[k])
      BY <1>10, <3>1, <3>2
    <3> QED BY <1>5, <2>2, <3>3
  <2> QED BY <2>1, <2>2 DEF Unfolds
<1>12. FoldsTo(g[1 .. m], m, A, base, G)
  BY <1>2, <1>3, <1>11, TraceOf
<1>13. PICK h : IsTrace(h, m, A, base, G) /\ g[1 .. m] = h[m]
  BY <1>12 DEF FoldsTo
<1> QED BY <1>1, <1>2, <1>9, <1>13, Zenon DEF G

-----------------------------------------------------------------------------
(* The product of a grid: as many combinations as counted, each choice     *)
(* among them, in the order of the keys when each list ascends, and no     *)
(* fewer than any list has values.                                         *)
Rising(grid) == \A k \in DOMAIN grid : Ascending(grid[k])

ProductOf(found, l, grid, s, j) ==
  /\ Finds(found, l, grid, Upto(s, j)) /\ (Rising(grid) => InTurn(found, l, s, j))
  /\ l \in Nat \ {0} /\ \A x \in 1 .. j : Len(grid[s[x]]) <= l

LEMMA ProductOfNothing ==
  ASSUME NEW grid, NEW s
  PROVE  ProductOf(<<<<>>>>, 1, grid, s, 0)
<1>1. Upto(s, 0) = {}
  BY DEF Upto
<1>2. \A f \in [{} -> Int] : f = <<>>
  OBVIOUS
<1>3. <<>> \in [{} -> Int]
  OBVIOUS
<1>4. Finds(<<<<>>>>, 1, grid, {})
  BY <1>2, <1>3 DEF Finds, Combinations
<1>5. InTurn(<<<<>>>>, 1, s, 0)
  BY DEF InTurn
<1> QED BY <1>1, <1>4, <1>5 DEF ProductOf

LEMMA ProductStep ==
  ASSUME NEW m \in Nat, NEW D \in SUBSET (0 .. m), NEW grid, IsGrid(grid, D),
         NEW c, NEW s, Orders(s, c, D),
         NEW j \in 1 .. c, NEW found, NEW l, ProductOf(found, l, grid, s, j - 1)
  PROVE  ProductOf(Extend(grid, found, s[j]), l * Len(grid[s[j]]), grid, s, j)
<1>1. c \in Nat /\ s \in [1 .. c -> D] /\ \A x, y \in 1 .. c : x < y => s[x] < s[y]
  BY DEF Orders
<1>2. ASSUME NEW x \in 1 .. j - 1 PROVE s[x] # s[j] /\ s[x] \in D
  <2>1. x \in 1 .. c /\ x < j
    BY <1>1
  <2>2. s[x] < s[j] /\ s[x] \in D /\ s[j] \in D
    BY <1>1, <2>1
  <2>3. s[x] \in 0 .. m /\ s[j] \in 0 .. m
    BY <2>2
  <2> QED BY <2>2, <2>3
<1>3. PICK k : k = s[j] /\ k \in D /\ k \notin Upto(s, j - 1)
  BY <1>1, <1>2 DEF Upto
<1>4. PICK keys : keys = Upto(s, j - 1) /\ keys \in SUBSET D
  BY <1>2 DEF Upto
<1>5. Upto(s, j) = keys \cup {k}
  <2>1. 1 .. j = (1 .. j - 1) \cup {j}
    BY <1>1
  <2> QED BY <1>3, <1>4, <2>1 DEF Upto
<1>6. PICK made, n : made = Extend(grid, found, s[j]) /\ n = l * Len(grid[s[j]])
  OBVIOUS
<1>7. Finds(made, n, grid, Upto(s, j))
  <2>1. Finds(found, l, grid, keys)
    BY <1>4 DEF ProductOf
  <2>2. Finds(Extend(grid, found, k), l * Len(grid[k]), grid, keys \cup {k})
    BY <1>3, <1>4, <2>1, ExtendFinds
  <2> QED BY <1>3, <1>5, <1>6, <2>2
<1>8. ASSUME Rising(grid) PROVE InTurn(made, n, s, j)
  <2>1. Finds(found, l, grid, Upto(s, j - 1)) /\ InTurn(found, l, s, j - 1)
    BY <1>8 DEF ProductOf
  <2>2. Ascending(grid[s[j]])
    BY <1>3, <1>8 DEF Rising, IsGrid
  <2>3. InTurn(Extend(grid, found, s[j]), l * Len(grid[s[j]]), s, j)
    BY <1>1, <1>2, <2>1, <2>2, ExtendOrders
  <2> QED BY <1>6, <2>3
<1>9. n \in Nat \ {0} /\ \A x \in 1 .. j : Len(grid[s[x]]) <= n
  <2>1. /\ l \in Nat \ {0} /\ \A x \in 1 .. j - 1 : Len(grid[s[x]]) <= l
        /\ Len(grid[k]) \in Nat \ {0}
    BY <1>3 DEF ProductOf, IsGrid
  <2>2. PICK w \in Nat \ {0} : w = Len(grid[k]) /\ n = l * w
    BY <1>3, <1>6, <2>1
  <2>3. l * w \in Nat \ {0} /\ l <= l * w /\ w <= l * w
    BY <2>1, <2>2
  <2>4. \A x \in 1 .. j - 1 : Len(grid[s[x]]) \in Nat
    BY <1>2 DEF IsGrid
  <2>5. \A x \in 1 .. j : x \in 1 .. j - 1 \/ x = j
    BY <1>1
  <2> QED BY <1>3, <2>1, <2>2, <2>3, <2>4, <2>5
<1> QED BY <1>6, <1>7, <1>8, <1>9 DEF ProductOf

LEMMA ProductIs ==
  ASSUME NEW m \in Nat, NEW D \in SUBSET (0 .. m), NEW grid, IsGrid(grid, D)
  PROVE  \E s, c : /\ s = Keys(grid) /\ Orders(s, c, D)
                   /\ ProductOf(Enumerate(grid), CombinationCount(grid), grid, s, c)
<1>1. PICK s, c : s = Keys(grid) /\ Orders(s, c, D)
  <2>1. D = DOMAIN grid
    BY DEF IsGrid
  <2>2. \E c : Orders(InOrder(D), c, D)
    BY InOrderIs
  <2> QED BY <2>1, <2>2 DEF Keys
<1>2. c \in Nat /\ s \in [1 .. c -> D] /\ s \in Seq(D) /\ Len(s) = c
  BY <1>1 DEF Orders
<1>3. PICK A : A = Seq(Partial(D))
  OBVIOUS
<1>4. PICK h : IsTrace(h, c, A, <<<<>>>>, FindStep(grid, s, A)) /\ Enumerate(grid) = h[c]
  BY <1>1, <1>2, <1>3, FindTrace
<1>5. PICK t : IsTrace(t, c, Nat, 1, CountStep(grid, s)) /\ CombinationCount(grid) = t[c]
  BY <1>1, <1>2, CountTrace
<1> DEFINE S == {j \in 0 .. c : ProductOf(h[j], t[j], grid, s, j)}
<1>6. 0 \in S
  <2>1. h[0] = <<<<>>>> /\ t[0] = 1
    BY <1>4, <1>5 DEF IsTrace
  <2>2. ProductOf(<<<<>>>>, 1, grid, s, 0)
    BY ProductOfNothing
  <2> QED BY <1>2, <2>1, <2>2
<1>7. ASSUME NEW j \in 1 .. c, j - 1 \in S PROVE j \in S
  <2>1. ProductOf(h[j - 1], t[j - 1], grid, s, j - 1) /\ j - 1 \in 0 .. c /\ j \in 0 .. c
    BY <1>2, <1>7
  <2>2. h[j - 1] \in A /\ h[j] = FindStep(grid, s, A)[<<j, h[j - 1]>>]
    BY <1>4, <2>1 DEF IsTrace
  <2>3. h[j] = Extend(grid, h[j - 1], s[j])
    BY <1>2, <2>2 DEF FindStep
  <2>4. t[j - 1] \in Nat /\ t[j] = CountStep(grid, s)[<<j, t[j - 1]>>]
    BY <1>5, <2>1 DEF IsTrace
  <2>5. t[j] = t[j - 1] * Len(grid[s[j]])
    BY <1>2, <2>4 DEF CountStep
  <2>6. ProductOf(Extend(grid, h[j - 1], s[j]), t[j - 1] * Len(grid[s[j]]), grid, s, j)
    BY <1>1, <2>1, ProductStep
  <2> QED BY <2>1, <2>3, <2>5, <2>6
<1>8. c \in S
  <2> HIDE DEF S
  <2>1. \A j \in 1 .. c : j - 1 \in S => j \in S
    BY <1>7
  <2>2. \A j \in 0 .. c : j \in S
    BY <1>2, <1>6, <2>1, Induct
  <2> QED BY <1>2, <2>2
<1> QED BY <1>1, <1>4, <1>5, <1>8

-----------------------------------------------------------------------------
(* The values of one key.                                                  *)
WholeNumber(x) == \E w \in Int : x = w * Unit

LEMMA UnitIs == Unit \in Nat \ {0} /\ FloatCap \in Nat \ {0} /\ None \notin Int /\ Bad \notin Int
BY GridAssumption

LEMMA TruncateIs ==
  ASSUME NEW x \in Int
  PROVE  Truncate(x) \in Int /\ WholeNumber(Truncate(x))
<1>1. CASE x >= 0
  <2>1. PICK q \in Nat : q = x \div Unit
    BY <1>1, UnitIs
  <2>2. Truncate(x) = q * Unit /\ q * Unit \in Int
    BY <1>1, <2>1, UnitIs DEF Truncate
  <2> QED BY <2>1, <2>2 DEF WholeNumber
<1>2. CASE ~(x >= 0)
  <2>1. PICK q \in Nat : q = (-x) \div Unit
    BY <1>2, UnitIs
  <2>2. Truncate(x) = -(q * Unit)
    BY <1>2, <2>1 DEF Truncate
  <2>3. -(q * Unit) = (-q) * Unit /\ -q \in Int /\ (-q) * Unit \in Int
    BY <2>1, UnitIs
  <2> QED BY <2>2, <2>3 DEF WholeNumber
<1> QED BY <1>1, <1>2

LEMMA TruncateWhole ==
  ASSUME NEW w \in Int
  PROVE  Truncate(w * Unit) = w * Unit
<1>1. CASE w >= 0
  <2>1. w * Unit >= 0 /\ (w * Unit) \div Unit = w
    BY <1>1, UnitIs
  <2> QED BY <2>1 DEF Truncate
<1>2. CASE w < 0
  <2>1. PICK u \in Nat \ {0} : u = -w
    BY <1>2
  <2>2. -(w * Unit) = u * Unit /\ u * Unit > 0 /\ w * Unit = -(u * Unit) /\ w * Unit \in Int
    BY <2>1, UnitIs
  <2>3. (u * Unit) \div Unit = u
    BY <2>1, UnitIs
  <2> QED BY <2>1, <2>2, <2>3, UnitIs DEF Truncate
<1> QED BY <1>1, <1>2

LEMMA CoerceType ==
  ASSUME NEW spec \in ParameterSpec, NEW v \in Int \cup {Bad}
  PROVE  Coerce(spec, v) \in Int \cup {Bad}
BY TruncateIs, UnitIs DEF Coerce, ParameterSpec

LEMMA CoerceTwice ==
  ASSUME NEW spec \in ParameterSpec, NEW v \in Int \cup {Bad}, Coerce(spec, v) # Bad
  PROVE  /\ Coerce(spec, Coerce(spec, v)) = Coerce(spec, v)
         /\ spec.type = "int" => WholeNumber(Coerce(spec, v))
<1>1. v \in Int
  BY DEF Coerce
<1>2. CASE spec.type = "int"
  <2>1. Coerce(spec, v) = Truncate(v) /\ Truncate(v) # Bad
    BY <1>1, <1>2, UnitIs, TruncateIs DEF Coerce
  <2>2. PICK w \in Int : Truncate(v) = w * Unit
    BY <1>1, TruncateIs DEF WholeNumber
  <2>3. Coerce(spec, Truncate(v)) = Truncate(Truncate(v))
    BY <1>1, <1>2, <2>1, TruncateIs DEF Coerce
  <2> QED BY <2>1, <2>2, <2>3, TruncateWhole DEF WholeNumber
<1>3. CASE spec.type = "bool"
  BY <1>1, <1>3, UnitIs DEF Coerce
<1>4. CASE spec.type = "enum"
  BY <1>1, <1>4, UnitIs DEF Coerce
<1>5. CASE spec.type = "float"
  BY <1>1, <1>5, UnitIs DEF Coerce
<1> QED BY <1>2, <1>3, <1>4, <1>5 DEF ParameterSpec

LEMMA Multiples ==
  ASSUME NEW s \in Nat \ {0}, NEW d \in Nat, NEW q \in Nat, q = d \div s
  PROVE  /\ \A i \in 0 .. q : i * s \in 0 .. d /\ (i * s) % s = 0
         /\ \A x \in 0 .. d : x % s = 0 => \E i \in 0 .. q : x = i * s
<1>1. PICK r \in Nat : r = d % s /\ r < s /\ d = q * s + r
  OBVIOUS
<1>2. ASSUME NEW i \in 0 .. q PROVE i * s \in 0 .. d /\ (i * s) % s = 0
  <2>1. i * s <= q * s /\ i * s \in Nat /\ q * s \in Nat
    OBVIOUS
  <2> QED BY <1>1, <2>1
<1>3. ASSUME NEW x \in 0 .. d, x % s = 0 PROVE \E i \in 0 .. q : x = i * s
  <2>1. PICK i \in Nat : i = x \div s /\ x = i * s
    BY <1>3
  <2>2. i <= q
    <3> SUFFICES ASSUME i >= q + 1 PROVE FALSE
      BY <2>1
    <3>1. i * s >= (q + 1) * s /\ (q + 1) * s = q * s + s
      BY <2>1
    <3>2. i * s \in Nat /\ q * s \in Nat
      BY <2>1
    <3> QED BY <1>1, <2>1, <3>1, <3>2
  <2> QED BY <2>1, <2>2
<1> QED BY <1>2, <1>3

LEMMA SumDivides ==
  ASSUME NEW t \in Nat \ {0}, NEW x \in Nat, x % t = 0, NEW y \in Nat, y % t = 0, NEW i \in Nat
  PROVE  (x + i * y) % t = 0
<1>1. PICK p \in Nat, q \in Nat : x = p * t /\ y = q * t
  <2>1. x = (x \div t) * t /\ y = (y \div t) * t /\ x \div t \in Nat /\ y \div t \in Nat
    OBVIOUS
  <2> QED BY <2>1
<1>2. x + i * y = (p + i * q) * t /\ p + i * q \in Nat
  BY <1>1
<1>3. PICK z \in Nat : z = p + i * q
  BY <1>2
<1>4. (z * t) % t = 0
  OBVIOUS
<1> QED BY <1>2, <1>3, <1>4

IsRange(cfg) == cfg.mode = "range" /\ {cfg.min, cfg.max, cfg.step} \subseteq Int \cup {Bad}

\* A range that is not refused: v has n values from a on, s apart, up to b.
Ranges(v, n, spec, cfg, a, b, s) ==
  /\ a = Coerce(spec, cfg.min) /\ b = Coerce(spec, cfg.max) /\ s = Coerce(spec, cfg.step)
  /\ a \in Int /\ b \in Int /\ s \in Nat \ {0} /\ a <= b /\ InBounds(spec, a, b)
  /\ n = RangeLength(spec, a, b, s) /\ n \in Nat \ {0}
  /\ v = [i \in 1 .. n |-> a + (i - 1) * s]

LEMMA RangeFields ==
  ASSUME NEW spec \in ParameterSpec, NEW cfg, IsRange(cfg), NEW v, v = RangeValues(spec, cfg), v # <<>>
  PROVE  \E n, a, b, s : Ranges(v, n, spec, cfg, a, b, s)
<1>1. PICK a, b, s : a = Coerce(spec, cfg.min) /\ b = Coerce(spec, cfg.max) /\ s = Coerce(spec, cfg.step)
  OBVIOUS
<1>2. {a, b, s} \subseteq Int \cup {Bad}
  BY <1>1, CoerceType DEF IsRange
<1>3. /\ Bad \notin {a, b, s} /\ s > 0 /\ a <= b /\ InBounds(spec, a, b)
      /\ v = [i \in 1 .. RangeLength(spec, a, b, s) |-> a + (i - 1) * s]
  BY <1>1 DEF RangeValues
<1>4. a \in Int /\ b \in Int /\ s \in Nat \ {0}
  <2>1. a \in Int /\ b \in Int /\ s \in Int
    BY <1>2, <1>3
  <2> QED BY <1>3, <2>1
<1>5. RangeLength(spec, a, b, s) \in Nat \ {0}
  <2>1. (b - a) \div s \in Nat
    BY <1>3, <1>4
  <2> QED BY <2>1, UnitIs DEF RangeLength
<1> QED BY <1>1, <1>3, <1>4, <1>5 DEF Ranges

(* The list of a range ascends, and unless it has been cut it holds every  *)
(* value of the range once.                                                *)
LEMMA RangeIs ==
  ASSUME NEW k \in DOMAIN Specs, Specs[k] \in ParameterSpec, NEW cfg, IsRange(cfg),
         NEW v, NEW n, NEW a, NEW b, NEW s, Ranges(v, n, Specs[k], cfg, a, b, s)
  PROVE  /\ n < FloatCap => ValueSet(k, cfg) = {v[i] : i \in 1 .. n}
         /\ \A i \in 1 .. n : v[i] \in a .. b
         /\ Ascending(v)
<1>1. PICK float \in BOOLEAN : float = (Specs[k].type = "float")
  OBVIOUS
<1>2. /\ a \in Int /\ b \in Int /\ s \in Nat \ {0} /\ a <= b
      /\ n \in Nat \ {0} /\ v = [i \in 1 .. n |-> a + (i - 1) * s]
  BY DEF Ranges
<1>3. PICK d \in Nat, q \in Nat, cap \in Nat \ {0} : d = b - a /\ q = d \div s /\ cap = FloatCap
  <2>1. PICK d \in Nat : d = b - a
    BY <1>2
  <2>2. d \div s \in Nat
    BY <1>2
  <2> QED BY <2>1, <2>2, UnitIs
<1>4. n = IF float /\ q + 1 > cap THEN cap ELSE q + 1
  BY <1>1, <1>3 DEF Ranges, RangeLength
<1>5. ValueSet(k, cfg) = {x \in a .. b : (x - a) % s = 0}
  BY DEF ValueSet, Ranges, IsRange
<1>6. /\ \A i \in 0 .. q : i * s \in 0 .. d /\ (i * s) % s = 0
      /\ \A x \in 0 .. d : x % s = 0 => \E i \in 0 .. q : x = i * s
  BY <1>2, <1>3, Multiples
<1>7. ASSUME NEW i \in 1 .. n
      PROVE  v[i] = a + (i - 1) * s /\ v[i] \in a .. b /\ (v[i] - a) % s = 0
  <2>1. i - 1 \in 0 .. q /\ v[i] = a + (i - 1) * s
    BY <1>2, <1>3, <1>4
  <2>2. PICK y \in Int : y = (i - 1) * s /\ y \in 0 .. d /\ y % s = 0
    <3>1. PICK j \in 0 .. q : j = i - 1
      BY <2>1
    <3>2. j * s \in 0 .. d /\ (j * s) % s = 0
      BY <1>6
    <3> QED BY <3>1, <3>2
  <2>3. v[i] = a + y /\ v[i] - a = y
    BY <1>2, <2>1, <2>2
  <2> QED BY <1>2, <1>3, <2>1, <2>2, <2>3
<1>8. ASSUME n < cap, NEW x \in a .. b, (x - a) % s = 0
      PROVE  \E i \in 1 .. n : x = v[i]
  <2>1. x - a \in 0 .. d
    BY <1>2, <1>3
  <2>2. PICK i \in 0 .. q : x - a = i * s
    BY <1>6, <1>8, <2>1
  <2>3. i + 1 \in 1 .. n
    BY <1>3, <1>4, <1>8
  <2>4. v[i + 1] = x
    <3>1. v[i + 1] = a + ((i + 1) - 1) * s
      BY <1>2, <2>3
    <3>2. ((i + 1) - 1) * s = i * s
      BY <1>2
    <3> QED BY <1>2, <2>2, <3>1, <3>2
  <2> QED BY <2>3, <2>4
<1>9. n < FloatCap => ValueSet(k, cfg) = {v[i] : i \in 1 .. n}
  BY <1>3, <1>5, <1>7, <1>8
<1>10. ASSUME NEW i \in 1 .. n, NEW j \in 1 .. n, i < j PROVE v[i] < v[j]
  <2>1. (i - 1) * s < (j - 1) * s /\ (i - 1) * s \in Int /\ (j - 1) * s \in Int
    BY <1>2, <1>10
  <2> QED BY <1>2, <1>7, <2>1
<1>11. Ascending(v)
  BY <1>2, <1>10 DEF Ascending
<1> QED BY <1>7, <1>9, <1>11

IsList(cfg) == cfg.mode = "values" /\ cfg.values \in Seq(Int \cup {Bad})

LEMMA ConfigIs ==
  ASSUME NEW cfg \in Configs
  PROVE  IsRange(cfg) \/ IsList(cfg) \/ cfg.mode = "unset"
<1>1. cfg \in Config
  BY GridAssumption
<1> QED BY <1>1 DEF Config, IsRange, IsList

LEMMA SpecIs ==
  ASSUME NEW k \in DOMAIN Specs
  PROVE  Specs[k] \in ParameterSpec /\ k \in Nat
BY GridAssumption

\* What the list v of an accepted key k with its configuration says: it holds
\* the values selected, unless it is the list of a range that was cut.
Accepted(k, cfg, v) ==
  /\ k \in DOMAIN Specs /\ v \in Seq(Int) /\ Len(v) \in Nat \ {0} /\ DOMAIN v = 1 .. Len(v)
  /\ IsList(cfg) \/ Len(v) < FloatCap => ValueSet(k, cfg) = {v[i] : i \in 1 .. Len(v)}
  /\ \A i \in 1 .. Len(v) : Coerce(Specs[k], v[i]) = v[i]

LEMMA ListIs ==
  ASSUME NEW k \in DOMAIN Specs, NEW cfg, IsList(cfg),
         NEW v, v = ListValues(Specs[k], cfg), v # <<>>
  PROVE  Accepted(k, cfg, v)
<1>1. PICK spec : spec = Specs[k] /\ spec \in ParameterSpec
  BY SpecIs
<1>2. PICK u, n : /\ u = cfg.values /\ n \in Nat /\ n = Len(u) /\ DOMAIN u = 1 .. n
                  /\ \A i \in 1 .. n : u[i] \in Int \cup {Bad}
  <2>1. PICK u : u = cfg.values /\ u \in Seq(Int \cup {Bad})
    BY DEF IsList
  <2> QED BY <2>1
<1>3. PICK w : w = [i \in 1 .. n |-> Coerce(spec, u[i])]
  OBVIOUS
<1>4. \A i \in 1 .. n : w[i] \in Int \cup {Bad}
  BY <1>1, <1>2, <1>3, CoerceType
<1>5. w \in Seq(Int \cup {Bad}) /\ Len(w) = n /\ DOMAIN w = 1 .. n
  <2>1. PICK S : S = Int \cup {Bad}
    OBVIOUS
  <2>2. w \in [1 .. n -> S] /\ n \in Nat
    BY <1>2, <1>3, <1>4, <2>1
  <2>3. w \in Seq(S) /\ Len(w) = n /\ DOMAIN w = 1 .. n
    BY ONLY <2>2
  <2> QED BY ONLY <2>1, <2>3
<1>6. v = w /\ ~Contains(w, Bad)
  BY <1>1, <1>2, <1>3 DEF ListValues
<1>7. \A i \in 1 .. n : w[i] \in Int /\ w[i] # Bad
  BY <1>4, <1>5, <1>6 DEF Contains
<1>8. n # 0
  <2> SUFFICES ASSUME n = 0 PROVE FALSE
    OBVIOUS
  <2>1. w = <<>>
    BY <1>3
  <2> QED BY <1>6, <2>1
<1>9. v \in Seq(Int)
  <2>1. w \in [1 .. n -> Int] /\ n \in Nat
    BY <1>2, <1>3, <1>7
  <2> QED BY ONLY <1>6, <2>1
<1>10. ValueSet(k, cfg) = {Coerce(spec, u[i]) : i \in 1 .. n}
  BY <1>1, <1>2 DEF ValueSet, IsList
<1>11. ValueSet(k, cfg) = {v[i] : i \in 1 .. n}
  BY <1>3, <1>6, <1>10
<1>12. ASSUME NEW i \in 1 .. n PROVE Coerce(spec, v[i]) = v[i]
  <2>1. u[i] \in Int \cup {Bad} /\ v[i] = Coerce(spec, u[i]) /\ v[i] # Bad
    BY <1>2, <1>3, <1>6, <1>7
  <2> QED BY <1>1, <2>1, CoerceTwice
<1> QED BY <1>1, <1>2, <1>5, <1>6, <1>8, <1>9, <1>11, <1>12 DEF Accepted

LEMMA RangeAccepted ==
  ASSUME NEW k \in DOMAIN Specs, NEW cfg, IsRange(cfg), Numeric(Specs[k]),
         NEW v, NEW n, NEW a, NEW b, NEW s, Ranges(v, n, Specs[k], cfg, a, b, s)
  PROVE  Accepted(k, cfg, v) /\ Ascending(v)
<1>1. PICK spec : spec = Specs[k] /\ spec \in ParameterSpec /\ spec.type \in {"int", "float"}
  BY SpecIs DEF Numeric
<1>2. /\ n \in Nat \ {0} /\ v = [i \in 1 .. n |-> a + (i - 1) * s]
      /\ a \in Int /\ b \in Int /\ s \in Nat \ {0}
  BY DEF Ranges
<1>3. /\ n < FloatCap => ValueSet(k, cfg) = {v[i] : i \in 1 .. n}
      /\ Ascending(v) /\ \A i \in 1 .. n : v[i] \in a .. b /\ ~IsList(cfg)
  BY <1>1, RangeIs DEF IsRange, IsList
<1>4. v \in Seq(Int) /\ Len(v) = n /\ DOMAIN v = 1 .. n
  <2>1. \A i \in 1 .. n : a + (i - 1) * s \in Int
    BY <1>2
  <2> QED BY <1>2, <2>1
<1>5. ASSUME NEW i \in 1 .. n PROVE Coerce(spec, v[i]) = v[i]
  <2>1. v[i] \in Int /\ v[i] # Bad /\ v[i] = a + (i - 1) * s
    BY <1>2, <1>3, UnitIs
  <2>2. CASE spec.type = "float"
    BY <2>1, <2>2 DEF Coerce
  <2>3. CASE spec.type = "int"
    <3>1. WholeNumber(a) /\ WholeNumber(s)
      <4>1. /\ a = Coerce(spec, cfg.min) /\ s = Coerce(spec, cfg.step) /\ a # Bad /\ s # Bad
            /\ cfg.min \in Int \cup {Bad} /\ cfg.step \in Int \cup {Bad}
        BY <1>1, <1>2, UnitIs DEF Ranges, IsRange
      <4> QED BY <1>1, <2>3, <4>1, CoerceTwice
    <3>2. PICK p \in Int, r \in Int : a = p * Unit /\ s = r * Unit
      BY <3>1 DEF WholeNumber
    <3>3. PICK z \in Int : z = p + (i - 1) * r
      BY <1>2, <3>2
    <3>4. v[i] = z * Unit
      <4>1. Unit \in Int /\ i - 1 \in Int
        BY UnitIs
      <4>2. p * Unit + (i - 1) * (r * Unit) = (p + (i - 1) * r) * Unit
        BY <3>2, <4>1
      <4> QED BY <2>1, <3>2, <3>3, <4>2
    <3>5. Truncate(v[i]) = v[i]
      BY <3>3, <3>4, TruncateWhole
    <3> QED BY <2>1, <2>3, <3>5 DEF Coerce
  <2> QED BY <1>1, <2>2, <2>3
<1> QED BY <1>1, <1>2, <1>3, <1>4, <1>5 DEF Accepted

LEMMA KeyIs ==
  ASSUME NEW k \in DOMAIN Specs \cup {UnknownKey}, NEW cfg \in Configs,
         NEW v, v = KeyValues(k, cfg), v # <<>>
  PROVE  /\ Accepted(k, cfg, v)
         /\ \/ IsList(cfg)
            \/ /\ IsRange(cfg) /\ Numeric(Specs[k]) /\ Ascending(v)
               /\ \E n, a, b, s : Ranges(v, n, Specs[k], cfg, a, b, s)
<1>1. k \in DOMAIN Specs /\ k # UnknownKey /\ Specs[k].tunable
  BY GridAssumption DEF KeyValues
<1>2. CASE IsList(cfg)
  <2>1. v = ListValues(Specs[k], cfg)
    BY <1>1, <1>2 DEF KeyValues, IsList
  <2> QED BY <1>1, <1>2, <2>1, ListIs
<1>3. CASE IsRange(cfg)
  <2>1. Numeric(Specs[k]) /\ v = RangeValues(Specs[k], cfg)
    BY <1>1, <1>3 DEF KeyValues, IsRange
  <2>2. \E n, a, b, s : Ranges(v, n, Specs[k], cfg, a, b, s)
    BY <1>1, <1>3, <2>1, SpecIs, RangeFields
  <2> QED BY <1>1, <1>3, <2>1, <2>2, RangeAccepted
<1>4. CASE cfg.mode = "unset"
  BY <1>1, <1>4 DEF KeyValues
<1> QED BY <1>2, <1>3, <1>4, ConfigIs

-----------------------------------------------------------------------------
(* A selection that create_job accepts, its grid and its combinations.     *)
IsSelection(sel) ==
  DOMAIN sel \subseteq DOMAIN Specs \cup {UnknownKey} /\ \A k \in DOMAIN sel : sel[k] \in Configs

Acceptable(sel) ==
  IsSelection(sel) /\ \A k \in DOMAIN sel : KeyValues(k, sel[k]) # <<>>

LEMMA GridIs ==
  ASSUME NEW sel, Acceptable(sel), NEW grid, grid = BuildGrid(sel), NEW D, D = DOMAIN sel
  PROVE  /\ DOMAIN grid = D /\ IsGrid(grid, D)
         /\ \A k \in D : Accepted(k, sel[k], grid[k]) /\ (sel[k].mode = "range" => Ascending(grid[k]))
         /\ D \in SUBSET (0 .. Len(Specs)) /\ Len(Specs) \in Nat
<1>1. DOMAIN grid = D /\ \A k \in D : grid[k] = KeyValues(k, sel[k])
  BY DEF BuildGrid
<1>2. ASSUME NEW k \in D
      PROVE  Accepted(k, sel[k], grid[k]) /\ (sel[k].mode = "range" => Ascending(grid[k]))
  <2>1. k \in DOMAIN Specs \cup {UnknownKey} /\ sel[k] \in Configs /\ KeyValues(k, sel[k]) # <<>>
    BY DEF Acceptable, IsSelection
  <2>2. PICK v : v = KeyValues(k, sel[k]) /\ v = grid[k]
    BY <1>1
  <2>3. Accepted(k, sel[k], v) /\ (IsList(sel[k]) \/ Ascending(v))
    BY <2>1, <2>2, KeyIs
  <2> QED BY <2>2, <2>3 DEF IsList
<1>3. IsGrid(grid, D)
  BY <1>1, <1>2 DEF IsGrid, Accepted
<1>4. Len(Specs) \in Nat /\ DOMAIN Specs = 1 .. Len(Specs)
  BY GridAssumption
<1>5. D \in SUBSET (0 .. Len(Specs))
  BY <1>2, <1>4 DEF Accepted
<1> QED BY <1>1, <1>2, <1>3, <1>4, <1>5

LEMMA CombosAre ==
  ASSUME NEW sel, Acceptable(sel), NEW grid, grid = BuildGrid(sel), NEW D, D = DOMAIN sel,
         NEW found, found = Enumerate(grid), NEW total, total = CombinationCount(grid)
  PROVE  /\ Finds(found, total, grid, D)
         /\ (\A k \in D : sel[k].mode = "range") =>
              \E s, c : s = Keys(sel) /\ c \in Nat /\ DOMAIN s = 1 .. c /\ InTurn(found, total, s, c)
<1>1. /\ DOMAIN grid = D /\ IsGrid(grid, D)
      /\ \A k \in D : sel[k].mode = "range" => Ascending(grid[k])
      /\ D \in SUBSET (0 .. Len(Specs)) /\ Len(Specs) \in Nat
  BY GridIs
<1>2. PICK s, c : s = Keys(grid) /\ Orders(s, c, D) /\ ProductOf(found, total, grid, s, c)
  BY <1>1, ProductIs
<1>3. c \in Nat /\ DOMAIN s = 1 .. c /\ Upto(s, c) = D
  <2>1. /\ c \in Nat /\ s \in [1 .. c -> D] /\ DOMAIN s = 1 .. c
        /\ \A x \in D : \E i \in 1 .. c : s[i] = x
    BY <1>2 DEF Orders
  <2> QED BY <2>1 DEF Upto
<1>4. s = Keys(sel)
  BY <1>1, <1>2 DEF Keys
<1>5. (\A k \in D : sel[k].mode = "range") => InTurn(found, total, s, c)
  BY <1>1, <1>2 DEF ProductOf, Rising
<1>6. Finds(found, total, grid, D)
  BY <1>2, <1>3 DEF ProductOf
<1> QED BY <1>3, <1>4, <1>5, <1>6

(* A selection within the limit has no list that was cut, for the limit is *)
(* below the cap and each list multiplies the total.                       *)
LEMMA ListsAreShort ==
  ASSUME NEW sel, Acceptable(sel), NEW grid, grid = BuildGrid(sel), NEW D, D = DOMAIN sel,
         CombinationCount(grid) <= MaxCombinations
  PROVE  \A k \in D : Len(grid[k]) < FloatCap
<1>1. /\ DOMAIN grid = D /\ IsGrid(grid, D)
      /\ D \in SUBSET (0 .. Len(Specs)) /\ Len(Specs) \in Nat
  BY GridIs
<1>2. PICK s, c, total : /\ Orders(s, c, D) /\ total = CombinationCount(grid)
                         /\ ProductOf(Enumerate(grid), total, grid, s, c)
  BY <1>1, ProductIs
<1>3. \A k \in D : \E x \in 1 .. c : s[x] = k
  BY <1>2 DEF Orders
<1>4. /\ total \in Nat /\ total <= MaxCombinations
      /\ \A k \in D : Len(grid[k]) <= total /\ Len(grid[k]) \in Nat
  BY <1>1, <1>2, <1>3 DEF ProductOf, IsGrid
<1>5. MaxCombinations \in Nat /\ FloatCap \in Nat /\ MaxCombinations < FloatCap
  BY GridAssumption
<1> QED BY <1>4, <1>5

\* The combinations of the values selected.
Selected(sel) ==
  {f \in [DOMAIN sel -> UNION {ValueSet(k, sel[k]) : k \in DOMAIN sel}] :
     \A k \in DOMAIN sel : f[k] \in ValueSet(k, sel[k])}

LEMMA ChoicesAreSelected ==
  ASSUME NEW sel, Acceptable(sel), NEW grid, grid = BuildGrid(sel), NEW D, D = DOMAIN sel,
         CombinationCount(grid) <= MaxCombinations
  PROVE  Combinations(grid, D) = Selected(sel)
<1>1. \A k \in D : /\ ValueSet(k, sel[k]) = {grid[k][i] : i \in 1 .. Len(grid[k])}
                   /\ \A i \in 1 .. Len(grid[k]) : grid[k][i] \in Int
  <2>1. \A k \in D : Accepted(k, sel[k], grid[k]) /\ Len(grid[k]) < FloatCap
    BY GridIs, ListsAreShort
  <2>2. ASSUME NEW k \in D
        PROVE  /\ ValueSet(k, sel[k]) = {grid[k][i] : i \in 1 .. Len(grid[k])}
               /\ \A i \in 1 .. Len(grid[k]) : grid[k][i] \in Int
    <3>1. PICK v : v = grid[k] /\ Accepted(k, sel[k], v) /\ Len(v) < FloatCap
      BY <2>1
    <3>2. ValueSet(k, sel[k]) = {v[i] : i \in 1 .. Len(v)} /\ \A i \in 1 .. Len(v) : v[i] \in Int
      BY <3>1 DEF Accepted
    <3> QED BY ONLY <3>1, <3>2
  <2> QED BY <2>2
<1>2. PICK V : V = UNION {ValueSet(k, sel[k]) : k \in D}
  OBVIOUS
<1>3. ASSUME NEW f \in Combinations(grid, D) PROVE f \in Selected(sel)
  <2>1. f \in [D -> Int] /\ \A k \in D : f[k] \in ValueSet(k, sel[k])
    BY <1>1 DEF Combinations
  <2>2. f \in [D -> V]
    BY <1>2, <2>1
  <2> QED BY <1>2, <2>1, <2>2 DEF Selected
<1>4. ASSUME NEW f \in Selected(sel) PROVE f \in Combinations(grid, D)
  <2>1. f \in [D -> V] /\ \A k \in D : f[k] \in ValueSet(k, sel[k])
    BY <1>2 DEF Selected
  <2>2. \A k \in D : \E i \in 1 .. Len(grid[k]) : f[k] = grid[k][i] /\ grid[k][i] \in Int
    BY <1>1, <2>1
  <2>3. f \in [D -> Int]
    BY <2>1, <2>2
  <2> QED BY <2>2, <2>3 DEF Combinations
<1> QED BY <1>3, <1>4

-----------------------------------------------------------------------------
(* A job that was accepted keeps its selection, and the runner is somewhere*)
(* on the list that selection stands for.                                  *)
Promised ==
  /\ Acceptable(selection)
  /\ job = [selection |-> selection, total |-> CombinationCount(BuildGrid(selection))]
  /\ job.total <= MaxCombinations
  /\ done \in 0 .. job.total
  /\ outcome = "pending" => done = 0
  /\ outcome = "success" => done = job.total
  /\ outcome = "failed" => done < job.total /\ ~Valid(combos[done + 1])

GridInv ==
  /\ IsSelection(selection)
  /\ outcome \in {"form", "pending", "running", "success", "failed"}
  /\ IF outcome = "form" THEN job = None /\ done = 0 ELSE Promised

LEMMA CombosOfJob ==
  ASSUME NEW sel, Acceptable(sel)
  PROVE  /\ CombinationCount(BuildGrid(sel)) \in Nat \ {0}
         /\ Len(Enumerate(BuildGrid(sel))) = CombinationCount(BuildGrid(sel))
<1>1. PICK grid, found, total, D : /\ grid = BuildGrid(sel) /\ found = Enumerate(grid)
                                   /\ total = CombinationCount(grid) /\ D = DOMAIN sel
  OBVIOUS
<1>2. Finds(found, total, grid, D)
  BY <1>1, CombosAre
<1> QED BY <1>1, <1>2 DEF Finds

LEMMA GridStep ==
  ASSUME GridInv, [Next]_vars
  PROVE  GridInv'
<1>1. ASSUME NEW k \in DOMAIN Specs \cup {UnknownKey}, NEW cfg \in Configs, Fill(k, cfg)
      PROVE  GridInv'
  <2>1. IsSelection(With(selection, k, cfg))
    BY DEF GridInv, IsSelection, With
  <2>2. selection' = With(selection, k, cfg) /\ outcome = "form" /\ UNCHANGED <<job, done, outcome>>
    BY <1>1 DEF Fill
  <2>3. IsSelection(selection')
    BY <2>1, <2>2
  <2> QED BY <2>2, <2>3 DEF GridInv
<1>2. CASE CreateJob
  <2>1. Acceptable(selection)
    BY <1>2 DEF CreateJob, GridInv, Acceptable, BuildGrid
  <2>2. /\ outcome' = "pending" /\ selection' = selection /\ done' = 0
        /\ job' = [selection |-> selection, total |-> CombinationCount(BuildGrid(selection))]
    BY <1>2 DEF CreateJob, GridInv
  <2>3. CombinationCount(BuildGrid(selection)) \in Nat \ {0}
    BY <2>1, CombosOfJob
  <2>4. /\ job'.total = CombinationCount(BuildGrid(selection))
        /\ job'.total <= MaxCombinations
    BY <1>2, <2>2 DEF CreateJob
  <2> QED BY <2>1, <2>2, <2>3, <2>4 DEF GridInv, Promised
<1>3. CASE StartRunner
  BY <1>3 DEF StartRunner, GridInv, Promised, combos
<1>4. outcome = "running" =>
        /\ Promised /\ job.selection = selection /\ job.total \in Nat /\ Len(combos) = job.total
        /\ done \in 0 .. job.total
  BY CombosOfJob DEF GridInv, Promised, combos
<1>5. CASE RunCombination
  <2>1. done' \in 0 .. job.total /\ outcome = "running" /\ UNCHANGED <<selection, job, outcome>>
    BY <1>4, <1>5 DEF RunCombination
  <2> QED BY <1>4, <2>1 DEF GridInv, Promised
<1>6. CASE RefuseCombination
  <2>1. /\ outcome = "running" /\ outcome' = "failed" /\ UNCHANGED <<selection, job, done>>
        /\ done < job.total /\ ~Valid(combos[done + 1]) /\ combos' = combos
    BY <1>4, <1>6 DEF RefuseCombination, combos
  <2> QED BY <1>4, <2>1 DEF GridInv, Promised
<1>7. CASE FinishRunner
  <2>1. /\ outcome = "running" /\ outcome' = "success" /\ UNCHANGED <<selection, job, done>>
        /\ done = job.total
    BY <1>4, <1>7 DEF FinishRunner
  <2> QED BY <1>4, <2>1 DEF GridInv, Promised
<1>8. CASE UNCHANGED gridVars
  BY <1>8 DEF gridVars, GridInv, Promised, combos
<1>9. UNCHANGED vars => UNCHANGED gridVars
  BY DEF vars
<1> QED BY <1>1, <1>2, <1>3, <1>5, <1>6, <1>7, <1>8, <1>9 DEF Next, GridNext

LEMMA GridInductive == Spec => []GridInv
<1>1. ASSUME Init PROVE GridInv
  <2>1. selection = <<>> /\ job = None /\ done = 0 /\ outcome = "form"
    BY <1>1 DEF Init, GridInit
  <2> QED BY <2>1 DEF GridInv, IsSelection
<1> QED
  BY <1>1, GridStep, PTL DEF Spec

-----------------------------------------------------------------------------
LEMMA ExactNow ==
  ASSUME GridInv, job # None
  PROVE  GridIsExact
<1>1. Promised
  BY DEF GridInv
<1>2. PICK sel, grid, found, total, D :
        /\ sel = selection /\ grid = BuildGrid(sel) /\ found = Enumerate(grid)
        /\ total = CombinationCount(grid) /\ D = DOMAIN sel
  OBVIOUS
<1>3. /\ Acceptable(sel) /\ job.selection = sel /\ job.total = total /\ done \in 0 .. total
      /\ combos = found /\ total <= MaxCombinations
  BY <1>1, <1>2 DEF Promised, combos
<1>4. /\ Finds(found, total, grid, D)
      /\ (\A k \in D : sel[k].mode = "range") =>
           \E s, c : s = Keys(sel) /\ c \in Nat /\ DOMAIN s = 1 .. c /\ InTurn(found, total, s, c)
  BY <1>2, <1>3, CombosAre
<1>5. total \in Nat \ {0} /\ DOMAIN found = 1 .. total /\ Len(found) = total
  BY <1>4 DEF Finds
<1>6. ToSet(found) = Selected(sel)
  <2>1. ToSet(found) = {found[n] : n \in 1 .. total}
    BY <1>5 DEF ToSet
  <2>2. ToSet(found) = Combinations(grid, D)
    BY <1>4, <2>1 DEF Finds
  <2>3. Combinations(grid, D) = Selected(sel)
    BY <1>2, <1>3, ChoicesAreSelected
  <2> QED BY <2>2, <2>3
<1>7. ASSUME \A k \in DOMAIN sel : sel[k].mode = "range", NEW i \in 1 .. total, NEW j \in 1 .. total, i < j
      PROVE  \E n \in DOMAIN Keys(sel) :
               /\ found[i][Keys(sel)[n]] < found[j][Keys(sel)[n]]
               /\ \A m \in 1 .. n - 1 : found[i][Keys(sel)[m]] = found[j][Keys(sel)[m]]
  <2>1. PICK s, c : s = Keys(sel) /\ c \in Nat /\ DOMAIN s = 1 .. c /\ InTurn(found, total, s, c)
    BY <1>2, <1>4, <1>7
  <2>2. Before(found[i], found[j], s, c)
    BY <1>7, <2>1 DEF InTurn
  <2> QED BY <2>1, <2>2 DEF Before
<1> QED
  BY <1>3, <1>5, <1>6, <1>7 DEF GridIsExact, Selected

(* Whatever the schema, the form and the limits, the runner enumerates as  *)
(* many combinations as were promised, all those of the values selected,   *)
(* and ranges in order (build_param_grid, ParamGrid.enumerate).            *)
THEOREM GridIsComplete == Spec => []GridIsExact
<1>1. GridInv => GridIsExact
  <2>1. job = None => GridIsExact
    BY DEF GridIsExact
  <2> QED BY <2>1, ExactNow
<1> QED
  BY <1>1, GridInductive, PTL

-----------------------------------------------------------------------------
\* What acceptance does not look at, for one key of the selection.
Unseen(spec, k, cfg) ==
  LET off(x) == spec.type = "int" /\ spec.step # None /\ x % spec.step # 0
  IN  CASE cfg.mode = "values" ->
             /\ Numeric(spec)
             /\ \E v \in ValueSet(k, cfg) :
                  \/ spec.min # None /\ (v < spec.min \/ off(v - spec.min))
                  \/ spec.max # None /\ v > spec.max
        [] cfg.mode = "range" ->
             /\ spec.min # None
             /\ \/ off(Coerce(spec, cfg.min) - spec.min)
                \/ off(Coerce(spec, cfg.step))

(* A value of a range is only refused when the start or step is off.       *)
LEMMA RangeUnseen ==
  ASSUME NEW k \in DOMAIN Specs, NEW cfg \in Configs, IsRange(cfg), Numeric(Specs[k]),
         NEW v, NEW n, NEW a, NEW b, NEW s, Ranges(v, n, Specs[k], cfg, a, b, s),
         NEW i \in 1 .. n, Refused(Specs[k], v[i])
  PROVE  Unseen(Specs[k], k, cfg)
<1>1. PICK spec : spec = Specs[k] /\ spec \in ParameterSpec
  BY SpecIs
<1>2. /\ v[i] = a + (i - 1) * s /\ v[i] \in a .. b
      /\ a \in Int /\ b \in Int /\ s \in Nat \ {0} /\ InBounds(spec, a, b) /\ n \in Nat
      /\ a = Coerce(spec, cfg.min) /\ s = Coerce(spec, cfg.step)
  BY <1>1, RangeIs DEF Ranges
<1>3. /\ spec.min \in Int \cup {None} /\ spec.max \in Int \cup {None}
      /\ spec.step \in (Nat \ {0}) \cup {None}
  BY <1>1 DEF ParameterSpec
<1>4. /\ spec.type = "int" /\ spec.step # None /\ spec.min # None
      /\ (v[i] - spec.min) % spec.step # 0
  <2>1. v[i] # Bad /\ v[i] >= a /\ v[i] <= b /\ v[i] \in Int
    BY <1>2, UnitIs
  <2>2. ~(spec.min # None /\ v[i] < spec.min)
    BY <1>2, <1>3, <2>1 DEF InBounds
  <2>3. ~(spec.max # None /\ v[i] > spec.max)
    BY <1>2, <1>3, <2>1 DEF InBounds
  <2> QED BY <1>1, <2>1, <2>2, <2>3 DEF Refused
<1>5. PICK t \in Nat \ {0}, x \in Nat, l \in Nat : t = spec.step /\ x = a - spec.min /\ l = i - 1
  BY <1>2, <1>3, <1>4 DEF InBounds
<1>6. v[i] - spec.min = x + l * s
  <2>1. l * s \in Nat /\ spec.min \in Int
    BY <1>2, <1>3, <1>4
  <2> QED BY <1>2, <1>5, <2>1
<1>7. x % t # 0 \/ s % t # 0
  <2> SUFFICES ASSUME x % t = 0, s % t = 0 PROVE FALSE
    OBVIOUS
  <2>1. (x + l * s) % t = 0
    BY <1>2, SumDivides
  <2> QED BY <1>4, <1>5, <1>6, <2>1
<1> QED BY <1>1, <1>2, <1>4, <1>5, <1>7 DEF Unseen, IsRange

(* A value of a list is refused for the bounds or the step of a number.    *)
LEMMA ListUnseen ==
  ASSUME NEW k \in DOMAIN Specs, NEW cfg, IsList(cfg), NEW x \in ValueSet(k, cfg), x \in Int,
         Refused(Specs[k], x)
  PROVE  Unseen(Specs[k], k, cfg)
<1>1. x # Bad
  BY UnitIs
<1>2. /\ Numeric(Specs[k])
      /\ \/ /\ Specs[k].min # None
            /\ \/ x < Specs[k].min
               \/ /\ Specs[k].type = "int" /\ Specs[k].step # None
                  /\ (x - Specs[k].min) % Specs[k].step # 0
         \/ Specs[k].max # None /\ x > Specs[k].max
  BY <1>1 DEF Refused, Numeric
<1> QED BY <1>2 DEF Unseen, IsList

LEMMA ValueUnseen ==
  ASSUME NEW k \in DOMAIN Specs \cup {UnknownKey}, NEW cfg \in Configs,
         NEW v, v = KeyValues(k, cfg), v # <<>>,
         NEW i \in 1 .. Len(v), Refused(Specs[k], Coerce(Specs[k], v[i]))
  PROVE  Unseen(Specs[k], k, cfg)
<1>1. /\ Accepted(k, cfg, v)
      /\ \/ IsList(cfg)
         \/ /\ IsRange(cfg) /\ Numeric(Specs[k])
            /\ \E n, a, b, s : Ranges(v, n, Specs[k], cfg, a, b, s)
  BY KeyIs
<1>2. /\ k \in DOMAIN Specs /\ v[i] \in Int /\ (IsList(cfg) => v[i] \in ValueSet(k, cfg))
      /\ Refused(Specs[k], v[i])
  BY <1>1 DEF Accepted
<1>3. CASE IsList(cfg)
  BY <1>2, <1>3, ListUnseen
<1>4. CASE IsRange(cfg) /\ Numeric(Specs[k]) /\ \E n, a, b, s : Ranges(v, n, Specs[k], cfg, a, b, s)
  <2>1. PICK n, a, b, s : Ranges(v, n, Specs[k], cfg, a, b, s)
    BY <1>4
  <2>2. i \in 1 .. n
    <3>1. n \in Nat /\ v = [j \in 1 .. n |-> a + (j - 1) * s]
      BY <2>1 DEF Ranges
    <3>2. DOMAIN v = 1 .. n /\ DOMAIN v = 1 .. Len(v)
      BY <1>1, <3>1 DEF Accepted
    <3> QED BY <3>2
  <2> QED BY <1>2, <1>4, <2>1, <2>2, RangeUnseen
<1> QED BY <1>1, <1>3, <1>4

(* A combination of an accepted grid is refused for one of its keys: the   *)
(* parameters that keep their default are never refused.                   *)
LEMMA CombinationUnseen ==
  ASSUME NEW sel, Acceptable(sel), NEW combo \in Combinations(BuildGrid(sel), DOMAIN sel), ~Valid(combo)
  PROVE  \E k \in DOMAIN sel : Unseen(Specs[k], k, sel[k])
<1>1. DOMAIN combo = DOMAIN sel /\ \A k \in DOMAIN sel :
        \E i \in 1 .. Len(BuildGrid(sel)[k]) : combo[k] = BuildGrid(sel)[k][i]
  BY DEF Combinations
<1>2. PICK k \in DOMAIN Specs :
        Refused(Specs[k], Coerce(Specs[k], IF k \in DOMAIN combo THEN combo[k] ELSE Specs[k].default))
  BY DEF Valid
<1>3. ~Refused(Specs[k], Coerce(Specs[k], Specs[k].default))
  <2>1. DOMAIN <<>> = {}
    OBVIOUS
  <2> QED BY <2>1, DefaultsAreValid DEF Valid
<1>4. k \in DOMAIN sel /\ Refused(Specs[k], Coerce(Specs[k], combo[k]))
  BY <1>1, <1>2, <1>3
<1>5. PICK v : v = KeyValues(k, sel[k]) /\ v = BuildGrid(sel)[k]
  BY <1>4 DEF BuildGrid
<1>6. PICK i \in 1 .. Len(v) : combo[k] = v[i]
  BY <1>1, <1>4, <1>5
<1>7. k \in DOMAIN Specs \cup {UnknownKey} /\ sel[k] \in Configs /\ v # <<>>
  BY <1>4, <1>5 DEF Acceptable, IsSelection
<1>8. Refused(Specs[k], Coerce(Specs[k], v[i]))
  BY <1>4, <1>6
<1>9. Unseen(Specs[k], k, sel[k])
  BY <1>5, <1>7, <1>8, ValueUnseen
<1> QED BY <1>4, <1>9

LEMMA ExplainedNow ==
  ASSUME GridInv
  PROVE  RefusalIsExplained
<1>1. outcome = "success" => done = job.total
  BY DEF GridInv, Promised
<1>2. ASSUME outcome = "failed"
      PROVE  \E k \in DOMAIN job.selection : Unseen(Specs[k], k, job.selection[k])
  <2>1. Promised
    BY <1>2 DEF GridInv
  <2>2. PICK sel, grid, found, total :
          /\ sel = selection /\ grid = BuildGrid(sel) /\ found = Enumerate(grid)
          /\ total = CombinationCount(grid)
    OBVIOUS
  <2>3. /\ Acceptable(sel) /\ job.selection = sel /\ job.total = total /\ done \in 0 .. total
        /\ done < total /\ combos = found /\ ~Valid(found[done + 1])
    BY <1>2, <2>1, <2>2 DEF Promised, combos
  <2>4. Finds(found, total, grid, DOMAIN sel)
    BY <2>2, <2>3, CombosAre
  <2>5. done + 1 \in 1 .. total
    BY <2>3, <2>4 DEF Finds
  <2>6. PICK combo \in Combinations(grid, DOMAIN sel) : combo = found[done + 1]
    BY <2>4, <2>5 DEF Finds
  <2> QED BY <2>2, <2>3, <2>6, CombinationUnseen
<1> QED BY <1>1, <1>2 DEF RefusalIsExplained, Unseen

(* Whatever the schema, the form and the limits, a job that fails does so  *)
(* for a listed number out of bounds or off its step, or a range of whole  *)
(* numbers that starts or steps off it, and a job that succeeds has run    *)
(* every combination (build_param_grid, validate_params, run_job).         *)
THEOREM RefusalsAreExplained == Spec => []RefusalIsExplained
<1> QED
  BY ExplainedNow, GridInductive, PTL
=============================================================================
