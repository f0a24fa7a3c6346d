----------------------------- MODULE MetricsProofs -----------------------------
(***************************************************************************)
(* What the folds and the fractions of Metrics compute, for sequences of   *)
(* any length.  The provers have no induction of their own: an induction   *)
(* is an argument about the set of numbers for which a claim holds         *)
(* (Induct), and a fold is the last element of its trace, the function that*)
(* gives what has been folded up to each position (FoldTrace).  On these   *)
(* rest what follows: sums and means of fractions, gains and losses apart, *)
(* and the equal-weight curve of a portfolio.                              *)
(***************************************************************************)
EXTENDS Metrics, FiniteSetTheorems, WellFoundedInduction, TLAPS

Fraction == Int \X Int
Proper   == Int \X (Nat \ {0})        \* with a positive denominator
Positive == (Nat \ {0}) \X (Nat \ {0})

LEMMA PairOfProper ==
  ASSUME NEW a \in Proper
  PROVE  \E i \in Int, j \in Nat \ {0} : a = <<i, j>>
BY DEF Proper

(* The natural numbers are well ordered.                                   *)
LEMMA LeastNumber ==
  ASSUME NEW S \in SUBSET Nat, S # {}
  PROVE  \E x \in S : \A y \in S : x <= y
<1>1. PICK x \in S : \A y \in S : <<y, x>> \notin OpToRel(<, Nat)
  BY WFMin, NatLessThanWellFounded
<1>2. \A y \in S : ~(y < x)
  BY <1>1 DEF OpToRel
<1> QED BY <1>2

(* Induction up to n over the numbers in S.                                *)
LEMMA Induct ==
  ASSUME NEW n \in Nat, NEW S, 0 \in S, \A k \in 1 .. n : k - 1 \in S => k \in S
  PROVE  \A k \in 0 .. n : k \in S
<1> DEFINE T == {k \in 0 .. n : k \notin S}
<1> SUFFICES ASSUME T # {} PROVE FALSE
  OBVIOUS
<1>1. PICK k \in T : \A j \in T : k <= j
  <2>1. T \in SUBSET Nat
    OBVIOUS
  <2> HIDE DEF T
  <2> QED BY <2>1, LeastNumber
<1>2. k # 0 /\ k - 1 \in 0 .. n /\ k \in 1 .. n
  OBVIOUS
<1>3. k - 1 \in S
  BY <1>1, <1>2
<1> QED BY <1>2, <1>3

LEMMA LastOfPrefix ==
  ASSUME NEW k \in Nat \ {0}
  PROVE  Max(1 .. k) = k /\ (1 .. k) \ {k} = 1 .. k - 1 /\ 1 .. k # {}
<1>1. k \in 1 .. k /\ \A j \in 1 .. k : k >= j
  OBVIOUS
<1>2. \A x \in 1 .. k : (\A j \in 1 .. k : x >= j) => x = k
  OBVIOUS
<1>3. Max(1 .. k) = k
  BY <1>1, <1>2 DEF Max
<1> QED BY <1>1, <1>3

(* A set of positions that is not empty has a last one.                    *)
LEMMA MaxOfPositions ==
  ASSUME NEW n \in Nat, NEW t \in SUBSET (1 .. n), t # {}
  PROVE  Max(t) \in t /\ \A j \in t : Max(t) >= j
<1> DEFINE T == {d \in Nat : \E k \in t : d = n - k}
<1>1. \A k \in t : n - k \in T
  OBVIOUS
<1>2. PICK d \in T : \A e \in T : d <= e
  <2>1. T \in SUBSET Nat /\ T # {}
    BY <1>1
  <2> HIDE DEF T
  <2> QED BY <2>1, LeastNumber
<1>3. PICK k \in t : d = n - k
  OBVIOUS
<1>4. \A j \in t : d <= n - j
  BY <1>1, <1>2
<1>5. \A j \in t : k >= j
  BY <1>3, <1>4
<1> QED BY <1>5 DEF Max

(* A solution of the recursion of MapThenFoldSet over n positions, whatever*)
(* is folded: G[<<k, a>>] is the fold of element k into a.                 *)
Folded(g, s, base, G) == g[s] = IF s = {} THEN base ELSE G[<<Max(s), g[s \ {Max(s)}]>>]
Solves(g, n, A, base, G) ==
  g \in [SUBSET (1 .. n) -> A] /\ \A s \in SUBSET (1 .. n) : Folded(g, s, base, G)
Solvable(n, A, base, G) == \E g : Solves(g, n, A, base, G)

LEMMA SolvableEmpty ==
  ASSUME NEW A, NEW base \in A, NEW G
  PROVE  Solvable(0, A, base, G)
<1> DEFINE g == [s \in SUBSET (1 .. 0) |-> base]
<1>1. \A s \in SUBSET (1 .. 0) : s = {}
  OBVIOUS
<1>2. g \in [SUBSET (1 .. 0) -> A] /\ \A s \in SUBSET (1 .. 0) : g[s] = base
  OBVIOUS
<1> HIDE DEF g
<1>3. Solves(g, 0, A, base, G)
  BY <1>1, <1>2 DEF Solves, Folded
<1> QED BY <1>3 DEF Solvable

LEMMA SolvableStep ==
  ASSUME NEW n \in Nat, NEW k \in 1 .. n, NEW A, NEW base \in A, NEW G \in [(1 .. n) \X A -> A],
         Solvable(k - 1, A, base, G)
  PROVE  Solvable(k, A, base, G)
<1>1. PICK g : Solves(g, k - 1, A, base, G)
  BY DEF Solvable
<1> DEFINE h == [s \in SUBSET (1 .. k) |-> IF k \in s THEN G[<<k, g[s \ {k}]>>] ELSE g[s]]
<1>2. ASSUME NEW s \in SUBSET (1 .. k), k \in s
      PROVE  h[s] \in A /\ Folded(h, s, base, G)
  <2>1. \A x \in s : (\A j \in s : x >= j) <=> x = k
    BY <1>2
  <2>2. Max(s) = k
    BY <1>2, <2>1 DEF Max
  <2>3. s \ {k} \in SUBSET (1 .. k - 1) /\ s \ {k} \in SUBSET (1 .. k) /\ k \notin s \ {k}
    OBVIOUS
  <2>4. h[s \ {k}] = g[s \ {k}] /\ h[s] = G[<<k, g[s \ {k}]>>]
    BY <1>2, <2>3
  <2>5. g[s \ {k}] \in A
    BY <1>1, <2>3 DEF Solves
  <2>6. h[s] \in A
    BY <2>4, <2>5
  <2> HIDE DEF h
  <2> QED BY <1>2, <2>2, <2>4, <2>6 DEF Folded
<1>3. ASSUME NEW s \in SUBSET (1 .. k), k \notin s
      PROVE  h[s] \in A /\ Folded(h, s, base, G)
  <2>1. s \in SUBSET (1 .. k - 1)
    BY <1>3
  <2>2. h[s] = g[s] /\ g[s] \in A
    BY <1>1, <1>3, <2>1 DEF Solves
  <2>3. s \ {Max(s)} \in SUBSET (1 .. k) /\ k \notin s \ {Max(s)}
    BY <1>3
  <2>4. h[s \ {Max(s)}] = g[s \ {Max(s)}]
    BY <2>3
  <2>5. Folded(g, s, base, G)
    BY <1>1, <2>1 DEF Solves
  <2> HIDE DEF h
  <2> QED BY <2>2, <2>4, <2>5 DEF Folded
<1>4. h \in [SUBSET (1 .. k) -> A]
  <2>1. \A s \in SUBSET (1 .. k) : h[s] \in A
    BY <1>2, <1>3
  <2> QED BY <2>1
<1>5. \A s \in SUBSET (1 .. k) : Folded(h, s, base, G)
  <2> HIDE DEF h
  <2> QED BY <1>2, <1>3
<1> HIDE DEF h
<1>6. Solves(h, k, A, base, G)
  BY <1>4, <1>5 DEF Solves
<1> QED BY <1>6 DEF Solvable

LEMMA FoldExists ==
  ASSUME NEW n \in Nat, NEW A, NEW base \in A, NEW G \in [(1 .. n) \X A -> A]
  PROVE  Solvable(n, A, base, G)
<1> DEFINE S == {k \in 0 .. n : Solvable(k, A, base, G)}
<1>1. 0 \in S
  BY SolvableEmpty
<1>2. ASSUME NEW k \in 1 .. n, k - 1 \in S PROVE k \in S
  <2>1. Solvable(k - 1, A, base, G)
    BY <1>2
  <2>2. Solvable(k, A, base, G)
    BY <2>1, SolvableStep
  <2> QED BY <2>2
<1>3. n \in S
  <2> HIDE DEF S
  <2>1. \A k \in 1 .. n : k - 1 \in S => k \in S
    BY <1>2
  <2>2. \A k \in 0 .. n : k \in S
    BY <1>1, <2>1, Induct
  <2> QED BY <2>2
<1> QED BY <1>3

-----------------------------------------------------------------------------
(* h is the trace of folding G from base over n positions.                 *)
IsTrace(h, n, A, base, G) ==
  h \in [0 .. n -> A] /\ h[0] = base /\ \A k \in 1 .. n : h[k] = G[<<k, h[k - 1]>>]

(* What a solution says of the first k positions, for every k, makes a     *)
(* trace that ends with the fold.                                          *)
Unfolds(g, n, A, base, G) ==
  /\ g[{}] = base
  /\ \A k \in 1 .. n : g[1 .. k - 1] \in A => g[1 .. k] = G[<<k, g[1 .. k - 1]>>]

FoldsTo(v, n, A, base, G) == \E h : IsTrace(h, n, A, base, G) /\ v = h[n]

LEMMA TraceOf ==
  ASSUME NEW n \in Nat, NEW A, NEW base \in A, NEW G \in [(1 .. n) \X A -> A],
         NEW g, Unfolds(g, n, A, base, G)
  PROVE  FoldsTo(g[1 .. n], n, A, base, G)
<1> DEFINE h == [k \in 0 .. n |-> g[1 .. k]]
           S == {k \in 0 .. n : g[1 .. k] \in A}
<1>1. g[1 .. 0] = base
  <2>1. 1 .. 0 = {}
    OBVIOUS
  <2> QED BY <2>1 DEF Unfolds
<1>2. 0 \in S
  BY <1>1
<1>3. ASSUME NEW k \in 1 .. n, k - 1 \in S PROVE k \in S
  <2>1. g[1 .. k - 1] \in A
    BY <1>3
  <2>2. g[1 .. k] = G[<<k, g[1 .. k - 1]>>]
    BY <2>1 DEF Unfolds
  <2>3. g[1 .. k] \in A
    BY <2>1, <2>2
  <2> QED BY <2>3
<1>4. \A k \in 0 .. n : k \in S
  <2> HIDE DEF S
  <2>1. \A k \in 1 .. n : k - 1 \in S => k \in S
    BY <1>3
  <2> QED BY <1>2, <2>1, Induct
<1>5. h \in [0 .. n -> A] /\ h[0] = base /\ h[n] = g[1 .. n]
  BY <1>1, <1>4
<1>6. ASSUME NEW k \in 1 .. n PROVE h[k] = G[<<k, h[k - 1]>>]
  <2>1. k - 1 \in 0 .. n /\ k \in 0 .. n /\ g[1 .. k - 1] \in A
    BY <1>4
  <2>2. g[1 .. k] = G[<<k, g[1 .. k - 1]>>]
    BY <2>1 DEF Unfolds
  <2> QED BY <2>1, <2>2
<1> HIDE DEF h
<1>7. IsTrace(h, n, A, base, G)
  BY <1>5, <1>6 DEF IsTrace
<1> QED BY <1>5, <1>7 DEF FoldsTo

(* Two traces that fold the same elements agree.                           *)
LEMMA TracesAgree ==
  ASSUME NEW n \in Nat, NEW A, NEW base, NEW G, NEW F, NEW m \in Nat, n <= m,
         NEW g, IsTrace(g, n, A, base, G), NEW f, IsTrace(f, m, A, base, F),
         \A k \in 1 .. n : \A a \in A : G[<<k, a>>] = F[<<k, a>>]
  PROVE  g[n] = f[n]
<1> DEFINE S == {k \in 0 .. n : g[k] = f[k]}
<1>1. 0 \in S
  BY DEF IsTrace
<1>2. ASSUME NEW k \in 1 .. n, k - 1 \in S PROVE k \in S
  <2>1. g[k - 1] = f[k - 1] /\ g[k - 1] \in A
    BY <1>2 DEF IsTrace
  <2>2. g[k] = G[<<k, g[k - 1]>>] /\ f[k] = F[<<k, f[k - 1]>>]
    BY DEF IsTrace
  <2> QED BY <2>1, <2>2
<1>3. n \in S
  <2> HIDE DEF S
  <2>1. \A k \in 1 .. n : k - 1 \in S => k \in S
    BY <1>2
  <2>2. \A k \in 0 .. n : k \in S
    BY <1>1, <2>1, Induct
  <2> QED BY <2>2
<1> QED BY <1>3

-----------------------------------------------------------------------------
TimesStep(s) == [p \in (1 .. Len(s)) \X Fraction |-> Times(p[2], s[p[1]])]

LEMMA ProductTrace ==
  ASSUME NEW s \in Seq(Fraction)
  PROVE  FoldsTo(FoldLeft(Times, One, s), Len(s), Fraction, One, TimesStep(s))
<1>1. PICK m \in Nat : m = Len(s) /\ DOMAIN s = 1 .. m
  OBVIOUS
<1> DEFINE D == SUBSET (1 .. m)
           G == TimesStep(s)
<1>2. G \in [(1 .. m) \X Fraction -> Fraction] /\ One \in Fraction
  BY <1>1 DEF Fraction, Times, TimesStep, One
<1>3. \A t \in D \ {{}} : Max(t) \in 1 .. m /\ t \ {Max(t)} \in D
  BY MaxOfPositions
<1>4. \A k \in 1 .. m, a \in Fraction : G[<<k, a>>] = Times(a, s[k])
  BY <1>1 DEF TimesStep
<1> HIDE DEF G
<1>5. PICK f : Solves(f, m, Fraction, One, G)
  <2>1. Solvable(m, Fraction, One, G)
    BY <1>2, FoldExists
  <2> QED BY <2>1 DEF Solvable
<1>6. \A t \in D : f[t] = IF t = {} THEN One ELSE Times(f[t \ {Max(t)}], s[Max(t)])
  BY <1>3, <1>4, <1>5 DEF Solves, Folded
<1>7. \E g : g = [t \in D |-> IF t = {} THEN One ELSE Times(g[t \ {Max(t)}], s[Max(t)])]
  <2>1. f \in [D -> Fraction]
    BY <1>5 DEF Solves
  <2> HIDE DEF D
  <2> QED BY <1>6, <2>1
<1>8. PICK g : /\ g = [t \in D |-> IF t = {} THEN One ELSE Times(g[t \ {Max(t)}], s[Max(t)])]
               /\ FoldLeft(Times, One, s) = g[1 .. m]
  BY <1>1, <1>7 DEF FoldLeft, MapThenFoldSet
<1>9. \A t \in D : g[t] = IF t = {} THEN One ELSE Times(g[t \ {Max(t)}], s[Max(t)])
  BY <1>8
<1>10. Unfolds(g, m, Fraction, One, G)
  <2>1. g[{}] = One
    BY <1>9
  <2>2. ASSUME NEW k \in 1 .. m, g[1 .. k - 1] \in Fraction
        PROVE  g[1 .. k] = G[<<k, g[1 .. k - 1]>>]
    <3>1. Max(1 .. k) = k /\ (1 .. k) \ {k} = 1 .. k - 1 /\ 1 .. k # {}
      <4>1. k \in Nat \ {0}
        OBVIOUS
      <4> QED BY <4>1, LastOfPrefix
    <3>2. 1 .. k \in D
      OBVIOUS
    <3>3. g[1 .. k] = Times(g[1 .. k - 1], s[k])
      BY <1>9, <3>1, <3>2
    <3> QED BY <1>4, <2>2, <3>3
  <2> QED BY <2>1, <2>2 DEF Unfolds
<1>11. FoldsTo(g[1 .. m], m, Fraction, One, G)
  BY <1>1, <1>2, <1>10, TraceOf
<1> QED BY <1>1, <1>8, <1>11 DEF G

LEMMA ProductType ==
  ASSUME NEW s \in Seq(Fraction)
  PROVE  FoldLeft(Times, One, s) \in Fraction
<1>1. PICK h : IsTrace(h, Len(s), Fraction, One, TimesStep(s)) /\ FoldLeft(Times, One, s) = h[Len(s)]
  BY ProductTrace DEF FoldsTo
<1>2. Len(s) \in 0 .. Len(s)
  OBVIOUS
<1> QED BY <1>1, <1>2 DEF IsTrace

(* The product of a longer sequence continues that of the shorter one.     *)
LEMMA ProductAppend ==
  ASSUME NEW s \in Seq(Fraction), NEW x \in Fraction
  PROVE  FoldLeft(Times, One, Append(s, x)) = Times(FoldLeft(Times, One, s), x)
<1> DEFINE t == Append(s, x)
<1>1. t \in Seq(Fraction) /\ Len(t) = Len(s) + 1 /\ Len(s) \in Nat /\ t[Len(t)] = x
      /\ \A k \in 1 .. Len(s) : t[k] = s[k]
  OBVIOUS
<1>2. PICK h : IsTrace(h, Len(s), Fraction, One, TimesStep(s)) /\ FoldLeft(Times, One, s) = h[Len(s)]
  BY ProductTrace DEF FoldsTo
<1> HIDE DEF t
<1>3. PICK f : IsTrace(f, Len(t), Fraction, One, TimesStep(t)) /\ FoldLeft(Times, One, t) = f[Len(t)]
  BY <1>1, ProductTrace DEF FoldsTo
<1>4. h[Len(s)] = f[Len(s)]
  <2>1. \A k \in 1 .. Len(s) : \A a \in Fraction : TimesStep(s)[<<k, a>>] = TimesStep(t)[<<k, a>>]
    BY <1>1 DEF TimesStep
  <2>2. One \in Fraction /\ Len(t) \in Nat /\ Len(s) <= Len(t) /\ Len(s) \in 0 .. Len(s)
    BY <1>1 DEF One, Fraction
  <2> QED BY <1>1, <1>2, <1>3, <2>1, <2>2, TracesAgree
<1>5. h[Len(s)] \in Fraction
  BY <1>1, <1>2 DEF IsTrace
<1>6. f[Len(t)] = TimesStep(t)[<<Len(t), f[Len(s)]>>]
  BY <1>1, <1>3 DEF IsTrace
<1>7. f[Len(t)] = Times(f[Len(s)], x)
  BY <1>1, <1>4, <1>5, <1>6 DEF TimesStep
<1> QED BY <1>2, <1>3, <1>4, <1>5, <1>7 DEF t

LEMMA ProductEmpty == FoldLeft(Times, One, <<>>) = One
<1>1. <<>> \in Seq(Fraction) /\ Len(<<>>) = 0
  OBVIOUS
<1>2. PICK h : IsTrace(h, 0, Fraction, One, TimesStep(<<>>)) /\ FoldLeft(Times, One, <<>>) = h[0]
  BY <1>1, ProductTrace DEF FoldsTo
<1> QED BY <1>2 DEF IsTrace

LEMMA OneInFraction == One \in Fraction
BY DEF One, Fraction

LEMMA TimesType ==
  ASSUME NEW a \in Fraction, NEW b \in Fraction
  PROVE  Times(a, b) \in Fraction
BY DEF Fraction, Times

LEMMA TimesOne ==
  ASSUME NEW a \in Fraction
  PROVE  Times(a, One) = a
BY DEF Fraction, Times, One

LEMMA TimesPositive ==
  ASSUME NEW a \in Positive, NEW b \in Positive
  PROVE  Times(a, b) \in Positive
<1>1. PICK a1 \in Nat \ {0}, a2 \in Nat \ {0}, b1 \in Nat \ {0}, b2 \in Nat \ {0} :
        a = <<a1, a2>> /\ b = <<b1, b2>>
  BY DEF Positive
<1>2. a1 * b1 \in Nat \ {0} /\ a2 * b2 \in Nat \ {0}
  OBVIOUS
<1> QED BY <1>1, <1>2 DEF Times, Positive

-----------------------------------------------------------------------------
(* The order of fractions, for which the prover has to be told how to      *)
(* multiply an inequality.                                                 *)
LEMMA Multiply ==
  ASSUME NEW x \in Int, NEW y \in Int, NEW c \in Nat \ {0}
  PROVE  x <= y <=> x * c <= y * c
OBVIOUS

LEMMA Reorder ==
  ASSUME NEW x \in Int, NEW y \in Int, NEW z \in Int
  PROVE  (x * y) * z = (x * z) * y /\ (x * y) * z = (z * x) * y /\ (x * y) * z \in Int
OBVIOUS

LEMMA AtMostIsTotal ==
  ASSUME NEW a \in Proper, NEW b \in Proper
  PROVE  AtMost(a, a) /\ (AtMost(a, b) \/ AtMost(b, a))
BY DEF Proper, AtMost

LEMMA AtMostIsTransitive ==
  ASSUME NEW a \in Proper, NEW b \in Proper, NEW c \in Proper, AtMost(a, b), AtMost(b, c)
  PROVE  AtMost(a, c)
<1>1. PICK a1 \in Int, a2 \in Nat \ {0}, b1 \in Int, b2 \in Nat \ {0}, c1 \in Int, c2 \in Nat \ {0} :
        a = <<a1, a2>> /\ b = <<b1, b2>> /\ c = <<c1, c2>>
  <2>1. PICK a1 \in Int, a2 \in Nat \ {0} : a = <<a1, a2>>
    BY PairOfProper
  <2>2. PICK b1 \in Int, b2 \in Nat \ {0} : b = <<b1, b2>>
    BY PairOfProper
  <2>3. PICK c1 \in Int, c2 \in Nat \ {0} : c = <<c1, c2>>
    BY PairOfProper
  <2> QED BY <2>1, <2>2, <2>3
<1>2. a1 * b2 <= b1 * a2 /\ b1 * c2 <= c1 * b2
  BY <1>1 DEF AtMost
<1>3. (a1 * b2) * c2 <= (b1 * a2) * c2
  BY <1>2, Multiply
<1>4. (b1 * c2) * a2 <= (c1 * b2) * a2
  BY <1>2, Multiply
<1>5. (a1 * b2) * c2 = (a1 * c2) * b2 /\ (b1 * a2) * c2 = (b1 * c2) * a2
      /\ (c1 * b2) * a2 = (c1 * a2) * b2
  BY Reorder
<1>6. (a1 * c2) * b2 <= (c1 * a2) * b2
  BY <1>3, <1>4, <1>5
<1>7. a1 * c2 <= c1 * a2
  BY <1>6, Multiply
<1> QED BY <1>1, <1>7 DEF AtMost

(* The same value is a worse decline from a higher level.                  *)
LEMMA DeclineFromHigher ==
  ASSUME NEW x \in Positive, NEW p \in Positive, NEW q \in Positive, AtMost(q, p)
  PROVE  /\ AtMost(Minus(Over(x, p), One), Minus(Over(x, q), One))
         /\ Minus(Over(x, p), One) \in Proper
<1>1. PICK x1 \in Nat \ {0}, x2 \in Nat \ {0}, p1 \in Nat \ {0}, p2 \in Nat \ {0},
           q1 \in Nat \ {0}, q2 \in Nat \ {0} :
        x = <<x1, x2>> /\ p = <<p1, p2>> /\ q = <<q1, q2>>
  BY DEF Positive
<1>2. /\ Minus(Over(x, p), One) = <<x1 * p2 - x2 * p1, x2 * p1>>
      /\ Minus(Over(x, q), One) = <<x1 * q2 - x2 * q1, x2 * q1>>
  BY <1>1 DEF Minus, Over, One
<1>3. x2 * p1 \in Nat \ {0} /\ x1 * p2 - x2 * p1 \in Int
  OBVIOUS
<1>4. q1 * p2 <= p1 * q2
  BY <1>1 DEF AtMost
<1>5. (x1 * p2 - x2 * p1) * (x2 * q1) <= (x1 * q2 - x2 * q1) * (x2 * p1)
  <2>1. PICK d \in Nat \ {0} : d = x1 * x2
    OBVIOUS
  <2>2. (q1 * p2) * d <= (p1 * q2) * d
    BY <1>4, Multiply
  <2>3. /\ (x1 * p2 - x2 * p1) * (x2 * q1) = (x1 * p2) * (x2 * q1) - (x2 * p1) * (x2 * q1)
        /\ (x1 * q2 - x2 * q1) * (x2 * p1) = (x1 * q2) * (x2 * p1) - (x2 * q1) * (x2 * p1)
    OBVIOUS
  <2>4. (x1 * p2) * (x2 * q1) = (q1 * p2) * d /\ (x1 * q2) * (x2 * p1) = (p1 * q2) * d
        /\ (x2 * p1) * (x2 * q1) = (x2 * q1) * (x2 * p1)
    BY <2>1
  <2> QED BY <2>2, <2>3, <2>4
<1> QED BY <1>2, <1>3, <1>5 DEF AtMost, Proper

-----------------------------------------------------------------------------
(* Folding a choice between two values that both come after it in the order*)
(* R gives a value that comes before all of them and is one of them.       *)
Reflexive(A, R)  == \A a \in A : <<a, a>> \in R
Transitive(A, R) == \A a, b, c \in A : <<a, b>> \in R /\ <<b, c>> \in R => <<a, c>> \in R
Chooses(G, n, A, s, R) ==
  \A k \in 1 .. n, a \in A : /\ G[<<k, a>>] = a \/ G[<<k, a>>] = s[k]
                            /\ <<G[<<k, a>>], a>> \in R /\ <<G[<<k, a>>], s[k]>> \in R
First(v, k, base, s, R) ==
  /\ <<v, base>> \in R /\ \A j \in 1 .. k : <<v, s[j]>> \in R
  /\ v = base \/ \E j \in 1 .. k : v = s[j]

LEMMA ChoiceTrace ==
  ASSUME NEW n \in Nat, NEW A, NEW base \in A, NEW s \in [1 .. n -> A], NEW R,
         Reflexive(A, R), Transitive(A, R), NEW G, Chooses(G, n, A, s, R),
         NEW v, FoldsTo(v, n, A, base, G)
  PROVE  v \in A /\ First(v, n, base, s, R)
<1>1. PICK h : IsTrace(h, n, A, base, G) /\ v = h[n]
  BY DEF FoldsTo
<1> DEFINE S == {k \in 0 .. n : First(h[k], k, base, s, R)}
<1>2. h \in [0 .. n -> A] /\ h[0] = base /\ \A k \in 1 .. n : h[k] = G[<<k, h[k - 1]>>]
  BY <1>1 DEF IsTrace
<1>3. 0 \in S
  BY <1>2 DEF First, Reflexive
<1>4. ASSUME NEW k \in 1 .. n, k - 1 \in S PROVE k \in S
  <2>1. First(h[k - 1], k - 1, base, s, R) /\ k - 1 \in 0 .. n /\ k \in 0 .. n
    BY <1>4
  <2>2. PICK a \in A : a = h[k - 1]
    BY <1>2, <2>1
  <2>3. /\ h[k] = a \/ h[k] = s[k]
        /\ <<h[k], a>> \in R /\ <<h[k], s[k]>> \in R /\ h[k] \in A /\ s[k] \in A
    <3>1. h[k] = G[<<k, a>>]
      BY <1>2, <2>2
    <3> QED BY <1>2, <2>1, <3>1 DEF Chooses
  <2>4. <<h[k], base>> \in R
    BY <2>1, <2>2, <2>3 DEF First, Transitive
  <2>5. ASSUME NEW j \in 1 .. k PROVE <<h[k], s[j]>> \in R
    <3>1. CASE j = k
      BY <2>3, <3>1
    <3>2. CASE j \in 1 .. k - 1
      <4>1. <<a, s[j]>> \in R /\ s[j] \in A
        BY <2>1, <2>2, <3>2 DEF First
      <4> QED BY <2>3, <4>1 DEF Transitive
    <3> QED BY <3>1, <3>2
  <2>6. h[k] = base \/ \E j \in 1 .. k : h[k] = s[j]
    <3>1. CASE h[k] = s[k]
      BY <3>1
    <3>2. CASE h[k] = a
      BY <2>1, <2>2, <3>2 DEF First
    <3> QED BY <2>3, <3>1, <3>2
  <2> QED BY <2>1, <2>4, <2>5, <2>6 DEF First
<1>5. n \in S
  <2> HIDE DEF S
  <2>1. \A k \in 1 .. n : k - 1 \in S => k \in S
    BY <1>4
  <2>2. \A k \in 0 .. n : k \in S
    BY <1>3, <2>1, Induct
  <2> QED BY <2>2
<1> QED BY <1>1, <1>2, <1>5

NotBelow == {p \in Proper \X Proper : AtMost(p[2], p[1])}
LargerStep(s) == [p \in (1 .. Len(s)) \X Proper |-> Larger(p[2], s[p[1]])]

LEMMA LargerTrace ==
  ASSUME NEW s \in Seq(Proper), NEW base \in Proper
  PROVE  FoldsTo(FoldLeft(Larger, base, s), Len(s), Proper, base, LargerStep(s))
<1>1. PICK m \in Nat : m = Len(s) /\ DOMAIN s = 1 .. m
  OBVIOUS
<1> DEFINE D == SUBSET (1 .. m)
           G == LargerStep(s)
<1>2. G \in [(1 .. m) \X Proper -> Proper]
  BY <1>1 DEF Larger, LargerStep
<1>3. \A t \in D \ {{}} : Max(t) \in 1 .. m /\ t \ {Max(t)} \in D
  BY MaxOfPositions
<1>4. \A k \in 1 .. m, a \in Proper : G[<<k, a>>] = Larger(a, s[k])
  BY <1>1 DEF LargerStep
<1> HIDE DEF G
<1>5. PICK f : Solves(f, m, Proper, base, G)
  <2>1. Solvable(m, Proper, base, G)
    BY <1>2, FoldExists
  <2> QED BY <2>1 DEF Solvable
<1>6. \A t \in D : f[t] = IF t = {} THEN base ELSE Larger(f[t \ {Max(t)}], s[Max(t)])
  BY <1>3, <1>4, <1>5 DEF Solves, Folded
<1>7. \E g : g = [t \in D |-> IF t = {} THEN base ELSE Larger(g[t \ {Max(t)}], s[Max(t)])]
  <2>1. f \in [D -> Proper]
    BY <1>5 DEF Solves
  <2> HIDE DEF D
  <2> QED BY <1>6, <2>1
<1>8. PICK g : /\ g = [t \in D |-> IF t = {} THEN base ELSE Larger(g[t \ {Max(t)}], s[Max(t)])]
               /\ FoldLeft(Larger, base, s) = g[1 .. m]
  BY <1>1, <1>7 DEF FoldLeft, MapThenFoldSet
<1>9. \A t \in D : g[t] = IF t = {} THEN base ELSE Larger(g[t \ {Max(t)}], s[Max(t)])
  BY <1>8
<1>10. Unfolds(g, m, Proper, base, G)
  <2>1. g[{}] = base
    BY <1>9
  <2>2. ASSUME NEW k \in 1 .. m, g[1 .. k - 1] \in Proper
        PROVE  g[1 .. k] = G[<<k, g[1 .. k - 1]>>]
    <3>1. Max(1 .. k) = k /\ (1 .. k) \ {k} = 1 .. k - 1 /\ 1 .. k # {}
      <4>1. k \in Nat \ {0}
        OBVIOUS
      <4> QED BY <4>1, LastOfPrefix
    <3>2. 1 .. k \in D
      OBVIOUS
    <3>3. g[1 .. k] = Larger(g[1 .. k - 1], s[k])
      BY <1>9, <3>1, <3>2
    <3> QED BY <1>4, <2>2, <3>3
  <2> QED BY <2>1, <2>2 DEF Unfolds
<1>11. FoldsTo(g[1 .. m], m, Proper, base, G)
  BY <1>1, <1>2, <1>10, TraceOf
<1> QED BY <1>1, <1>8, <1>11 DEF G

(* The largest of several fractions.                                                      *)
LEMMA LargerFold ==
  ASSUME NEW s \in Seq(Proper), NEW base \in Proper, NEW v, v = FoldLeft(Larger, base, s)
  PROVE  /\ v \in Proper /\ AtMost(base, v) /\ \A k \in 1 .. Len(s) : AtMost(s[k], v)
         /\ v = base \/ \E k \in 1 .. Len(s) : v = s[k]
<1>1. PICK m \in Nat : m = Len(s) /\ s \in [1 .. m -> Proper]
  OBVIOUS
<1>3. \A k \in 1 .. m, a \in Proper : LargerStep(s)[<<k, a>>] = Larger(a, s[k]) /\ s[k] \in Proper
  BY <1>1 DEF LargerStep
<1>4. /\ NotBelow \in SUBSET (Proper \X Proper)
      /\ \A a, b \in Proper : <<a, b>> \in NotBelow <=> AtMost(b, a)
  BY DEF NotBelow
<1>5. Reflexive(Proper, NotBelow)
  BY <1>4, AtMostIsTotal DEF Reflexive
<1>6. Transitive(Proper, NotBelow)
  BY <1>4, AtMostIsTransitive DEF Transitive
<1>7. Chooses(LargerStep(s), m, Proper, s, NotBelow)
  BY <1>3, <1>4, AtMostIsTotal DEF Larger, Chooses
<1>8. FoldsTo(v, m, Proper, base, LargerStep(s))
  BY <1>1, LargerTrace
<1>9. v \in Proper /\ First(v, m, base, s, NotBelow)
  BY <1>1, <1>5, <1>6, <1>7, <1>8, ChoiceTrace
<1> QED BY <1>1, <1>3, <1>4, <1>9 DEF First

NotAbove == {p \in Proper \X Proper : AtMost(p[1], p[2])}
SmallerStep(s) == [p \in (1 .. Len(s)) \X Proper |-> Smaller(p[2], s[p[1]])]

LEMMA SmallerTrace ==
  ASSUME NEW s \in Seq(Proper), NEW base \in Proper
  PROVE  FoldsTo(FoldLeft(Smaller, base, s), Len(s), Proper, base, SmallerStep(s))
<1>1. PICK m \in Nat : m = Len(s) /\ DOMAIN s = 1 .. m
  OBVIOUS
<1> DEFINE D == SUBSET (1 .. m)
           G == SmallerStep(s)
<1>2. G \in [(1 .. m) \X Proper -> Proper]
  BY <1>1 DEF Smaller, SmallerStep
<1>3. \A t \in D \ {{}} : Max(t) \in 1 .. m /\ t \ {Max(t)} \in D
  BY MaxOfPositions
<1>4. \A k \in 1 .. m, a \in Proper : G[<<k, a>>] = Smaller(a, s[k])
  BY <1>1 DEF SmallerStep
<1> HIDE DEF G
<1>5. PICK f : Solves(f, m, Proper, base, G)
  <2>1. Solvable(m, Proper, base, G)
    BY <1>2, FoldExists
  <2> QED BY <2>1 DEF Solvable
<1>6. \A t \in D : f[t] = IF t = {} THEN base ELSE Smaller(f[t \ {Max(t)}], s[Max(t)])
  BY <1>3, <1>4, <1>5 DEF Solves, Folded
<1>7. \E g : g = [t \in D |-> IF t = {} THEN base ELSE Smaller(g[t \ {Max(t)}], s[Max(t)])]
  <2>1. f \in [D -> Proper]
    BY <1>5 DEF Solves
  <2> HIDE DEF D
  <2> QED BY <1>6, <2>1
<1>8. PICK g : /\ g = [t \in D |-> IF t = {} THEN base ELSE Smaller(g[t \ {Max(t)}], s[Max(t)])]
               /\ FoldLeft(Smaller, base, s) = g[1 .. m]
  BY <1>1, <1>7 DEF FoldLeft, MapThenFoldSet
<1>9. \A t \in D : g[t] = IF t = {} THEN base ELSE Smaller(g[t \ {Max(t)}], s[Max(t)])
  BY <1>8
<1>10. Unfolds(g, m, Proper, base, G)
  <2>1. g[{}] = base
    BY <1>9
  <2>2. ASSUME NEW k \in 1 .. m, g[1 .. k - 1] \in Proper
        PROVE  g[1 .. k] = G[<<k, g[1 .. k - 1]>>]
    <3>1. Max(1 .. k) = k /\ (1 .. k) \ {k} = 1 .. k - 1 /\ 1 .. k # {}
      <4>1. k \in Nat \ {0}
        OBVIOUS
      <4> QED BY <4>1, LastOfPrefix
    <3>2. 1 .. k \in D
      OBVIOUS
    <3>3. g[1 .. k] = Smaller(g[1 .. k - 1], s[k])
      BY <1>9, <3>1, <3>2
    <3> QED BY <1>4, <2>2, <3>3
  <2> QED BY <2>1, <2>2 DEF Unfolds
<1>11. FoldsTo(g[1 .. m], m, Proper, base, G)
  BY <1>1, <1>2, <1>10, TraceOf
<1> QED BY <1>1, <1>8, <1>11 DEF G

(* The smallest of several fractions.                                                     *)
LEMMA SmallerFold ==
  ASSUME NEW s \in Seq(Proper), NEW base \in Proper, NEW v, v = FoldLeft(Smaller, base, s)
  PROVE  /\ v \in Proper /\ AtMost(v, base) /\ \A k \in 1 .. Len(s) : AtMost(v, s[k])
         /\ v = base \/ \E k \in 1 .. Len(s) : v = s[k]
<1>1. PICK m \in Nat : m = Len(s) /\ s \in [1 .. m -> Proper]
  OBVIOUS
<1>3. \A k \in 1 .. m, a \in Proper : SmallerStep(s)[<<k, a>>] = Smaller(a, s[k]) /\ s[k] \in Proper
  BY <1>1 DEF SmallerStep
<1>4. /\ NotAbove \in SUBSET (Proper \X Proper)
      /\ \A a, b \in Proper : <<a, b>> \in NotAbove <=> AtMost(a, b)
  BY DEF NotAbove
<1>5. Reflexive(Proper, NotAbove)
  BY <1>4, AtMostIsTotal DEF Reflexive
<1>6. Transitive(Proper, NotAbove)
  BY <1>4, AtMostIsTransitive DEF Transitive
<1>7. Chooses(SmallerStep(s), m, Proper, s, NotAbove)
  BY <1>3, <1>4, AtMostIsTotal DEF Smaller, Chooses
<1>8. FoldsTo(v, m, Proper, base, SmallerStep(s))
  BY <1>1, SmallerTrace
<1>9. v \in Proper /\ First(v, m, base, s, NotAbove)
  BY <1>1, <1>5, <1>6, <1>7, <1>8, ChoiceTrace
<1> QED BY <1>1, <1>3, <1>4, <1>9 DEF First

-----------------------------------------------------------------------------
(* Peak is the highest point so far.                                       *)
LEMMA PeakIsHighest ==
  ASSUME NEW curve \in Seq(Positive), NEW j \in 1 .. Len(curve)
  PROVE  /\ Peak(curve, j) \in Positive
         /\ \E i \in 1 .. j : Peak(curve, j) = curve[i]
         /\ \A i \in 1 .. j : AtMost(curve[i], Peak(curve, j))
<1> DEFINE part == SubSeq(curve, 1, j)
<1>1. Positive \subseteq Proper
  BY DEF Positive, Proper
<1>2. /\ \A i \in 1 .. Len(curve) : curve[i] \in Positive
      /\ j \in Nat /\ 1 \in 1 .. j /\ 1 .. j \subseteq 1 .. Len(curve)
  OBVIOUS
<1>3. Len(part) = j /\ \A i \in 1 .. j : part[i] = curve[i]
  BY <1>2
<1>4. part \in Seq(Proper)
  BY <1>1, <1>2, <1>3
<1> HIDE DEF part
<1>5. curve[1] \in Proper
  BY <1>1, <1>2
<1>6. PICK v : v = FoldLeft(Larger, curve[1], part)
  OBVIOUS
<1>7. /\ \A i \in 1 .. Len(part) : AtMost(part[i], v)
      /\ v = curve[1] \/ \E i \in 1 .. Len(part) : v = part[i]
  BY <1>4, <1>5, <1>6, LargerFold
<1>8. v = Peak(curve, j)
  BY <1>6 DEF Peak, part
<1>9. \E i \in 1 .. j : v = curve[i]
  BY <1>2, <1>3, <1>7
<1> QED BY <1>2, <1>3, <1>7, <1>8, <1>9

(* The decline from point i to point j of a curve. *)
Decline(curve, i, j) == Minus(Over(curve[j], curve[i]), One)

(* MaxDrawdown is a decline between two points, and none is worse.         *)
LEMMA MaxDrawdownIsWorst ==
  ASSUME NEW curve \in Seq(Positive), Len(curve) > 0
  PROVE  /\ \A j \in 1 .. Len(curve) : \A i \in 1 .. j : AtMost(MaxDrawdown(curve), Decline(curve, i, j))
         /\ \E j \in 1 .. Len(curve) : \E i \in 1 .. j : MaxDrawdown(curve) = Decline(curve, i, j)
         /\ MaxDrawdown(curve) \in Proper
<1>1. \A i \in 1 .. Len(curve) : curve[i] \in Positive
  OBVIOUS
<1>2. PICK m \in Nat : m = Len(curve) /\ m > 0 /\ 1 \in 1 .. m
  OBVIOUS
<1> DEFINE dd == Drawdown(curve)
<1>3. /\ Len(dd) = m
      /\ \A j \in 1 .. m : dd[j] = Minus(Over(curve[j], Peak(curve, j)), One)
  BY <1>2 DEF Drawdown
<1>4. ASSUME NEW j \in 1 .. m
      PROVE  /\ dd[j] \in Proper
             /\ \E i \in 1 .. j : dd[j] = Decline(curve, i, j)
             /\ \A i \in 1 .. j : AtMost(dd[j], Decline(curve, i, j)) /\ Decline(curve, i, j) \in Proper
  <2>1. /\ Peak(curve, j) \in Positive
        /\ \E i \in 1 .. j : Peak(curve, j) = curve[i]
        /\ \A i \in 1 .. j : AtMost(curve[i], Peak(curve, j))
    BY <1>2, PeakIsHighest
  <2>2. curve[j] \in Positive /\ \A i \in 1 .. j : curve[i] \in Positive
    BY <1>1, <1>2
  <2>3. \E i \in 1 .. j : dd[j] = Decline(curve, i, j)
    BY <1>3, <2>1 DEF Decline
  <2>4. ASSUME NEW i \in 1 .. j
        PROVE  AtMost(dd[j], Decline(curve, i, j)) /\ dd[j] \in Proper
    <3>1. curve[i] \in Positive /\ AtMost(curve[i], Peak(curve, j))
      BY <2>1, <2>2
    <3>2. /\ AtMost(Minus(Over(curve[j], Peak(curve, j)), One), Minus(Over(curve[j], curve[i]), One))
          /\ Minus(Over(curve[j], Peak(curve, j)), One) \in Proper
      BY <2>1, <2>2, <3>1, DeclineFromHigher
    <3> QED BY <1>3, <3>2 DEF Decline
  <2>5. ASSUME NEW i \in 1 .. j PROVE Decline(curve, i, j) \in Proper
    <3>1. curve[i] \in Proper /\ curve[i] \in Positive
      BY <2>2 DEF Positive, Proper
    <3>2. AtMost(curve[i], curve[i])
      BY <3>1, AtMostIsTotal
    <3> QED BY <2>2, <3>1, <3>2, DeclineFromHigher DEF Decline
  <2>6. j \in 1 .. j
    OBVIOUS
  <2> QED BY <2>3, <2>4, <2>5, <2>6
<1>5. curve # <<>>
  OBVIOUS
<1>6. dd \in Seq(Proper)
  <2>1. dd = [j \in 1 .. m |-> Minus(Over(curve[j], Peak(curve, j)), One)]
    BY <1>2 DEF Drawdown
  <2>2. \A j \in 1 .. m : Minus(Over(curve[j], Peak(curve, j)), One) \in Proper
    BY <1>3, <1>4
  <2> QED BY <2>1, <2>2
<1> HIDE DEF dd
<1>7. PICK v : v = FoldLeft(Smaller, dd[1], dd)
  OBVIOUS
<1>8. /\ v \in Proper /\ \A k \in 1 .. m : AtMost(v, dd[k])
      /\ \E k \in 1 .. m : v = dd[k]
  <2>1. dd[1] \in Proper
    BY <1>2, <1>4
  <2>2. /\ v \in Proper /\ \A k \in 1 .. Len(dd) : AtMost(v, dd[k])
        /\ v = dd[1] \/ \E k \in 1 .. Len(dd) : v = dd[k]
    BY <1>6, <1>7, <2>1, SmallerFold
  <2> QED BY <1>2, <1>3, <2>2
<1>9. v = MaxDrawdown(curve)
  BY <1>5, <1>7 DEF MaxDrawdown, dd
<1>10. ASSUME NEW j \in 1 .. m, NEW i \in 1 .. j
       PROVE  AtMost(v, Decline(curve, i, j))
  <2>1. AtMost(v, dd[j]) /\ AtMost(dd[j], Decline(curve, i, j))
    BY <1>4, <1>8
  <2>2. v \in Proper /\ dd[j] \in Proper /\ Decline(curve, i, j) \in Proper
    BY <1>4, <1>8
  <2> QED BY <2>1, <2>2, AtMostIsTransitive
<1>11. \E j \in 1 .. m : \E i \in 1 .. j : v = Decline(curve, i, j)
  BY <1>4, <1>8
<1> QED BY <1>2, <1>8, <1>9, <1>10, <1>11

-----------------------------------------------------------------------------
(* Sums of natural numbers, by the trace of their fold.                    *)
SumStep(xs) == [p \in (1 .. Len(xs)) \X Nat |-> p[2] + xs[p[1]]]

LEMMA SumTrace ==
  ASSUME NEW xs \in Seq(Nat)
  PROVE  \E h : /\ IsTrace(h, Len(xs), Nat, 0, SumStep(xs))
               /\ FoldLeft(LAMBDA x, y : x + y, 0, xs) = h[Len(xs)]
<1>1. PICK m \in Nat : m = Len(xs) /\ DOMAIN xs = 1 .. m
  OBVIOUS
<1> DEFINE D == SUBSET (1 .. m)
           G == SumStep(xs)
<1>2. G \in [(1 .. m) \X Nat -> Nat] /\ 0 \in Nat
  BY <1>1 DEF SumStep
<1>3. \A t \in D \ {{}} : Max(t) \in 1 .. m /\ t \ {Max(t)} \in D
  BY MaxOfPositions
<1>4. \A k \in 1 .. m, a \in Nat : G[<<k, a>>] = a + xs[k]
  BY <1>1 DEF SumStep
<1> HIDE DEF G
<1>5. PICK f : Solves(f, m, Nat, 0, G)
  <2>1. Solvable(m, Nat, 0, G)
    BY <1>2, FoldExists
  <2> QED BY <2>1 DEF Solvable
<1>6. \A t \in D : f[t] = IF t = {} THEN 0 ELSE f[t \ {Max(t)}] + xs[Max(t)]
  BY <1>3, <1>4, <1>5 DEF Solves, Folded
<1>7. \E g : g = [t \in D |-> IF t = {} THEN 0 ELSE g[t \ {Max(t)}] + xs[Max(t)]]
  <2>1. f \in [D -> Nat]
    BY <1>5 DEF Solves
  <2> HIDE DEF D
  <2> QED BY <1>6, <2>1
<1>8. PICK g : /\ g = [t \in D |-> IF t = {} THEN 0 ELSE g[t \ {Max(t)}] + xs[Max(t)]]
               /\ FoldLeft(LAMBDA x, y : x + y, 0, xs) = g[1 .. m]
  BY <1>1, <1>7 DEF FoldLeft, MapThenFoldSet
<1>9. \A t \in D : g[t] = IF t = {} THEN 0 ELSE g[t \ {Max(t)}] + xs[Max(t)]
  BY <1>8
<1>10. Unfolds(g, m, Nat, 0, G)
  <2>1. g[{}] = 0
    BY <1>9
  <2>2. ASSUME NEW k \in 1 .. m, g[1 .. k - 1] \in Nat
        PROVE  g[1 .. k] = G[<<k, g[1 .. k - 1]>>]
    <3>1. Max(1 .. k) = k /\ (1 .. k) \ {k} = 1 .. k - 1 /\ 1 .. k # {}
      <4>1. k \in Nat \ {0}
        OBVIOUS
      <4> QED BY <4>1, LastOfPrefix
    <3>2. 1 .. k \in D
      OBVIOUS
    <3>3. g[1 .. k] = g[1 .. k - 1] + xs[k]
      BY <1>9, <3>1, <3>2
    <3> QED BY <1>4, <2>2, <3>3
  <2> QED BY <2>1, <2>2 DEF Unfolds
<1>11. FoldsTo(g[1 .. m], m, Nat, 0, G)
  BY <1>1, <1>2, <1>10, TraceOf
<1>12. PICK h : IsTrace(h, m, Nat, 0, G) /\ g[1 .. m] = h[m]
  BY <1>11 DEF FoldsTo
<1> QED BY <1>1, <1>8, <1>12, Zenon DEF G

LEMMA SumType ==
  ASSUME NEW xs \in Seq(Nat)
  PROVE  FoldLeft(LAMBDA x, y : x + y, 0, xs) \in Nat
<1>1. PICK m \in Nat : m = Len(xs)
  OBVIOUS
<1>2. PICK total : total = FoldLeft(LAMBDA x, y : x + y, 0, xs)
  BY Zenon
<1>3. PICK h : IsTrace(h, m, Nat, 0, SumStep(xs)) /\ total = h[m]
  BY <1>1, <1>2, SumTrace, Zenon
<1>4. h[m] \in Nat
  BY <1>3 DEF IsTrace
<1> QED BY <1>2, <1>3, <1>4, Zenon

\* Of the elements of xs only the one at j counts.
OnlyOne(xs, m, j, v) ==
  m \in Nat /\ v \in Nat /\ j \in 1 .. m /\ xs = [i \in 1 .. m |-> IF i = j THEN v ELSE 0]

LEMMA SumOfOne ==
  ASSUME NEW xs, NEW m, NEW j, NEW v, OnlyOne(xs, m, j, v)
  PROVE  FoldLeft(LAMBDA x, y : x + y, 0, xs) = v
<1>1. /\ m \in Nat /\ v \in Nat /\ j \in 1 .. m /\ xs = [i \in 1 .. m |-> IF i = j THEN v ELSE 0]
  BY DEF OnlyOne
<1>2. xs \in Seq(Nat) /\ Len(xs) = m /\ \A i \in 1 .. m : xs[i] = IF i = j THEN v ELSE 0
  BY <1>1
<1>0. PICK total : total = FoldLeft(LAMBDA x, y : x + y, 0, xs)
  BY Zenon
<1>3. PICK h : IsTrace(h, m, Nat, 0, SumStep(xs)) /\ total = h[m]
  <2>1. \E h : /\ IsTrace(h, Len(xs), Nat, 0, SumStep(xs))
              /\ FoldLeft(LAMBDA x, y : x + y, 0, xs) = h[Len(xs)]
    BY ONLY <1>2, SumTrace, Zenon
  <2> QED BY ONLY <1>0, <1>2, <2>1, Zenon
<1>4. \A i \in 1 .. m, a \in Nat : SumStep(xs)[<<i, a>>] = a + (IF i = j THEN v ELSE 0)
  BY <1>2 DEF SumStep
<1>5. h[0] = 0 /\ \A i \in 1 .. m : h[i - 1] \in Nat /\ h[i] = h[i - 1] + (IF i = j THEN v ELSE 0)
  <2>1. h \in [0 .. m -> Nat] /\ h[0] = 0
    BY <1>3 DEF IsTrace
  <2>2. \A i \in 1 .. m : h[i] = SumStep(xs)[<<i, h[i - 1]>>]
    BY <1>3 DEF IsTrace
  <2>3. \A i \in 1 .. m : h[i - 1] \in Nat
    BY <1>1, <2>1
  <2> QED BY ONLY <1>4, <2>1, <2>2, <2>3
<1> DEFINE S == {i \in 0 .. m : h[i] = IF i < j THEN 0 ELSE v}
<1>6. 0 \in S
  BY <1>1, <1>5
<1>7. ASSUME NEW i \in 1 .. m, i - 1 \in S PROVE i \in S
  BY <1>1, <1>5, <1>7
<1>8. m \in S
  <2> HIDE DEF S
  <2> QED BY <1>1, <1>6, <1>7, Induct
<1>9. h[m] = v
  BY <1>1, <1>8
<1> QED BY <1>0, <1>3, <1>9, Zenon
-----------------------------------------------------------------------------
(* Sums of fractions.                                                      *)
LEMMA PlusType ==
  ASSUME NEW a \in Proper, NEW b \in Proper
  PROVE  Plus(a, b) \in Proper
<1>0. PICK a1 \in Int, a2 \in Nat \ {0} : a = <<a1, a2>>
  BY PairOfProper
<1>1. PICK b1 \in Int, b2 \in Nat \ {0} : b = <<b1, b2>>
  BY PairOfProper
<1>2. a2 * b2 \in Nat \ {0} /\ a1 * b2 + b1 * a2 \in Int
  OBVIOUS
<1> QED BY <1>0, <1>1, <1>2 DEF Plus, Proper

LEMMA ZeroType == Zero \in Proper
BY DEF Zero, Proper

PlusStep(s) == [p \in (1 .. Len(s)) \X Proper |-> Plus(p[2], s[p[1]])]

LEMMA PlusTrace ==
  ASSUME NEW s \in Seq(Proper)
  PROVE  FoldsTo(FoldLeft(Plus, Zero, s), Len(s), Proper, Zero, PlusStep(s))
<1>1. PICK m \in Nat : m = Len(s) /\ DOMAIN s = 1 .. m /\ \A k \in 1 .. m : s[k] \in Proper
  OBVIOUS
<1> DEFINE D == SUBSET (1 .. m)
           G == PlusStep(s)
<1>2. G \in [(1 .. m) \X Proper -> Proper] /\ Zero \in Proper
  <2>1. \A p \in (1 .. m) \X Proper : Plus(p[2], s[p[1]]) \in Proper
    BY <1>1, PlusType
  <2> QED BY <1>1, <2>1, ZeroType DEF PlusStep
<1>3. \A t \in D \ {{}} : Max(t) \in 1 .. m /\ t \ {Max(t)} \in D
  BY MaxOfPositions
<1>4. \A k \in 1 .. m, a \in Proper : G[<<k, a>>] = Plus(a, s[k])
  BY <1>1 DEF PlusStep
<1> HIDE DEF G
<1>5. PICK f : Solves(f, m, Proper, Zero, G)
  <2>1. Solvable(m, Proper, Zero, G)
    BY <1>2, FoldExists
  <2> QED BY <2>1 DEF Solvable
<1>6. \A t \in D : f[t] = IF t = {} THEN Zero ELSE Plus(f[t \ {Max(t)}], s[Max(t)])
  BY <1>3, <1>4, <1>5 DEF Solves, Folded
<1>7. \E g : g = [t \in D |-> IF t = {} THEN Zero ELSE Plus(g[t \ {Max(t)}], s[Max(t)])]
  <2>1. f \in [D -> Proper]
    BY <1>5 DEF Solves
  <2> HIDE DEF D
  <2> QED BY <1>6, <2>1
<1>8. PICK g : /\ g = [t \in D |-> IF t = {} THEN Zero ELSE Plus(g[t \ {Max(t)}], s[Max(t)])]
               /\ FoldLeft(Plus, Zero, s) = g[1 .. m]
  BY <1>1, <1>7 DEF FoldLeft, MapThenFoldSet
<1>9. \A t \in D : g[t] = IF t = {} THEN Zero ELSE Plus(g[t \ {Max(t)}], s[Max(t)])
  BY <1>8
<1>10. Unfolds(g, m, Proper, Zero, G)
  <2>1. g[{}] = Zero
    BY <1>9
  <2>2. ASSUME NEW k \in 1 .. m, g[1 .. k - 1] \in Proper
        PROVE  g[1 .. k] = G[<<k, g[1 .. k - 1]>>]
    <3>1. Max(1 .. k) = k /\ (1 .. k) \ {k} = 1 .. k - 1 /\ 1 .. k # {}
      <4>1. k \in Nat \ {0}
        OBVIOUS
      <4> QED BY <4>1, LastOfPrefix
    <3>2. 1 .. k \in D
      OBVIOUS
    <3>3. g[1 .. k] = Plus(g[1 .. k - 1], s[k])
      BY <1>9, <3>1, <3>2
    <3> QED BY <1>4, <2>2, <3>3
  <2> QED BY <2>1, <2>2 DEF Unfolds
<1>11. FoldsTo(g[1 .. m], m, Proper, Zero, G)
  BY <1>1, <1>2, <1>10, TraceOf
<1> QED BY <1>1, <1>8, <1>11 DEF G

(* h gives the sums of the first elements of s.                            *)
Sums(h, s, m) ==
  h \in [0 .. m -> Proper] /\ h[0] = Zero /\ \A k \in 1 .. m : h[k] = Plus(h[k - 1], s[k])

LEMMA SumsExist ==
  ASSUME NEW m \in Nat, NEW s \in [1 .. m -> Proper]
  PROVE  \E h : Sums(h, s, m) /\ FoldLeft(Plus, Zero, s) = h[m]
<1>1. s \in Seq(Proper) /\ Len(s) = m
  OBVIOUS
<1>2. PICK h : IsTrace(h, m, Proper, Zero, PlusStep(s)) /\ FoldLeft(Plus, Zero, s) = h[m]
  BY <1>1, PlusTrace DEF FoldsTo
<1>3. h \in [0 .. m -> Proper] /\ h[0] = Zero /\ \A k \in 1 .. m : h[k] = PlusStep(s)[<<k, h[k - 1]>>]
  BY <1>2 DEF IsTrace
<1>4. \A k \in 1 .. m, a \in Proper : PlusStep(s)[<<k, a>>] = Plus(a, s[k])
  BY <1>1 DEF PlusStep
<1>5. \A k \in 1 .. m : h[k - 1] \in Proper
  BY <1>3
<1>6. Sums(h, s, m)
  BY <1>3, <1>4, <1>5 DEF Sums
<1> QED BY <1>2, <1>6

(* One more element keeps Same, on either side.                            *)
LEMMA PlusLeft ==
  ASSUME NEW t \in Proper, NEW w \in Proper, NEW l \in Proper, NEW x \in Proper, Same(t, Plus(w, l))
  PROVE  Same(Plus(t, x), Plus(Plus(w, x), l)) /\ Same(Plus(t, x), Plus(w, Plus(l, x)))
<1>1. PICK t1 \in Int, t2 \in Nat \ {0} : t = <<t1, t2>>
  BY DEF Proper
<1>2. PICK w1 \in Int, w2 \in Nat \ {0} : w = <<w1, w2>>
  BY DEF Proper
<1>3. PICK l1 \in Int, l2 \in Nat \ {0} : l = <<l1, l2>>
  BY DEF Proper
<1>4. PICK x1 \in Int, x2 \in Nat \ {0} : x = <<x1, x2>>
  BY DEF Proper
<1>5. t = <<t1, t2>> /\ w = <<w1, w2>> /\ l = <<l1, l2>> /\ x = <<x1, x2>>
  BY <1>1, <1>2, <1>3, <1>4
<1>6. t1 * (w2 * l2) = (w1 * l2 + l1 * w2) * t2
  BY <1>5 DEF Same, Plus
<1>7. (t1 * (w2 * l2)) * (x2 * x2) + (x1 * t2) * ((w2 * x2) * l2)
        = ((w1 * l2 + l1 * w2) * t2) * (x2 * x2) + (x1 * t2) * ((w2 * x2) * l2)
  BY <1>6
<1>8. (t1 * x2 + x1 * t2) * ((w2 * x2) * l2)
        = (t1 * (w2 * l2)) * (x2 * x2) + (x1 * t2) * ((w2 * x2) * l2)
  OBVIOUS
<1>9. ((w1 * x2 + x1 * w2) * l2 + l1 * (w2 * x2)) * (t2 * x2)
        = ((w1 * l2 + l1 * w2) * t2) * (x2 * x2) + (x1 * t2) * ((w2 * x2) * l2)
  OBVIOUS
<1>10. (t1 * x2 + x1 * t2) * (w2 * (l2 * x2)) = (t1 * x2 + x1 * t2) * ((w2 * x2) * l2)
  OBVIOUS
<1>11. (w1 * (l2 * x2) + (l1 * x2 + x1 * l2) * w2) * (t2 * x2)
        = ((w1 * x2 + x1 * w2) * l2 + l1 * (w2 * x2)) * (t2 * x2)
  OBVIOUS
<1> QED BY <1>5, <1>7, <1>8, <1>9, <1>10, <1>11 DEF Same, Plus

LEMMA PlusZero ==
  ASSUME NEW a \in Proper
  PROVE  Plus(a, Zero) = a
BY DEF Proper, Plus, Zero

LEMMA PlusNothing ==
  ASSUME NEW t \in Proper, NEW x \in Proper, x[1] = 0, NEW u \in Proper, Same(t, u)
  PROVE  Same(Plus(t, x), u)
<1>1. PICK t1 \in Int, t2 \in Nat \ {0}, u1 \in Int, u2 \in Nat \ {0}, x2 \in Nat \ {0} :
        t = <<t1, t2>> /\ u = <<u1, u2>> /\ x = <<0, x2>>
  <2>1. PICK t1 \in Int, t2 \in Nat \ {0} : t = <<t1, t2>>
    BY PairOfProper
  <2>2. PICK u1 \in Int, u2 \in Nat \ {0} : u = <<u1, u2>>
    BY PairOfProper
  <2>3. PICK x1 \in Int, x2 \in Nat \ {0} : x = <<x1, x2>>
    BY PairOfProper
  <2>4. x = <<0, x2>>
    BY <2>3
  <2> QED BY <2>1, <2>2, <2>3, <2>4
<1>2. t1 * u2 = u1 * t2
  BY <1>1 DEF Same
<1>3. (t1 * u2) * x2 = (u1 * t2) * x2
  BY <1>2
<1>4. (t1 * x2 + 0 * t2) * u2 = (t1 * u2) * x2 /\ u1 * (t2 * x2) = (u1 * t2) * x2
  OBVIOUS
<1> QED BY <1>1, <1>3, <1>4 DEF Same, Plus

(* The order of two fractions is the sign of their difference.             *)
LEMMA SignOfDifference ==
  ASSUME NEW x \in Int, NEW y \in Int, NEW c \in Nat \ {0}, NEW a \in Nat, NEW z \in Nat,
         y - x = c * (a * z)
  PROVE  x <= y /\ (x # y <=> a > 0 /\ z > 0)
<1>1. \A i, j \in Nat : i * j \in Nat /\ (i * j = 0 <=> i = 0 \/ j = 0)
  OBVIOUS
<1>2. PICK p \in Nat : p = a * z /\ (p = 0 <=> a = 0 \/ z = 0)
  BY <1>1
<1>3. PICK q \in Nat : q = c * p /\ (q = 0 <=> p = 0)
  BY <1>1
<1> QED BY <1>2, <1>3

(* t = w + l is the sum of m values, of which i are gains that sum to w, j *)
(* are losses that sum to l, and e are neither.  Weighing the mean loss    *)
(* with all that are no gain never gives more than the mean.               *)
Apart(i, m, w, l) == Plus(Times(<<i, m>>, w), Times(Minus(One, <<i, m>>), l))
MeanOf(t, k)      == IF k = 0 THEN Zero ELSE Over(t, <<k, 1>>)

Split(t, w, l, i, j, e, m) ==
  /\ {t, w, l} \subseteq Proper /\ {i, j, e} \subseteq Nat
  /\ Same(t, Plus(w, l)) /\ m = i + j + e /\ m \in Nat \ {0}
  /\ (i = 0 => w = Zero) /\ (j = 0 => l = Zero) /\ l[1] <= 0 /\ (j > 0 => l[1] < 0)

LEMMA WeightedMean ==
  ASSUME NEW t, NEW w, NEW l, NEW i, NEW j, NEW e, NEW m, Split(t, w, l, i, j, e, m),
         NEW x, x = Apart(i, m, MeanOf(w, i), MeanOf(l, j))
  PROVE  AtMost(x, MeanOf(t, m)) /\ (~Same(x, MeanOf(t, m)) <=> j > 0 /\ e > 0)
<1>1. /\ t \in Proper /\ w \in Proper /\ l \in Proper /\ Same(t, Plus(w, l))
      /\ i \in Nat /\ j \in Nat /\ e \in Nat /\ m \in Nat \ {0} /\ m = i + j + e
      /\ (i = 0 => w = Zero) /\ (j = 0 => l = Zero) /\ l[1] <= 0 /\ (j > 0 => l[1] < 0)
  BY DEF Split
<1> USE <1>1
<1>2. PICK t1 \in Int, t2 \in Nat \ {0} : t = <<t1, t2>>
  BY DEF Proper
<1>3. PICK w1 \in Int, w2 \in Nat \ {0} : w = <<w1, w2>>
  BY DEF Proper
<1>4. PICK l1 \in Int, l2 \in Nat \ {0} : l = <<l1, l2>>
  BY DEF Proper
<1>5. t1 * (w2 * l2) = (w1 * l2 + l1 * w2) * t2
  BY <1>2, <1>3, <1>4 DEF Same, Plus
<1>6. PICK a \in Nat : a = 0 - l1
  BY <1>4
<1>7. MeanOf(t, m) = <<t1, t2 * m>>
  BY <1>2 DEF MeanOf, Over
<1>8. ASSUME NEW x1 \in Int, NEW x2 \in Int, Apart(i, m, MeanOf(w, i), MeanOf(l, j)) = <<x1, x2>>,
             NEW c \in Nat \ {0}, t1 * x2 - x1 * (t2 * m) = c * (a * e)
      PROVE  /\ AtMost(<<x1, x2>>, MeanOf(t, m))
             /\ ~Same(<<x1, x2>>, MeanOf(t, m)) <=> j > 0 /\ e > 0
  <2>1. PICK u \in Int, v \in Int : u = x1 * (t2 * m) /\ v = t1 * x2
    OBVIOUS
  <2>2. u <= v /\ (u # v <=> a > 0 /\ e > 0)
    BY <1>8, <2>1, SignOfDifference
  <2>3. j > 0 <=> a > 0
    BY <1>4, <1>6 DEF Zero
  <2> QED BY <1>7, <2>1, <2>2, <2>3 DEF AtMost, Same
<1>9. Minus(One, <<i, m>>) = <<m - i, m>> /\ m - i = j + e
  BY DEF Minus, One
<1>10. CASE i > 0 /\ j > 0
  <2>1. /\ Times(<<i, m>>, MeanOf(w, i)) = <<i * w1, m * (w2 * i)>>
        /\ Times(<<m - i, m>>, MeanOf(l, j)) = <<(m - i) * l1, m * (l2 * j)>>
    BY <1>3, <1>4, <1>10 DEF MeanOf, Over, Times
  <2> DEFINE x1 == (i * w1) * (m * (l2 * j)) + ((m - i) * l1) * (m * (w2 * i))
             x2 == (m * (w2 * i)) * (m * (l2 * j))
             c  == (m * m) * ((i * t2) * w2)
  <2>2. Apart(i, m, MeanOf(w, i), MeanOf(l, j)) = <<x1, x2>>
    <3>1. Apart(i, m, MeanOf(w, i), MeanOf(l, j))
            = Plus(<<i * w1, m * (w2 * i)>>, <<(m - i) * l1, m * (l2 * j)>>)
      BY <1>9, <2>1, Zenon DEF Apart
    <3>2. Plus(<<i * w1, m * (w2 * i)>>, <<(m - i) * l1, m * (l2 * j)>>) = <<x1, x2>>
      <4>1. PICK p, q, r, u : p = i * w1 /\ q = m * (w2 * i) /\ r = (m - i) * l1 /\ u = m * (l2 * j)
        OBVIOUS
      <4>2. x1 = p * u + r * q /\ x2 = q * u
        BY <4>1
      <4> HIDE DEF x1, x2
      <4>3. Plus(<<p, q>>, <<r, u>>) = <<x1, x2>>
        BY <4>2 DEF Plus
      <4> QED BY <4>1, <4>3
    <3> QED BY <3>1, <3>2, Zenon
  <2>3. (t1 * (w2 * l2)) * ((m * m) * (i * j)) = ((w1 * l2 + l1 * w2) * t2) * ((m * m) * (i * j))
    BY <1>5
  <2>4. t1 * x2 = (t1 * (w2 * l2)) * ((m * m) * (i * j))
    OBVIOUS
  <2>5. ((w1 * l2 + l1 * w2) * t2) * ((m * m) * (i * j)) - x1 * (t2 * m)
          = c * (l1 * (j - (m - i)))
    OBVIOUS
  <2>6. l1 * (j - (m - i)) = a * e
    BY <1>6, <1>9
  <2>7. x1 \in Int /\ x2 \in Int /\ c \in Nat \ {0}
    <3>1. \A p, q \in Nat \ {0} : p * q \in Nat \ {0}
      OBVIOUS
    <3>2. m * m \in Nat \ {0} /\ (i * t2) * w2 \in Nat \ {0}
      BY <1>10, <3>1
    <3> QED BY <3>1, <3>2
  <2>8. t1 * x2 - x1 * (t2 * m) = c * (a * e)
    BY <2>3, <2>4, <2>5, <2>6
  <2> HIDE DEF x1, x2, c
  <2> QED BY <1>8, <2>2, <2>7, <2>8
<1>11. CASE i = 0 /\ j > 0
  <2>1. /\ Times(<<i, m>>, MeanOf(w, i)) = <<0, m>>
        /\ Times(<<m - i, m>>, MeanOf(l, j)) = <<m * l1, m * (l2 * j)>>
    BY <1>3, <1>4, <1>11 DEF MeanOf, Over, Times, Zero
  <2> DEFINE x1 == 0 * (m * (l2 * j)) + (m * l1) * m
             x2 == m * (m * (l2 * j))
             c  == (m * m) * t2
  <2>2. Apart(i, m, MeanOf(w, i), MeanOf(l, j)) = <<x1, x2>>
    BY <1>9, <2>1 DEF Apart, Plus
  <2>3. t1 * l2 = l1 * t2
    BY <1>3, <1>5, <1>11 DEF Zero
  <2>4. (t1 * l2) * ((m * m) * j) = (l1 * t2) * ((m * m) * j)
    BY <2>3
  <2>5. t1 * x2 = (t1 * l2) * ((m * m) * j)
    OBVIOUS
  <2>6. (l1 * t2) * ((m * m) * j) - x1 * (t2 * m) = c * (l1 * (j - m))
    OBVIOUS
  <2>7. l1 * (j - m) = a * e
    BY <1>6, <1>9, <1>11
  <2>8. x1 \in Int /\ x2 \in Int /\ c \in Nat \ {0}
    OBVIOUS
  <2>9. t1 * x2 - x1 * (t2 * m) = c * (a * e)
    BY <2>4, <2>5, <2>6, <2>7
  <2> HIDE DEF x1, x2, c
  <2> QED BY <1>8, <2>2, <2>8, <2>9
<1>12. CASE i > 0 /\ j = 0
  <2>1. /\ Times(<<i, m>>, MeanOf(w, i)) = <<i * w1, m * (w2 * i)>>
        /\ Times(<<m - i, m>>, MeanOf(l, j)) = <<0, m>>
    BY <1>3, <1>4, <1>12 DEF MeanOf, Over, Times, Zero
  <2> DEFINE x1 == (i * w1) * m + 0 * (m * (w2 * i))
             x2 == (m * (w2 * i)) * m
  <2>2. Apart(i, m, MeanOf(w, i), MeanOf(l, j)) = <<x1, x2>>
    BY <1>9, <2>1 DEF Apart, Plus
  <2>3. t1 * w2 = w1 * t2 /\ a = 0
    <3>1. l1 = 0 /\ l2 = 1
      BY <1>4, <1>12 DEF Zero
    <3>2. t1 * (w2 * 1) = (w1 * 1 + 0 * w2) * t2
      BY <1>5, <3>1
    <3> QED BY <1>6, <3>1, <3>2
  <2>4. (t1 * w2) * ((m * m) * i) = (w1 * t2) * ((m * m) * i)
    BY <2>3
  <2>5. t1 * x2 = (t1 * w2) * ((m * m) * i) /\ x1 * (t2 * m) = (w1 * t2) * ((m * m) * i)
    OBVIOUS
  <2>6. x1 \in Int /\ x2 \in Int
    OBVIOUS
  <2>7. t1 * x2 - x1 * (t2 * m) = 1 * (a * e)
    BY <2>3, <2>4, <2>5
  <2> HIDE DEF x1, x2
  <2> QED BY <1>8, <2>2, <2>6, <2>7
<1>13. CASE i = 0 /\ j = 0
  <2>1. Times(<<i, m>>, MeanOf(w, i)) = <<0, m>> /\ Times(<<m - i, m>>, MeanOf(l, j)) = <<0, m>>
    BY <1>3, <1>4, <1>13 DEF MeanOf, Over, Times, Zero
  <2>2. Apart(i, m, MeanOf(w, i), MeanOf(l, j)) = <<0, m * m>>
    BY <1>9, <2>1 DEF Apart, Plus
  <2>3. t1 = 0 /\ a = 0
    <3>1. l1 = 0 /\ l2 = 1 /\ w1 = 0 /\ w2 = 1
      BY <1>3, <1>4, <1>13 DEF Zero
    <3>2. t1 * (1 * 1) = (0 * 1 + 0 * 1) * t2
      BY <1>5, <3>1
    <3> QED BY <1>6, <3>1, <3>2
  <2>4. PICK x1 \in Int, x2 \in Int : x1 = 0 /\ x2 = m * m
    OBVIOUS
  <2>5. t1 * x2 - x1 * (t2 * m) = 1 * (a * e)
    BY <2>3, <2>4
  <2>6. Apart(i, m, MeanOf(w, i), MeanOf(l, j)) = <<x1, x2>>
    BY <2>2, <2>4
  <2> QED BY <1>8, <2>5, <2>6
<1> QED BY <1>10, <1>11, <1>12, <1>13

(* The elements at the positions in S, and zeros elsewhere.                *)
Part(s, S, m) == [i \in 1 .. m |-> IF i \in S THEN s[i] ELSE Zero]

LEMMA PartSums ==
  ASSUME NEW m \in Nat, NEW s \in [1 .. m -> Proper], NEW S
  PROVE  \E h : Sums(h, Part(s, S, m), m) /\ FoldLeft(Plus, Zero, Part(s, S, m)) = h[m]
<1>1. Part(s, S, m) \in [1 .. m -> Proper]
  BY ZeroType DEF Part
<1> HIDE DEF Part
<1> QED BY <1>1, SumsExist

(* One step of the sums of a part.                                         *)
LEMMA PartStep ==
  ASSUME NEW m \in Nat, NEW s \in [1 .. m -> Proper], NEW S, NEW h, Sums(h, Part(s, S, m), m),
         NEW k \in 1 .. m
  PROVE  /\ h[k - 1] \in Proper /\ h[k] \in Proper /\ s[k] \in Proper
         /\ h[k] = IF k \in S THEN Plus(h[k - 1], s[k]) ELSE h[k - 1]
<1>1. h[k] = Plus(h[k - 1], Part(s, S, m)[k]) /\ h[k - 1] \in Proper /\ h[k] \in Proper
  BY DEF Sums
<1>2. Part(s, S, m)[k] = IF k \in S THEN s[k] ELSE Zero
  BY DEF Part
<1> QED BY <1>1, <1>2, PlusZero

LEMMA SumOfNothing ==
  ASSUME NEW m \in Nat, NEW s \in [1 .. m -> Proper], NEW h, Sums(h, Part(s, {}, m), m)
  PROVE  h[m] = Zero
<1> DEFINE N == {k \in 0 .. m : h[k] = Zero}
<1>1. 0 \in N
  BY DEF Sums
<1>2. \A k \in 1 .. m : k - 1 \in N => k \in N
  BY PartStep
<1> HIDE DEF N
<1>3. m \in N
  BY <1>1, <1>2, Induct
<1> QED BY <1>3 DEF N

LEMMA SumOfLosses ==
  ASSUME NEW m \in Nat, NEW s \in [1 .. m -> Proper], NEW S, \A i \in 1 .. m : i \in S => s[i][1] < 0,
         NEW h, Sums(h, Part(s, S, m), m)
  PROVE  h[m][1] <= 0 /\ ((\E i \in 1 .. m : i \in S) => h[m][1] < 0)
<1> DEFINE Holds(k) == h[k][1] <= 0 /\ ((\E i \in 1 .. k : i \in S) => h[k][1] < 0)
           N == {k \in 0 .. m : Holds(k)}
<1>1. 0 \in N
  BY DEF Sums, Zero
<1>2. ASSUME NEW k \in 1 .. m, k - 1 \in N PROVE k \in N
  <2>1. /\ h[k - 1] \in Proper /\ h[k] \in Proper /\ s[k] \in Proper
        /\ h[k] = IF k \in S THEN Plus(h[k - 1], s[k]) ELSE h[k - 1]
    BY PartStep
  <2>2. \A i \in 1 .. k : i = k \/ i \in 1 .. k - 1
    OBVIOUS
  <2>3. CASE k \in S
    <3>0. PICK a1 \in Int, a2 \in Nat \ {0} : h[k - 1] = <<a1, a2>>
      BY <2>1, PairOfProper
    <3>1. PICK x1 \in Int, x2 \in Nat \ {0} : s[k] = <<x1, x2>>
      BY <2>1, PairOfProper
    <3>2. a1 <= 0 /\ x1 < 0
      BY <1>2, <2>3, <3>0, <3>1
    <3>3. a1 * x2 <= 0 /\ x1 * a2 < 0
      BY <3>2
    <3>4. Plus(<<a1, a2>>, <<x1, x2>>)[1] = a1 * x2 + x1 * a2
      BY DEF Plus
    <3>5. h[k][1] = a1 * x2 + x1 * a2
      BY <2>1, <2>3, <3>0, <3>1, <3>4, Zenon
    <3>6. h[k][1] < 0
      BY <3>3, <3>5
    <3>7. h[k][1] <= 0
      BY <3>3, <3>5
    <3> QED BY <3>6, <3>7
  <2>4. CASE k \notin S
    BY <1>2, <2>1, <2>2, <2>4
  <2> QED BY <2>3, <2>4
<1> HIDE DEF N
<1>3. m \in N
  BY <1>1, <1>2, Induct
<1> QED BY <1>3 DEF N

(* Gains and losses add up to the whole; what is neither adds nothing.     *)
LEMMA SumOfParts ==
  ASSUME NEW m \in Nat, NEW s \in [1 .. m -> Proper], NEW U, NEW D, U \cap D = {},
         \A i \in 1 .. m : i \in U \/ i \in D \/ s[i][1] = 0,
         NEW h, Sums(h, s, m), NEW w, Sums(w, Part(s, U, m), m), NEW l, Sums(l, Part(s, D, m), m)
  PROVE  Same(h[m], Plus(w[m], l[m]))
<1> DEFINE N == {k \in 0 .. m : Same(h[k], Plus(w[k], l[k]))}
<1>1. 0 \in N
  BY DEF Sums, Same, Plus, Zero
<1>2. ASSUME NEW k \in 1 .. m, k - 1 \in N PROVE k \in N
  <2>1. /\ w[k - 1] \in Proper /\ s[k] \in Proper /\ l[k - 1] \in Proper
        /\ w[k] = IF k \in U THEN Plus(w[k - 1], s[k]) ELSE w[k - 1]
        /\ l[k] = IF k \in D THEN Plus(l[k - 1], s[k]) ELSE l[k - 1]
    BY PartStep
  <2>2. h[k] = Plus(h[k - 1], s[k]) /\ h[k - 1] \in Proper
    BY DEF Sums
  <2>3. Same(h[k - 1], Plus(w[k - 1], l[k - 1])) /\ Plus(w[k - 1], l[k - 1]) \in Proper
    BY <1>2, <2>1, PlusType
  <2>4. CASE k \in U
    <3>1. w[k] = Plus(w[k - 1], s[k]) /\ l[k] = l[k - 1]
      BY <2>1, <2>4
    <3> QED BY <2>1, <2>2, <2>3, <3>1, PlusLeft
  <2>5. CASE k \in D
    <3>1. w[k] = w[k - 1] /\ l[k] = Plus(l[k - 1], s[k])
      BY <2>1, <2>5
    <3> QED BY <2>1, <2>2, <2>3, <3>1, PlusLeft
  <2>6. CASE k \notin U /\ k \notin D
    <3>1. w[k] = w[k - 1] /\ l[k] = l[k - 1] /\ s[k][1] = 0
      BY <2>1, <2>6
    <3> QED BY <2>1, <2>2, <2>3, <3>1, PlusNothing
  <2> QED BY <2>4, <2>5, <2>6
<1> HIDE DEF N
<1>3. m \in N
  BY <1>1, <1>2, Induct
<1> QED BY <1>3 DEF N

LEMMA MeanAtIs ==
  ASSUME NEW m \in Nat, NEW s \in [1 .. m -> Proper], NEW S \in SUBSET (1 .. m)
  PROVE  MeanAt(s, S) = MeanOf(FoldLeft(Plus, Zero, Part(s, S, m)), Cardinality(S))
<1>1. Len(s) = m
  OBVIOUS
<1>2. IsFiniteSet(S) /\ (Cardinality(S) = 0 <=> S = {})
  <2>1. IsFiniteSet(1 .. m)
    BY FS_Interval
  <2>2. IsFiniteSet(S)
    BY <2>1, FS_Subset
  <2> QED BY <2>2, FS_EmptySet
<1>3. Part(s, S, m) = [i \in 1 .. Len(s) |-> IF i \in S THEN s[i] ELSE Zero]
  BY <1>1 DEF Part
<1> QED BY <1>2, <1>3, Zenon DEF MeanAt, MeanOf

LEMMA MeanIs ==
  ASSUME NEW m \in Nat, NEW s \in [1 .. m -> Proper]
  PROVE  Mean(s) = MeanOf(FoldLeft(Plus, Zero, s), m)
<1>1. Part(s, 1 .. m, m) = s
  BY DEF Part
<1>2. Cardinality(1 .. m) = m
  BY FS_Interval
<1>3. MeanAt(s, 1 .. m) = MeanOf(FoldLeft(Plus, Zero, s), m)
  BY <1>1, <1>2, MeanAtIs
<1>4. Len(s) = m
  OBVIOUS
<1> QED BY <1>3, <1>4 DEF Mean

LEMMA CountOfThree ==
  ASSUME NEW m \in Nat, NEW U \in SUBSET (1 .. m), NEW D \in SUBSET (1 .. m), U \cap D = {}
  PROVE  /\ Cardinality(U) \in Nat /\ Cardinality(D) \in Nat
         /\ \E e \in Nat : /\ m = Cardinality(U) + Cardinality(D) + e
                           /\ e > 0 <=> \E i \in 1 .. m : i \notin U /\ i \notin D
         /\ Cardinality(U) = 0 <=> U = {}
         /\ Cardinality(D) = 0 <=> D = {}
<1>1. IsFiniteSet(1 .. m) /\ Cardinality(1 .. m) = m
  BY FS_Interval
<1>2. IsFiniteSet(U) /\ IsFiniteSet(D)
  BY <1>1, FS_Subset
<1>3. Cardinality(U) \in Nat /\ Cardinality(D) \in Nat
  BY <1>2, FS_CardinalityType
<1> DEFINE E == (1 .. m) \ (U \cup D)
<1>4. IsFiniteSet(U \cup D) /\ Cardinality(U \cup D) = Cardinality(U) + Cardinality(D)
  <2>1. Cardinality(U \cap D) = 0
    BY FS_EmptySet, Zenon
  <2>2. /\ IsFiniteSet(U \cup D)
        /\ Cardinality(U \cup D) = Cardinality(U) + Cardinality(D) - Cardinality(U \cap D)
    BY <1>2, FS_Union, Zenon
  <2> QED BY <1>3, <2>1, <2>2
<1>5. IsFiniteSet(E) /\ Cardinality(E) = m - Cardinality(U \cup D)
  <2>1. (1 .. m) \cap (U \cup D) = U \cup D
    OBVIOUS
  <2> QED BY <1>1, <2>1, FS_Difference
<1>6. Cardinality(E) \in Nat /\ (Cardinality(E) = 0 <=> E = {})
  BY <1>5, FS_CardinalityType, FS_EmptySet
<1>7. E = {} <=> ~ \E i \in 1 .. m : i \notin U /\ i \notin D
  OBVIOUS
<1>8. m = Cardinality(U) + Cardinality(D) + Cardinality(E)
  BY <1>3, <1>4, <1>5, <1>6
<1>9. (Cardinality(U) = 0 <=> U = {}) /\ (Cardinality(D) = 0 <=> D = {})
  BY <1>2, FS_EmptySet
<1> HIDE DEF E
<1> QED BY <1>3, <1>6, <1>7, <1>8, <1>9

(* Expectancy is at most the mean return, and less exactly when some trade *)
(* breaks even and another one loses.                                      *)
LEMMA ExpectancyAtMostMean ==
  ASSUME NEW m \in Nat \ {0}, NEW ts, Len(ts) = m, ts # <<>>, \A i \in 1 .. m : PnlPct(ts[i]) \in Proper
  PROVE  /\ AtMost(Expectancy(ts), Mean(Returns(ts)))
         /\ ~Same(Expectancy(ts), Mean(Returns(ts)))
              <=> /\ \E i \in 1 .. m : PnlPct(ts[i])[1] = 0
                  /\ \E i \in 1 .. m : PnlPct(ts[i])[1] < 0
<1>1. PICK s, U, D : s = Returns(ts) /\ U = Wins(ts) /\ D = Losses(ts)
  OBVIOUS
<1>2. s \in [1 .. m -> Proper] /\ \A i \in 1 .. m : s[i] = PnlPct(ts[i])
  BY <1>1 DEF Returns
<1>3. /\ U \in SUBSET (1 .. m) /\ D \in SUBSET (1 .. m) /\ U \cap D = {}
      /\ \A i \in 1 .. m : (i \in U <=> s[i][1] > 0) /\ (i \in D <=> s[i][1] < 0)
      /\ \A i \in 1 .. m : (i \notin U /\ i \notin D) <=> s[i][1] = 0
  <2>1. \A i \in 1 .. m : s[i][1] \in Int
    BY <1>2 DEF Proper
  <2> QED BY <1>1, <1>2, <2>1 DEF Wins, Losses
<1>4. PICK h : Sums(h, s, m) /\ FoldLeft(Plus, Zero, s) = h[m]
  BY <1>2, SumsExist
<1>5. PICK w : Sums(w, Part(s, U, m), m) /\ FoldLeft(Plus, Zero, Part(s, U, m)) = w[m]
  BY <1>2, PartSums
<1>6. PICK l : Sums(l, Part(s, D, m), m) /\ FoldLeft(Plus, Zero, Part(s, D, m)) = l[m]
  BY <1>2, PartSums
<1>7. h[m] \in Proper /\ w[m] \in Proper /\ l[m] \in Proper
  BY <1>4, <1>5, <1>6 DEF Sums
<1>8. Same(h[m], Plus(w[m], l[m]))
  BY <1>2, <1>3, <1>4, <1>5, <1>6, SumOfParts
<1>9. l[m][1] <= 0 /\ (D # {} => l[m][1] < 0)
  BY <1>2, <1>3, <1>6, SumOfLosses
<1>10. (U = {} => w[m] = Zero) /\ (D = {} => l[m] = Zero)
  BY <1>2, <1>5, <1>6, SumOfNothing
<1>11. PICK i \in Nat, j \in Nat, e \in Nat :
         /\ i = Cardinality(U) /\ j = Cardinality(D) /\ m = i + j + e
         /\ (e > 0 <=> \E k \in 1 .. m : k \notin U /\ k \notin D)
         /\ (i = 0 <=> U = {}) /\ (j = 0 <=> D = {})
  BY <1>3, CountOfThree
<1>12. PICK x : x = Apart(i, m, MeanOf(w[m], i), MeanOf(l[m], j))
  OBVIOUS
<1>13. AtMost(x, MeanOf(h[m], m)) /\ (~Same(x, MeanOf(h[m], m)) <=> j > 0 /\ e > 0)
  <2>1. PICK t, g, b : t = h[m] /\ g = w[m] /\ b = l[m]
    OBVIOUS
  <2>2. /\ i = 0 => g = Zero
        /\ j = 0 => b = Zero
        /\ j > 0 => b[1] < 0
    BY <1>9, <1>10, <1>11, <2>1
  <2>3. t \in Proper /\ g \in Proper /\ b \in Proper /\ Same(t, Plus(g, b)) /\ b[1] <= 0
    BY <1>7, <1>8, <1>9, <2>1, Zenon
  <2>4. m = i + j + e
    BY <1>11
  <2>5. PICK y : y = Apart(i, m, MeanOf(g, i), MeanOf(b, j))
    OBVIOUS
  <2>6. Split(t, g, b, i, j, e, m)
    BY <2>2, <2>3, <2>4 DEF Split
  <2>7. AtMost(y, MeanOf(t, m)) /\ (~Same(y, MeanOf(t, m)) <=> j > 0 /\ e > 0)
    BY <2>5, <2>6, WeightedMean
  <2> QED BY <1>12, <2>1, <2>5, <2>7
<1>14. Expectancy(ts) = x
  <2>1. MeanAt(s, U) = MeanOf(w[m], i)
    <3>1. MeanAt(s, U) = MeanOf(FoldLeft(Plus, Zero, Part(s, U, m)), Cardinality(U))
      BY <1>2, <1>3, MeanAtIs
    <3> QED BY <1>5, <1>11, <3>1, Zenon
  <2>2. MeanAt(s, D) = MeanOf(l[m], j)
    <3>1. MeanAt(s, D) = MeanOf(FoldLeft(Plus, Zero, Part(s, D, m)), Cardinality(D))
      BY <1>2, <1>3, MeanAtIs
    <3> QED BY <1>6, <1>11, <3>1, Zenon
  <2>3. WinRate(ts) = <<i, m>>
    BY <1>1, <1>11 DEF WinRate
  <2> QED BY <1>1, <1>12, <2>1, <2>2, <2>3, Zenon DEF Expectancy, Apart
<1>15. Mean(Returns(ts)) = MeanOf(h[m], m)
  BY <1>1, <1>2, <1>4, MeanIs
<1>16. e > 0 <=> \E k \in 1 .. m : PnlPct(ts[k])[1] = 0
  BY <1>2, <1>3, <1>11
<1>17. j > 0 <=> \E k \in 1 .. m : PnlPct(ts[k])[1] < 0
  <2>1. D # {} <=> \E k \in 1 .. m : s[k][1] < 0
    BY <1>3
  <2> QED BY <1>2, <1>11, <2>1
<1> QED BY <1>13, <1>14, <1>15, <1>16, <1>17

(* Without trades both are nothing.                                        *)
LEMMA ExpectancyOfNothing ==
  Same(Expectancy(<<>>), Mean(Returns(<<>>))) /\ AtMost(Expectancy(<<>>), Mean(Returns(<<>>)))
<1>1. Len(<<>>) = 0 /\ 1 .. 0 = {}
  OBVIOUS
<1>2. Wins(<<>>) = {} /\ Losses(<<>>) = {} /\ WinRate(<<>>) = Zero
  BY <1>1 DEF Wins, Losses, WinRate
<1>3. \A s : MeanAt(s, {}) = Zero
  BY DEF MeanAt
<1>4. Expectancy(<<>>) = Plus(Times(Zero, Zero), Times(Minus(One, Zero), Zero))
  BY <1>2, <1>3 DEF Expectancy
<1>5. Len(Returns(<<>>)) = 0
  BY <1>1 DEF Returns
<1>6. Mean(Returns(<<>>)) = Zero
  BY <1>1, <1>3, <1>5 DEF Mean
<1> QED BY <1>4, <1>6 DEF Same, AtMost, Plus, Times, Minus, Zero, One

-----------------------------------------------------------------------------
(* The portfolio curve.  A finite set of numbers has an ascending sequence *)
(* of as many elements, and such a sequence names them all.                *)
HasOrder(T) == \E s \in [1 .. Cardinality(T) -> T] : Ascending(s)

LEMMA OrderWithLast ==
  ASSUME NEW k \in Nat, NEW T \in SUBSET (0 .. k), k \in T, HasOrder(T \ {k})
  PROVE  HasOrder(T)
<1>1. IsFiniteSet(T)
  <2>1. IsFiniteSet(0 .. k)
    BY FS_Interval
  <2> QED BY <2>1, FS_Subset
<1>2. PICK c \in Nat : c = Cardinality(T \ {k}) /\ Cardinality(T) = c + 1
  <2>1. Cardinality(T) \in Nat /\ IsFiniteSet(T \ {k}) /\ Cardinality(T \ {k}) = Cardinality(T) - 1
    BY <1>1, FS_CardinalityType, FS_RemoveElement
  <2>2. Cardinality(T \ {k}) \in Nat
    BY <2>1, FS_CardinalityType
  <2> QED BY <2>1, <2>2
<1>3. PICK s \in [1 .. c -> T \ {k}] : Ascending(s)
  BY <1>2 DEF HasOrder
<1> DEFINE u == [i \in 1 .. c + 1 |-> IF i = c + 1 THEN k ELSE s[i]]
<1>4. ASSUME NEW i \in 1 .. c PROVE s[i] \in T /\ s[i] < k
  <2>1. s[i] \in T \ {k}
    BY <1>3, <1>2
  <2>2. \A x \in T : x \in 0 .. k
    OBVIOUS
  <2>3. s[i] \in T /\ s[i] # k
    BY <2>1
  <2>4. s[i] \in 0 .. k
    BY <2>2, <2>3
  <2> QED BY <2>3, <2>4
<1>5. u \in [1 .. c + 1 -> T]
  BY <1>2, <1>4
<1>6. ASSUME NEW i \in 1 .. c + 1, NEW j \in 1 .. c + 1, i < j PROVE u[i] < u[j]
  <2>1. i \in 1 .. c /\ u[i] = s[i]
    BY <1>2, <1>6
  <2>2. CASE j = c + 1
    BY <1>4, <2>1, <2>2
  <2>3. CASE j \in 1 .. c
    <3>1. s[i] < s[j]
      BY <1>3, <1>6, <2>1, <2>3 DEF Ascending
    <3>2. u[j] = s[j]
      BY <1>2, <2>3
    <3> QED BY <2>1, <3>1, <3>2
  <2> QED BY <1>2, <2>2, <2>3
<1> HIDE DEF u
<1>7. Ascending(u)
  BY <1>5, <1>6 DEF Ascending
<1> QED BY <1>2, <1>5, <1>7 DEF HasOrder

LEMMA OrderExists ==
  ASSUME NEW m \in Nat, NEW T \in SUBSET (0 .. m)
  PROVE  HasOrder(T)
<1> DEFINE N == {k \in 0 .. m : \A S \in SUBSET (0 .. k) : HasOrder(S)}
<1>1. 0 \in N
  <2>1. Ascending(<<>>) /\ <<>> \in [1 .. 0 -> {}]
    BY DEF Ascending
  <2>2. Cardinality({}) = 0
    BY FS_EmptySet
  <2>3. HasOrder({})
    BY <2>1, <2>2 DEF HasOrder
  <2>4. ASSUME NEW S \in SUBSET (0 .. 0) PROVE HasOrder(S)
    <3>1. S \ {0} = {}
      OBVIOUS
    <3>2. CASE 0 \in S
      <4>1. HasOrder(S \ {0})
        BY <2>3, <3>1
      <4> QED BY <3>2, <4>1, OrderWithLast
    <3>3. CASE 0 \notin S
      <4>1. S = {}
        BY <3>1, <3>3
      <4> QED BY <2>3, <4>1
    <3> QED BY <3>2, <3>3
  <2> QED BY <2>4
<1>2. ASSUME NEW k \in 1 .. m, k - 1 \in N PROVE k \in N
  <2> SUFFICES ASSUME NEW S \in SUBSET (0 .. k) PROVE HasOrder(S)
    OBVIOUS
  <2>1. S \ {k} \in SUBSET (0 .. k - 1)
    OBVIOUS
  <2>2. HasOrder(S \ {k})
    BY <1>2, <2>1
  <2>3. CASE k \in S
    BY <2>2, <2>3, OrderWithLast
  <2>4. CASE k \notin S
    <3>1. S \ {k} = S
      BY <2>4
    <3> QED BY <2>2, <3>1
  <2> QED BY <2>3, <2>4
<1> HIDE DEF N
<1>3. m \in N
  BY <1>1, <1>2, Induct
<1> QED BY <1>3 DEF N

LEMMA OrderNamesAll ==
  ASSUME NEW m \in Nat, NEW T \in SUBSET (0 .. m), NEW s \in [1 .. Cardinality(T) -> T], Ascending(s)
  PROVE  /\ Cardinality(T) \in Nat /\ (Cardinality(T) = 0 <=> T = {})
         /\ \A x \in T : \E i \in 1 .. Cardinality(T) : s[i] = x
<1>1. IsFiniteSet(T)
  <2>1. IsFiniteSet(0 .. m)
    BY FS_Interval
  <2> QED BY <2>1, FS_Subset
<1>2. Cardinality(T) \in Nat /\ (Cardinality(T) = 0 <=> T = {})
  BY <1>1, FS_CardinalityType, FS_EmptySet
<1>3. PICK c \in Nat : c = Cardinality(T)
  BY <1>2
<1>4. IsFiniteSet(1 .. c) /\ Cardinality(1 .. c) = c
  BY FS_Interval
<1>5. s \in Injection(1 .. c, T)
  <2>1. \A i \in 1 .. c : s[i] \in Int
    <3>1. \A i \in 1 .. c : s[i] \in T
      BY <1>3
    <3>2. \A x \in T : x \in Int
      OBVIOUS
    <3> QED BY <3>1, <3>2
  <2>2. ASSUME NEW i \in 1 .. c, NEW j \in 1 .. c, s[i] = s[j] PROVE i = j
    <3>1. i < j => s[i] < s[j]
      BY <1>3 DEF Ascending
    <3>2. j < i => s[j] < s[i]
      BY <1>3 DEF Ascending
    <3> QED BY <2>1, <2>2, <3>1, <3>2
  <2> QED BY <1>3, <2>2 DEF Injection, IsInjective
<1>6. s \in Surjection(1 .. c, T)
  BY <1>1, <1>3, <1>4, <1>5, FS_Injection
<1> QED BY <1>2, <1>3, <1>6 DEF Surjection

\* s names the k elements of T in ascending order.
Orders(s, k, T) ==
  /\ k \in Nat /\ s \in [1 .. k -> T] /\ DOMAIN s = 1 .. k
  /\ \A i, j \in 1 .. k : i < j => s[i] < s[j]
  /\ \A x \in T : \E i \in 1 .. k : s[i] = x

LEMMA InOrderIs ==
  ASSUME NEW m \in Nat, NEW T \in SUBSET (0 .. m)
  PROVE  \E k : Orders(InOrder(T), k, T)
<1>1. PICK s : s = InOrder(T)
  OBVIOUS
<1>2. s \in [1 .. Cardinality(T) -> T] /\ Ascending(s)
  <2>1. \E u \in [1 .. Cardinality(T) -> T] : Ascending(u)
    BY OrderExists DEF HasOrder
  <2> QED BY <1>1, <2>1 DEF InOrder
<1>3. PICK k \in Nat : k = Cardinality(T) /\ \A x \in T : \E i \in 1 .. k : s[i] = x
  BY <1>2, OrderNamesAll
<1>4. DOMAIN s = 1 .. k /\ \A i, j \in 1 .. k : i < j => s[i] < s[j]
  BY <1>2, <1>3 DEF Ascending
<1>5. Orders(s, k, T)
  BY <1>2, <1>3, <1>4 DEF Orders
<1> QED BY <1>1, <1>5

(* Of several positive values, one grows no more than their sum.           *)
LEMMA PairOf ==
  ASSUME NEW a \in Positive
  PROVE  \E i \in Nat \ {0}, j \in Nat \ {0} : a = <<i, j>>
BY DEF Positive

LEMMA PlusPositive ==
  ASSUME NEW a \in Positive, NEW b \in Positive
  PROVE  Plus(a, b) \in Positive
<1>1. PICK a1 \in Nat \ {0}, a2 \in Nat \ {0} : a = <<a1, a2>>
  BY PairOf
<1>2. PICK b1 \in Nat \ {0}, b2 \in Nat \ {0} : b = <<b1, b2>>
  BY PairOf
<1>3. \A i, j \in Nat \ {0} : i * j \in Nat \ {0} /\ i + j \in Nat \ {0}
  OBVIOUS
<1>4. a1 * b2 + b1 * a2 \in Nat \ {0} /\ a2 * b2 \in Nat \ {0}
  BY <1>3
<1> QED BY <1>1, <1>2, <1>4 DEF Plus, Positive

LEMMA SumsPositive ==
  ASSUME NEW m \in Nat, NEW x \in [1 .. m -> Positive], NEW h, Sums(h, x, m)
  PROVE  \A k \in 1 .. m : h[k] \in Positive /\ (k = 1 => h[k] = x[k])
<1> DEFINE Holds(k) == k > 0 => h[k] \in Positive /\ (k = 1 => h[k] = x[k])
           N == {k \in 0 .. m : Holds(k)}
<1>1. 0 \in N
  OBVIOUS
<1>2. ASSUME NEW k \in 1 .. m, k - 1 \in N PROVE k \in N
  <2>1. h[k] = Plus(h[k - 1], x[k]) /\ x[k] \in Positive
    BY DEF Sums
  <2>2. CASE k = 1
    <3>1. h[1] = Plus(Zero, x[1])
      BY <2>1, <2>2 DEF Sums
    <3>2. \A a \in Positive : Plus(Zero, a) = a
      BY DEF Plus, Zero, Positive
    <3> QED BY <2>1, <2>2, <3>1, <3>2
  <2>3. CASE k > 1
    <3>1. h[k - 1] \in Positive
      BY <1>2, <2>3
    <3> QED BY <2>1, <2>3, <3>1, PlusPositive
  <2> QED BY <2>2, <2>3
<1> HIDE DEF N
<1>3. \A k \in 0 .. m : k \in N
  BY <1>1, <1>2, Induct
<1> QED BY <1>3 DEF N

\* y is more than r times x
Beyond(r, y, x) == r[1] * (y[2] * x[1]) < (y[1] * x[2]) * r[2]

LEMMA PlusBeyond ==
  ASSUME NEW r \in Positive, NEW h \in Positive, NEW g \in Positive, NEW y \in Positive, NEW x \in Positive,
         Beyond(r, h, g), Beyond(r, y, x)
  PROVE  Beyond(r, Plus(h, y), Plus(g, x))
<1>1. PICK r1 \in Nat \ {0}, r2 \in Nat \ {0} : r = <<r1, r2>>
  BY PairOf
<1>2. PICK h1 \in Nat \ {0}, h2 \in Nat \ {0} : h = <<h1, h2>>
  BY PairOf
<1>3. PICK g1 \in Nat \ {0}, g2 \in Nat \ {0} : g = <<g1, g2>>
  BY PairOf
<1>4. PICK y1 \in Nat \ {0}, y2 \in Nat \ {0} : y = <<y1, y2>>
  BY PairOf
<1>5. PICK x1 \in Nat \ {0}, x2 \in Nat \ {0} : x = <<x1, x2>>
  BY PairOf
<1>6. \A i, j \in Nat \ {0} : i * j \in Nat \ {0}
  OBVIOUS
<1>7. \A i, j \in Int : \A c \in Nat \ {0} : i < j => i * c < j * c
  OBVIOUS
<1>8. (r1 * (h2 * g1)) * (y2 * x2) < ((h1 * g2) * r2) * (y2 * x2)
  <2>1. r1 * (h2 * g1) < (h1 * g2) * r2
    BY <1>1, <1>2, <1>3 DEF Beyond
  <2>2. PICK i \in Int, j \in Int, c \in Nat \ {0} :
          i = r1 * (h2 * g1) /\ j = (h1 * g2) * r2 /\ c = y2 * x2
    BY <1>6
  <2> QED BY <1>7, <2>1, <2>2
<1>9. (r1 * (y2 * x1)) * (h2 * g2) < ((y1 * x2) * r2) * (h2 * g2)
  <2>1. r1 * (y2 * x1) < (y1 * x2) * r2
    BY <1>1, <1>4, <1>5 DEF Beyond
  <2>2. PICK i \in Int, j \in Int, c \in Nat \ {0} :
          i = r1 * (y2 * x1) /\ j = (y1 * x2) * r2 /\ c = h2 * g2
    BY <1>6
  <2> QED BY <1>7, <2>1, <2>2
<1>10. /\ r1 * ((h2 * y2) * (g1 * x2 + x1 * g2))
            = (r1 * (h2 * g1)) * (y2 * x2) + (r1 * (y2 * x1)) * (h2 * g2)
       /\ ((h1 * y2 + y1 * h2) * (g2 * x2)) * r2
            = ((h1 * g2) * r2) * (y2 * x2) + ((y1 * x2) * r2) * (h2 * g2)
  OBVIOUS
<1>11. r1 * ((h2 * y2) * (g1 * x2 + x1 * g2)) < ((h1 * y2 + y1 * h2) * (g2 * x2)) * r2
  BY <1>8, <1>9, <1>10
<1>12. /\ Plus(h, y) = <<h1 * y2 + y1 * h2, h2 * y2>>
       /\ Plus(g, x) = <<g1 * x2 + x1 * g2, g2 * x2>>
  BY <1>2, <1>3, <1>4, <1>5 DEF Plus
<1> QED BY <1>1, <1>11, <1>12 DEF Beyond

LEMMA SumBeyond ==
  ASSUME NEW m \in Nat \ {0}, NEW x \in [1 .. m -> Positive], NEW y \in [1 .. m -> Positive],
         NEW g, Sums(g, x, m), NEW h, Sums(h, y, m), NEW r \in Positive,
         \A k \in 1 .. m : Beyond(r, y[k], x[k])
  PROVE  Beyond(r, h[m], g[m])
<1> DEFINE Holds(k) == k > 0 => Beyond(r, h[k], g[k])
           N == {k \in 0 .. m : Holds(k)}
<1>1. 0 \in N
  OBVIOUS
<1>2. ASSUME NEW k \in 1 .. m, k - 1 \in N PROVE k \in N
  <2>1. h[k] = Plus(h[k - 1], y[k]) /\ g[k] = Plus(g[k - 1], x[k]) /\ y[k] \in Positive /\ x[k] \in Positive
    BY DEF Sums
  <2>2. /\ \A i \in 1 .. m : h[i] \in Positive /\ (i = 1 => h[i] = y[i])
        /\ \A i \in 1 .. m : g[i] \in Positive /\ (i = 1 => g[i] = x[i])
    BY SumsPositive
  <2>3. CASE k = 1
    BY <2>2, <2>3
  <2>4. CASE k > 1
    <3>1. Beyond(r, h[k - 1], g[k - 1]) /\ h[k - 1] \in Positive /\ g[k - 1] \in Positive
      BY <1>2, <2>2, <2>4
    <3>2. Beyond(r, y[k], x[k])
      OBVIOUS
    <3>3. Beyond(r, Plus(h[k - 1], y[k]), Plus(g[k - 1], x[k]))
      BY <2>1, <3>1, <3>2, PlusBeyond
    <3>4. Beyond(r, h[k], g[k])
      BY <2>1, <3>3, Zenon
    <3> QED BY <3>4
  <2> QED BY <2>3, <2>4
<1> HIDE DEF N
<1>3. m \in N
  <2>1. \A k \in 0 .. m : k \in N
    BY <1>1, <1>2, Induct
  <2> QED BY <2>1
<1> QED BY <1>3 DEF N

LEMMA MeanGrowth ==
  ASSUME NEW m \in Nat \ {0}, NEW x \in [1 .. m -> Positive], NEW y \in [1 .. m -> Positive]
  PROVE  /\ Mean(x) \in Positive /\ Mean(y) \in Positive
         /\ \E k \in 1 .. m : AtMost(Over(y[k], x[k]), Over(Mean(y), Mean(x)))
<1>1. Positive \subseteq Proper /\ x \in [1 .. m -> Proper] /\ y \in [1 .. m -> Proper]
  BY DEF Positive, Proper
<1>2. PICK g : Sums(g, x, m) /\ FoldLeft(Plus, Zero, x) = g[m]
  BY <1>1, SumsExist
<1>3. PICK h : Sums(h, y, m) /\ FoldLeft(Plus, Zero, y) = h[m]
  BY <1>1, SumsExist
<1>4. g[m] \in Positive /\ h[m] \in Positive
  BY <1>2, <1>3, SumsPositive
<1>5. Mean(x) = MeanOf(g[m], m) /\ Mean(y) = MeanOf(h[m], m)
  BY <1>1, <1>2, <1>3, MeanIs
<1>6. PICK g1 \in Nat \ {0}, g2 \in Nat \ {0} : g[m] = <<g1, g2>>
  BY <1>4, PairOf
<1>7. PICK h1 \in Nat \ {0}, h2 \in Nat \ {0} : h[m] = <<h1, h2>>
  BY <1>4, PairOf
<1>8. Mean(x) = <<g1, g2 * m>> /\ Mean(y) = <<h1, h2 * m>>
  BY <1>5, <1>6, <1>7 DEF MeanOf, Over
<1>9. \A i, j \in Nat \ {0} : i * j \in Nat \ {0}
  OBVIOUS
<1>10. g2 * m \in Nat \ {0} /\ h2 * m \in Nat \ {0}
  BY <1>9
<1>11. Mean(x) \in Positive /\ Mean(y) \in Positive
  BY <1>8, <1>10 DEF Positive
<1>12. PICK r1 \in Nat \ {0}, r2 \in Nat \ {0} : r1 = h1 * (g2 * m) /\ r2 = (h2 * m) * g1
  BY <1>9, <1>10
<1>13. Over(Mean(y), Mean(x)) = <<r1, r2>> /\ <<r1, r2>> \in Positive
  BY <1>8, <1>12 DEF Over, Positive
<1>14. ~Beyond(<<r1, r2>>, h[m], g[m])
  <2>1. r1 * (h2 * g1) = (h1 * g2) * r2
    BY <1>12
  <2> QED BY <1>6, <1>7, <2>1 DEF Beyond
<1>15. PICK k \in 1 .. m : ~Beyond(<<r1, r2>>, y[k], x[k])
  BY <1>2, <1>3, <1>13, <1>14, SumBeyond
<1>16. AtMost(Over(y[k], x[k]), <<r1, r2>>)
  <2>1. PICK x1 \in Nat \ {0}, x2 \in Nat \ {0} : x[k] = <<x1, x2>>
    BY PairOf
  <2>2. PICK y1 \in Nat \ {0}, y2 \in Nat \ {0} : y[k] = <<y1, y2>>
    BY PairOf
  <2>3. ~(r1 * (y2 * x1) < (y1 * x2) * r2)
    BY <1>15, <2>1, <2>2 DEF Beyond
  <2>4. (y1 * x2) * r2 <= r1 * (y2 * x1)
    BY <2>3
  <2> QED BY <2>1, <2>2, <2>4 DEF AtMost, Over
<1> QED BY <1>11, <1>13, <1>16

(* A value that grows no more has the worse decline.                       *)
LEMMA WorseDecline ==
  ASSUME NEW a \in Positive, NEW b \in Positive, AtMost(a, b)
  PROVE  AtMost(Minus(a, One), Minus(b, One)) /\ Minus(a, One) \in Proper /\ Minus(b, One) \in Proper
<1>1. PICK a1 \in Nat \ {0}, a2 \in Nat \ {0} : a = <<a1, a2>>
  BY PairOf
<1>2. PICK b1 \in Nat \ {0}, b2 \in Nat \ {0} : b = <<b1, b2>>
  BY PairOf
<1>3. Minus(a, One) = <<a1 - a2, a2>> /\ Minus(b, One) = <<b1 - b2, b2>>
  BY <1>1, <1>2 DEF Minus, One
<1>4. (a1 - a2) * b2 = a1 * b2 - a2 * b2 /\ (b1 - b2) * a2 = b1 * a2 - a2 * b2
  OBVIOUS
<1>5. a1 * b2 <= b1 * a2
  BY <1>1, <1>2 DEF AtMost
<1>6. (a1 - a2) * b2 <= (b1 - b2) * a2
  BY <1>4, <1>5
<1> QED BY <1>3, <1>6 DEF AtMost, Proper

-----------------------------------------------------------------------------
(* The curve of a symbol: points in time order up to the time end, the     *)
(* first of them 1.                                                        *)
IsCurve(curve, m, end) ==
  /\ m \in Nat \ {0} /\ DOMAIN curve = 1 .. m /\ Len(curve) = m
  /\ \A i \in 1 .. m : curve[i].at \in 1 .. end /\ curve[i].equity \in Positive
  /\ \A i, j \in 1 .. m : i < j => curve[i].at < curve[j].at
  /\ curve[1].equity = One

\* The point a curve is at: the first one before it starts, which has the same value.
At(curve, m, t, k) ==
  /\ k \in 1 .. m /\ ValueAt(curve, t) = curve[k].equity
  /\ \A i \in 1 .. m : curve[i].at <= t => i <= k
  /\ k = 1 \/ curve[k].at <= t

LEMMA PointAt ==
  ASSUME NEW curve, NEW m, NEW end \in Nat, IsCurve(curve, m, end), NEW t \in Nat
  PROVE  \E k : At(curve, m, t, k)
<1>1. m \in Nat \ {0} /\ \A i \in 1 .. m : curve[i].at \in Nat
  BY DEF IsCurve
<1> DEFINE known == {i \in DOMAIN curve : curve[i].at <= t}
<1>2. known = {i \in 1 .. m : curve[i].at <= t}
  BY DEF IsCurve
<1>3. ValueAt(curve, t) = IF known = {} THEN One
                          ELSE curve[CHOOSE i \in known : \A j \in known : j <= i].equity
  BY DEF ValueAt
<1>4. CASE known = {}
  <2>1. \A i \in 1 .. m : ~(curve[i].at <= t)
    BY <1>2, <1>4
  <2>2. ValueAt(curve, t) = curve[1].equity /\ 1 \in 1 .. m
    BY <1>1, <1>3, <1>4 DEF IsCurve
  <2>3. At(curve, m, t, 1)
    BY <2>1, <2>2 DEF At
  <2> QED BY <2>3
<1>5. CASE known # {}
  <2>1. PICK k \in known : \A j \in known : k >= j
    <3>1. known \in SUBSET (1 .. m) /\ m \in Nat
      BY <1>1, <1>2
    <3> HIDE DEF known
    <3> QED BY <1>5, <3>1, MaxOfPositions
  <2>2. PICK c : c = CHOOSE i \in known : \A j \in known : j <= i
    OBVIOUS
  <2>3. c \in known /\ \A j \in known : j <= c
    <3>1. \E i \in known : \A j \in known : j <= i
      <4>1. \A j \in known : j <= k
        BY <1>2, <2>1
      <4> HIDE DEF known
      <4> QED BY <2>1, <4>1
    <3> HIDE DEF known
    <3> QED BY <2>2, <3>1
  <2>4. ValueAt(curve, t) = curve[c].equity
    BY <1>3, <1>5, <2>2
  <2>5. c \in 1 .. m /\ curve[c].at <= t /\ \A i \in 1 .. m : curve[i].at <= t => i <= c
    BY <1>2, <2>3
  <2>6. At(curve, m, t, c)
    BY <2>4, <2>5 DEF At
  <2> QED BY <2>6
<1> QED BY <1>4, <1>5

(* Time moves a curve forward, and at its end it is at its last point.     *)
LEMMA LaterPoint ==
  ASSUME NEW curve, NEW m, NEW end \in Nat, IsCurve(curve, m, end), NEW t \in Nat, NEW u \in Nat, t <= u,
         NEW i, At(curve, m, t, i), NEW j, At(curve, m, u, j)
  PROVE  i <= j
<1>1. m \in Nat \ {0} /\ i \in 1 .. m /\ j \in 1 .. m /\ curve[i].at \in Nat
  BY DEF IsCurve, At
<1>2. CASE i = 1
  BY <1>1, <1>2
<1>3. CASE curve[i].at <= t
  <2>1. curve[i].at <= u
    BY <1>1, <1>3
  <2> QED BY <1>1, <2>1 DEF At
<1> QED BY <1>2, <1>3 DEF At

LEMMA LastPoint ==
  ASSUME NEW curve, NEW m, NEW end \in Nat, IsCurve(curve, m, end), NEW t \in Nat, curve[m].at <= t
  PROVE  ValueAt(curve, t) = curve[m].equity
<1>1. PICK k : At(curve, m, t, k)
  BY PointAt
<1>2. m \in Nat \ {0} /\ m \in 1 .. m /\ k \in 1 .. m
  BY <1>1 DEF IsCurve, At
<1>3. m <= k
  BY <1>1, <1>2 DEF At
<1>4. k = m
  BY <1>2, <1>3
<1> QED BY <1>1, <1>4 DEF At

-----------------------------------------------------------------------------
(* The curves of a backtest and their lengths.                             *)
AreCurves(all, m, len, end) ==
  /\ m \in Nat \ {0} /\ DOMAIN all = 1 .. m /\ Len(all) = m
  /\ \A c \in 1 .. m : IsCurve(all[c], len[c], end)

\* times are the timestamps of all curves, k of them, in order.
AreTimes(all, m, len, end, times, k) ==
  /\ k \in Nat \ {0} /\ DOMAIN times = 1 .. k
  /\ \A i \in 1 .. k : times[i] \in 1 .. end
  /\ \A i, j \in 1 .. k : i < j => times[i] < times[j]
  /\ \A c \in 1 .. m : \A i \in 1 .. len[c] : all[c][i].at <= times[k]

LEMMA TimestampsInOrder ==
  ASSUME NEW all, NEW m, NEW len, NEW end \in Nat, AreCurves(all, m, len, end)
  PROVE  \E k : AreTimes(all, m, len, end, Timestamps(all), k)
<1> DEFINE T == UNION {{all[c][i].at : i \in DOMAIN all[c]} : c \in DOMAIN all}
<1>1. /\ m \in Nat \ {0} /\ DOMAIN all = 1 .. m /\ 1 \in 1 .. m
      /\ \A c \in 1 .. m : /\ len[c] \in Nat \ {0} /\ DOMAIN all[c] = 1 .. len[c] /\ 1 \in 1 .. len[c]
                           /\ \A i \in 1 .. len[c] : all[c][i].at \in 1 .. end
  BY DEF AreCurves, IsCurve
<1>2. T \in SUBSET (1 .. end)
  BY <1>1
<1>3. \A c \in 1 .. m : \A i \in 1 .. len[c] : all[c][i].at \in T
  BY <1>1
<1>4. T # {}
  BY <1>1, <1>3
<1>5. PICK s : s = InOrder(T)
  OBVIOUS
<1>6. Timestamps(all) = s
  BY <1>5 DEF Timestamps
<1> HIDE DEF T
<1>7. PICK n : Orders(s, n, T)
  <2>1. T \in SUBSET (0 .. end)
    BY <1>2
  <2> QED BY <1>5, <2>1, InOrderIs
<1>8. PICK k \in Nat \ {0} : /\ k = n /\ s \in [1 .. k -> T] /\ DOMAIN s = 1 .. k
                              /\ \A x \in T : \E i \in 1 .. k : s[i] = x
  <2>1. /\ n \in Nat /\ s \in [1 .. n -> T] /\ DOMAIN s = 1 .. n
        /\ \A x \in T : \E i \in 1 .. n : s[i] = x
    BY <1>7 DEF Orders
  <2>2. n # 0
    BY <1>4, <2>1
  <2> QED BY <2>1, <2>2
<1>9. DOMAIN s = 1 .. k /\ \A i \in 1 .. k : s[i] \in 1 .. end
  <2>1. \A i \in 1 .. k : s[i] \in T
    BY <1>8
  <2>2. \A x \in T : x \in 1 .. end
    BY <1>2
  <2> QED BY <1>8, <2>1, <2>2
<1>10. \A i, j \in 1 .. k : i < j => s[i] < s[j]
  BY <1>7, <1>8 DEF Orders
<1>11. \A i \in 1 .. k : s[i] <= s[k]
  <2>1. \A i \in 1 .. k : i = k \/ i < k
    OBVIOUS
  <2>2. k \in 1 .. k /\ \A i \in 1 .. k : s[i] \in Int
    BY <1>9
  <2> QED BY <1>10, <2>1, <2>2
<1>12. \A c \in 1 .. m : \A i \in 1 .. len[c] : all[c][i].at <= s[k]
  BY <1>3, <1>8, <1>11
<1>13. AreTimes(all, m, len, end, s, k)
  BY <1>9, <1>10, <1>12 DEF AreTimes
<1> QED BY <1>6, <1>13

\* What the symbols are worth at a time.
Worths(all, m, t) == [c \in 1 .. m |-> ValueAt(all[c], t)]

LEMMA WorthsType ==
  ASSUME NEW all, NEW m, NEW len, NEW end \in Nat, AreCurves(all, m, len, end), NEW t \in Nat
  PROVE  Worths(all, m, t) \in [1 .. m -> Positive]
<1>1. ASSUME NEW c \in 1 .. m PROVE ValueAt(all[c], t) \in Positive
  <2>1. IsCurve(all[c], len[c], end)
    BY DEF AreCurves
  <2>2. PICK k : At(all[c], len[c], t, k)
    BY <2>1, PointAt
  <2> QED BY <2>1, <2>2 DEF IsCurve, At
<1> QED BY <1>1 DEF Worths

(* The portfolio has one point for each timestamp, the mean of the symbols.*)
LEMMA CombinedIs ==
  ASSUME NEW all, NEW m, NEW len, NEW end \in Nat, AreCurves(all, m, len, end),
         NEW k, AreTimes(all, m, len, end, Timestamps(all), k)
  PROVE  LET both == CombineEquityCurves(all)
         IN  /\ both = [i \in 1 .. k |-> [at |-> Timestamps(all)[i],
                                          equity |-> Mean(Worths(all, m, Timestamps(all)[i]))]]
             /\ Len(both) = k
<1>1. PICK s : s = Timestamps(all)
  OBVIOUS
<1>2. m \in Nat \ {0} /\ DOMAIN all = 1 .. m /\ k \in Nat \ {0} /\ DOMAIN s = 1 .. k
  BY <1>1 DEF AreCurves, AreTimes
<1>3. {c \in DOMAIN all : all[c] # <<>>} = 1 .. m
  <2>1. \A c \in 1 .. m : Len(all[c]) # 0
    BY DEF AreCurves, IsCurve
  <2>2. Len(<<>>) = 0
    OBVIOUS
  <2> QED BY <1>2, <2>1, <2>2
<1>4. \A t : /\ [c \in DOMAIN all |-> ValueAt(all[c], t)] = Worths(all, m, t)
             /\ MeanAt(Worths(all, m, t), 1 .. m) = Mean(Worths(all, m, t))
  <2>1. \A t : Len(Worths(all, m, t)) = m
    BY <1>2 DEF Worths
  <2> QED BY <1>2, <2>1 DEF Worths, Mean
<1>5. CombineEquityCurves(all)
        = [i \in DOMAIN s |-> [at |-> s[i], equity |-> MeanAt(Worths(all, m, s[i]), 1 .. m)]]
  BY <1>1, <1>3, <1>4 DEF CombineEquityCurves
<1>6. CombineEquityCurves(all) = [i \in 1 .. k |-> [at |-> s[i], equity |-> Mean(Worths(all, m, s[i]))]]
  BY <1>2, <1>4, <1>5
<1> QED BY <1>1, <1>2, <1>6

(* At its last timestamp the portfolio is the mean of the last points.     *)
LEMMA CombinedEnds ==
  ASSUME NEW all, NEW m, NEW len, NEW end \in Nat, AreCurves(all, m, len, end)
  PROVE  Last(CombineEquityCurves(all)).equity = Mean([c \in 1 .. m |-> Last(all[c]).equity])
<1>1. PICK s : s = Timestamps(all)
  OBVIOUS
<1>2. PICK k : AreTimes(all, m, len, end, s, k)
  BY <1>1, TimestampsInOrder
<1>3. k \in Nat \ {0} /\ k \in 1 .. k /\ s[k] \in Nat
  BY <1>2 DEF AreTimes
<1>4. PICK both : both = CombineEquityCurves(all)
  OBVIOUS
<1>5. /\ both = [i \in 1 .. k |-> [at |-> s[i], equity |-> Mean(Worths(all, m, s[i]))]]
      /\ Len(both) = k
  BY <1>1, <1>2, <1>4, CombinedIs
<1>6. Last(both).equity = Mean(Worths(all, m, s[k]))
  BY <1>3, <1>5 DEF Last
<1>7. Worths(all, m, s[k]) = [c \in 1 .. m |-> Last(all[c]).equity]
  <2>1. ASSUME NEW c \in 1 .. m PROVE ValueAt(all[c], s[k]) = Last(all[c]).equity
    <3>1. IsCurve(all[c], len[c], end)
      BY DEF AreCurves
    <3>2. len[c] \in 1 .. len[c] /\ Last(all[c]) = all[c][len[c]]
      BY <3>1 DEF IsCurve, Last
    <3>3. all[c][len[c]].at <= s[k]
      BY <1>2, <3>2 DEF AreTimes
    <3>4. ValueAt(all[c], s[k]) = all[c][len[c]].equity
      BY <1>3, <3>1, <3>3, LastPoint
    <3> QED BY <3>2, <3>4
  <2> QED BY <2>1 DEF Worths
<1> QED BY <1>4, <1>6, <1>7

LEMMA EquitiesOf ==
  ASSUME NEW curve, NEW m, NEW end \in Nat, IsCurve(curve, m, end)
  PROVE  /\ Equities(curve) \in Seq(Positive) /\ Len(Equities(curve)) = m /\ m > 0
         /\ \A i \in 1 .. m : Equities(curve)[i] = curve[i].equity
<1>1. m \in Nat \ {0} /\ DOMAIN curve = 1 .. m /\ \A i \in 1 .. m : curve[i].equity \in Positive
  BY DEF IsCurve
<1>2. Equities(curve) = [i \in 1 .. m |-> curve[i].equity]
  BY <1>1 DEF Equities
<1> QED BY <1>1, <1>2

(* The decline of a symbol between two times is one of its curve.          *)
LEMMA DeclineOfSymbol ==
  ASSUME NEW curve, NEW m, NEW end \in Nat, IsCurve(curve, m, end), NEW t \in Nat, NEW u \in Nat, t <= u
  PROVE  /\ AtMost(MaxDrawdown(Equities(curve)), Minus(Over(ValueAt(curve, u), ValueAt(curve, t)), One))
         /\ MaxDrawdown(Equities(curve)) \in Proper
<1>1. PICK i : At(curve, m, t, i)
  BY PointAt
<1>2. PICK j : At(curve, m, u, j)
  BY PointAt
<1>3. PICK e : e = Equities(curve)
  OBVIOUS
<1>4. e \in Seq(Positive) /\ Len(e) = m /\ m > 0 /\ \A k \in 1 .. m : e[k] = curve[k].equity
  BY <1>3, EquitiesOf
<1>5. m \in Nat /\ i \in 1 .. m /\ j \in 1 .. m /\ i <= j
  BY <1>1, <1>2, LaterPoint DEF At, IsCurve
<1>6. i \in 1 .. j
  BY <1>5
<1>7. AtMost(MaxDrawdown(e), Decline(e, i, j)) /\ MaxDrawdown(e) \in Proper
  BY <1>4, <1>5, <1>6, MaxDrawdownIsWorst
<1>8. Decline(e, i, j) = Minus(Over(ValueAt(curve, u), ValueAt(curve, t)), One)
  BY <1>1, <1>2, <1>4, <1>5 DEF Decline, At
<1> QED BY <1>3, <1>7, <1>8

LEMMA OverPositive ==
  ASSUME NEW a \in Positive, NEW b \in Positive
  PROVE  Over(a, b) \in Positive
<1>1. PICK a1 \in Nat \ {0}, a2 \in Nat \ {0} : a = <<a1, a2>>
  BY PairOf
<1>2. PICK b1 \in Nat \ {0}, b2 \in Nat \ {0} : b = <<b1, b2>>
  BY PairOf
<1>3. a1 * b2 \in Nat \ {0} /\ a2 * b1 \in Nat \ {0}
  OBVIOUS
<1> QED BY <1>1, <1>2, <1>3 DEF Over, Positive

(* The worst decline of the portfolio runs between two timestamps; of the  *)
(* symbols one grew no more in between, and its own drawdown is no less.   *)
LEMMA CombinedDeclines ==
  ASSUME NEW all, NEW m, NEW len, NEW end \in Nat, AreCurves(all, m, len, end)
  PROVE  \E c \in 1 .. m :
           AtMost(MaxDrawdown(Equities(all[c])), MaxDrawdown(Equities(CombineEquityCurves(all))))
<1>1. PICK s : s = Timestamps(all)
  OBVIOUS
<1>2. PICK k : AreTimes(all, m, len, end, s, k)
  BY <1>1, TimestampsInOrder
<1>3. m \in Nat \ {0} /\ k \in Nat \ {0} /\ \A i \in 1 .. k : s[i] \in Nat
  BY <1>2 DEF AreTimes, AreCurves
<1>4. PICK both : both = CombineEquityCurves(all)
  OBVIOUS
<1>5. /\ both = [i \in 1 .. k |-> [at |-> s[i], equity |-> Mean(Worths(all, m, s[i]))]]
      /\ Len(both) = k
  BY <1>1, <1>2, <1>4, CombinedIs
<1>6. \A i \in 1 .. k : Worths(all, m, s[i]) \in [1 .. m -> Positive]
  BY <1>3, WorthsType
<1>7. \A i \in 1 .. k : Mean(Worths(all, m, s[i])) \in Positive
  BY <1>3, <1>6, MeanGrowth
<1>8. PICK e : e = Equities(both)
  OBVIOUS
<1>9. /\ e \in Seq(Positive) /\ Len(e) = k /\ Len(e) > 0
      /\ \A i \in 1 .. k : e[i] = Mean(Worths(all, m, s[i]))
  <2>1. DOMAIN both = 1 .. k /\ \A i \in 1 .. k : both[i].equity = Mean(Worths(all, m, s[i]))
    BY <1>5
  <2>2. e = [i \in 1 .. k |-> both[i].equity]
    BY <1>8, <2>1 DEF Equities
  <2> QED BY <1>3, <1>7, <2>1, <2>2
<1>10. PICK j \in 1 .. k : \E i \in 1 .. j : MaxDrawdown(e) = Decline(e, i, j)
  BY <1>9, MaxDrawdownIsWorst
<1>11. PICK i \in 1 .. j : MaxDrawdown(e) = Decline(e, i, j)
  BY <1>10
<1>12. i \in 1 .. k /\ s[i] \in Nat /\ s[j] \in Nat /\ s[i] <= s[j]
  <2>1. i \in 1 .. k /\ (i = j \/ i < j)
    BY <1>3
  <2>2. i < j => s[i] < s[j]
    BY <1>2, <2>1 DEF AreTimes
  <2> QED BY <1>3, <2>1, <2>2
<1>13. PICK x, y : x = Worths(all, m, s[i]) /\ y = Worths(all, m, s[j])
  OBVIOUS
<1>14. x \in [1 .. m -> Positive] /\ y \in [1 .. m -> Positive]
  BY <1>6, <1>12, <1>13
<1>15. Mean(x) \in Positive /\ Mean(y) \in Positive
  BY <1>3, <1>14, MeanGrowth
<1>16. PICK c \in 1 .. m : AtMost(Over(y[c], x[c]), Over(Mean(y), Mean(x)))
  BY <1>3, <1>14, MeanGrowth
<1>17. x[c] = ValueAt(all[c], s[i]) /\ y[c] = ValueAt(all[c], s[j])
  BY <1>13 DEF Worths
<1>18. PICK a, b : a = Over(y[c], x[c]) /\ b = Over(Mean(y), Mean(x))
  OBVIOUS
<1>19. a \in Positive /\ b \in Positive /\ AtMost(a, b)
  <2>1. x[c] \in Positive /\ y[c] \in Positive
    BY <1>14
  <2> QED BY <1>15, <1>16, <1>18, <2>1, OverPositive
<1>20. AtMost(Minus(a, One), Minus(b, One)) /\ Minus(a, One) \in Proper /\ Minus(b, One) \in Proper
  BY <1>19, WorseDecline
<1>21. MaxDrawdown(e) = Minus(b, One)
  <2>1. e[i] = Mean(x) /\ e[j] = Mean(y)
    BY <1>9, <1>12, <1>13
  <2> QED BY <1>11, <1>18, <2>1 DEF Decline
<1>22. PICK d : d = MaxDrawdown(Equities(all[c]))
  OBVIOUS
<1>23. AtMost(d, Minus(a, One)) /\ d \in Proper
  <2>1. IsCurve(all[c], len[c], end)
    BY DEF AreCurves
  <2>2. /\ AtMost(d, Minus(Over(ValueAt(all[c], s[j]), ValueAt(all[c], s[i])), One)) /\ d \in Proper
    BY <1>12, <1>22, <2>1, DeclineOfSymbol
  <2> QED BY <1>17, <1>18, <2>2
<1>24. AtMost(d, Minus(b, One))
  BY <1>20, <1>23, AtMostIsTransitive
<1> QED BY <1>4, <1>8, <1>21, <1>22, <1>24
===============================================================================
