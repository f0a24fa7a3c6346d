-------------------------------- MODULE Metrics --------------------------------
(***************************************************************************)
(* metrics.py: what is computed from the trades and the equity curve of a  *)
(* backtest, and the equal-weight portfolio curve of several symbols.      *)
(* A trade has the prices bought and sold; a curve is a sequence of        *)
(* fractions, or, with its timestamps, of [at, equity] records.            *)
(***************************************************************************)
EXTENDS Fractions, Ordering, Sequences, SequencesExt

PnlPct(t) == Minus(<<t.sold, t.bought>>, One)

\* The mean of the elements at the positions in S, 0 when there are none.
MeanAt(s, S) ==
  LET part == [i \in 1 .. Len(s) |-> IF i \in S THEN s[i] ELSE Zero]
  IN  IF S = {} THEN Zero ELSE Over(FoldLeft(Plus, Zero, part), <<Cardinality(S), 1>>)

Mean(s) == MeanAt(s, 1 .. Len(s))

\* Series.cummax
\* MUTANT: the peak looks at the last two points only.
PeakMutShort(curve, i) == IF i = 1 THEN curve[1] ELSE Larger(curve[i - 1], curve[i])

Peak(curve, i) == FoldLeft(Larger, curve[1], SubSeq(curve, 1, i))

Drawdown(curve) == [i \in 1 .. Len(curve) |-> Minus(Over(curve[i], Peak(curve, i)), One)]

MaxDrawdown(curve) ==
  LET dd == Drawdown(curve)
  IN  IF curve = <<>> THEN Zero ELSE FoldLeft(Smaller, dd[1], dd)

Returns(ts) == [i \in 1 .. Len(ts) |-> PnlPct(ts[i])]
Wins(ts)    == {i \in 1 .. Len(ts) : PnlPct(ts[i])[1] > 0}
Losses(ts)  == {i \in 1 .. Len(ts) : PnlPct(ts[i])[1] < 0}
WinRate(ts) == IF ts = <<>> THEN Zero ELSE <<Cardinality(Wins(ts)), Len(ts)>>

\* MUTANT: trades that are not wins are averaged as losses.
ExpectancyMutFlatLoss(ts) ==
  Plus(Times(WinRate(ts), MeanAt(Returns(ts), Wins(ts))),
       Times(Minus(One, WinRate(ts)), MeanAt(Returns(ts), (1 .. Len(ts)) \ Wins(ts))))

Expectancy(ts) ==
  Plus(Times(WinRate(ts), MeanAt(Returns(ts), Wins(ts))),
       Times(Minus(One, WinRate(ts)), MeanAt(Returns(ts), Losses(ts))))

-----------------------------------------------------------------------------
(* Portfolio curve: all timestamps of all curves in order, each curve      *)
(* carried forward from its last point and 1 before its first, averaged    *)
(* over the curves that have a point at all.                               *)
Timestamps(curves) ==
  InOrder(UNION {{curves[c][i].at : i \in DOMAIN curves[c]} : c \in DOMAIN curves})

ValueAt(curve, t) ==
  LET known == {i \in DOMAIN curve : curve[i].at <= t}
  IN  IF known = {} THEN One ELSE curve[CHOOSE i \in known : \A j \in known : j <= i].equity

\* MUTANT: a gap is filled with the initial capital instead of the last value.
CombineEquityCurvesMutNoFill(curves) ==
  LET times == Timestamps(curves)
      at(c, t) == IF \E i \in DOMAIN c : c[i].at = t THEN ValueAt(c, t) ELSE One
  IN  [i \in DOMAIN times |->
        [at |-> times[i], equity |-> Mean([c \in DOMAIN curves |-> at(curves[c], times[i])])]]

\* MUTANT: the mean skips the symbols that have no point yet.
CombineEquityCurvesMutSkip(curves) ==
  LET times == Timestamps(curves)
      begun(t) == {c \in DOMAIN curves : curves[c] # <<>> /\ curves[c][1].at <= t}
  IN  [i \in DOMAIN times |->
        [at |-> times[i],
         equity |-> MeanAt([c \in DOMAIN curves |-> ValueAt(curves[c], times[i])], begun(times[i]))]]

CombineEquityCurves(curves) ==
  LET times == Timestamps(curves)
      some  == {c \in DOMAIN curves : curves[c] # <<>>}
  IN  [i \in DOMAIN times |->
        [at |-> times[i],
         equity |-> MeanAt([c \in DOMAIN curves |-> ValueAt(curves[c], times[i])], some)]]

Equities(curve) == [i \in DOMAIN curve |-> curve[i].equity]
=============================================================================
