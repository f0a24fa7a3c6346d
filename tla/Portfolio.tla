------------------------------- MODULE Portfolio -------------------------------
(***************************************************************************)
(* A backtest of a watchlist: the replay of each symbol leaves its equity  *)
(* curve, one point per bar of that symbol, the first of them 1; the runner*)
(* combines the curves into the one of the portfolio.                      *)
(***************************************************************************)
EXTENDS Metrics

CONSTANTS Equity,    \* values a point may have
          Symbols,   \* symbols of the watchlist
          LastBar    \* bars are at 1 .. LastBar

ASSUME PortfolioAssumption ==
  /\ {Symbols, LastBar} \subseteq Nat
  /\ Equity \subseteq (Nat \ {0}) \X (Nat \ {0})

VARIABLE curves  \* per_symbol_equity

PortfolioInit == curves = <<>>

\* The next symbol of the watchlist, whose candles start at t; a symbol
\* without candles is skipped by the runner.
NextSymbol(t) ==
  /\ Len(curves) < Symbols
  /\ curves' = Append(curves, <<[at |-> t, equity |-> One]>>)

NextBar(t, e) ==
  /\ curves # <<>> /\ Last(Last(curves)).at < t
  /\ curves' = [curves EXCEPT ![Len(curves)] = Append(@, [at |-> t, equity |-> e])]

PortfolioNext ==
  \E t \in 1 .. LastBar : NextSymbol(t) \/ \E e \in Equity : NextBar(t, e)

-----------------------------------------------------------------------------
(* The portfolio ends at the mean of what its symbols end at, whatever bars*)
(* each of them has: its return is the mean of their returns.              *)
PortfolioReturnIsMean ==
  curves # <<>> =>
    Same(Last(CombineEquityCurves(curves)).equity,
         Mean([c \in DOMAIN curves |-> Last(curves[c]).equity]))

(* Spreading never makes the worst decline worse: max_drawdown_pct of the  *)
(* portfolio is no deeper than that of its worst symbol, and a symbol that *)
(* starts late or ends early causes no decline of its own.                 *)
PortfolioDrawdownBounded ==
  curves # <<>> =>
    \E c \in DOMAIN curves :
      AtMost(MaxDrawdown(Equities(curves[c])), MaxDrawdown(Equities(CombineEquityCurves(curves))))
=============================================================================
