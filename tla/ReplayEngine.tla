----------------------------- MODULE ReplayEngine -----------------------------
(***************************************************************************)
(* ReplayEngine.run: the vectorised signals of a strategy become trades,   *)
(* one position at a time, and one equity point per bar.  The candle frame *)
(* and the signals aligned to it are read bar by bar; each bar goes through*)
(* the steps of the loop body in order.  compute_metrics is applied to the *)
(* result.                                                                 *)
(***************************************************************************)
EXTENDS Metrics

CONSTANTS Bars,       \* [open, high, low, close, enter, leave, stop, target] records
          MaxBars,    \* longest candle frame
          StopFirst,  \* stop_vs_target_precedence = "stop_first"
          Intraday,   \* category of the strategy
          None        \* no position; a stop or target level that is NaN

ASSUME ReplayAssumption ==
  /\ MaxBars \in Nat \ {0} /\ {StopFirst, Intraday} \subseteq BOOLEAN
  /\ None \notin [entry : Nat, price : Int]
  /\ \A b \in Bars :
       /\ {b.open, b.high, b.low, b.close} \subseteq Int
       /\ {b.stop, b.target} \subseteq Int \cup {None} /\ {b.enter, b.leave} \subseteq BOOLEAN
       /\ 0 < b.low /\ b.low <= b.open /\ b.open <= b.high
       /\ b.low <= b.close /\ b.close <= b.high

\* A profit target is a price.
ASSUME TargetAssumption == \A b \in Bars : b.target # None => b.target > 0

VARIABLES bars,    \* the rows of the frame read so far, with their signals
          pos,     \* entry_idx and entry_price of the open position
          trades,  \* completed trades
          cash,    \* cash_equity
          equity,  \* equity_curve
          step     \* the part of the loop body that comes next

vars == <<bars, pos, trades, cash, equity, step>>

n == Len(bars)

Init ==
  /\ bars = <<>> /\ pos = None /\ trades = <<>>
  /\ cash = One /\ equity = <<>> /\ step = "open"

-----------------------------------------------------------------------------
(* Append the trade, compound it into cash_equity and clear the position.  *)
Sell(p, i, price, why) ==
  /\ trades' = Append(trades, [entry |-> p.entry, exit |-> i, bought |-> p.price,
                               sold |-> price, reason |-> why])
  /\ cash' = Times(cash, <<price, p.price>>)
  /\ pos' = None

Keep(p) == pos' = p /\ UNCHANGED <<trades, cash>>

(* Signals of the previous bar execute at the open of this one: first the  *)
(* entry, then the exit, so one bar can do both.                           *)
\* MUTANT: the exit signal is looked at first and the entry after it.
OpenBarMutExitFirst(b) ==
  /\ step = "open" /\ n < MaxBars
  /\ bars' = Append(bars, b)
  /\ LET exits == n > 0 /\ pos # None /\ bars[n].leave
         fresh == IF n > 0 /\ bars[n].enter THEN [entry |-> n + 1, price |-> b.open] ELSE None
     IN  /\ pos' = IF pos = None \/ exits THEN fresh ELSE pos
         /\ trades' = IF exits THEN Append(trades, [entry |-> pos.entry, exit |-> n + 1,
                                        bought |-> pos.price, sold |-> b.open,
                                        reason |-> "signal_exit"]) ELSE trades
         /\ cash' = IF exits THEN Times(cash, <<b.open, pos.price>>) ELSE cash
  /\ step' = "intrabar"
  /\ UNCHANGED equity

\* MUTANT: the signal of the bar itself executes at its own open.
OpenBarMutSameBar(b) ==
  /\ step = "open" /\ n < MaxBars
  /\ bars' = Append(bars, b)
  /\ LET p == IF pos = None /\ b.enter THEN [entry |-> n + 1, price |-> b.open] ELSE pos
     IN  IF p # None /\ n > 0 /\ bars[n].leave
         THEN Sell(p, n + 1, b.open, "signal_exit") ELSE Keep(p)
  /\ step' = "intrabar"
  /\ UNCHANGED equity

OpenBar(b) ==
  /\ step = "open" /\ n < MaxBars
  /\ bars' = Append(bars, b)
  /\ LET p == IF n > 0 /\ pos = None /\ bars[n].enter
              THEN [entry |-> n + 1, price |-> b.open] ELSE pos
     IN  IF n > 0 /\ p # None /\ bars[n].leave
         THEN Sell(p, n + 1, b.open, "signal_exit") ELSE Keep(p)
  /\ step' = "intrabar"
  /\ UNCHANGED equity

StopHit(b)   == b.stop # None /\ b.low <= b.stop
TargetHit(b) == b.target # None /\ b.high >= b.target
StopWins(b)  == StopHit(b) /\ (StopFirst \/ ~TargetHit(b))

(* The stop and target levels of the bar are held against its range. *)
\* MUTANT: the target is looked at first.
CheckLevelsMutTargetFirst ==
  /\ step = "intrabar"
  /\ IF pos = None \/ ~(StopHit(bars[n]) \/ TargetHit(bars[n])) THEN Keep(pos)
     ELSE IF TargetHit(bars[n]) THEN Sell(pos, n, bars[n].target, "target_hit")
     ELSE Sell(pos, n, bars[n].stop, "stop_loss")
  /\ step' = "mark"
  /\ UNCHANGED <<bars, equity>>

CheckLevels ==
  /\ step = "intrabar"
  /\ IF pos = None \/ ~(StopHit(bars[n]) \/ TargetHit(bars[n])) THEN Keep(pos)
     ELSE IF StopWins(bars[n]) THEN Sell(pos, n, bars[n].stop, "stop_loss")
     ELSE Sell(pos, n, bars[n].target, "target_hit")
  /\ step' = "mark"
  /\ UNCHANGED <<bars, equity>>

\* MUTANT: an open position is marked at its entry price.
MarkToMarketMutCash ==
  /\ step = "mark"
  /\ equity' = Append(equity, cash)
  /\ step' = "open"
  /\ UNCHANGED <<bars, pos, trades, cash>>

MarkToMarket ==
  /\ step = "mark"
  /\ equity' = Append(equity, IF pos = None THEN cash
                              ELSE Times(cash, <<bars[n].close, pos.price>>))
  /\ step' = "open"
  /\ UNCHANGED <<bars, pos, trades, cash>>

(* After the last bar an open position is closed at its close; an empty    *)
(* frame has neither trades nor equity.                                    *)
ForceClose ==
  /\ step = "open"
  /\ IF pos = None THEN Keep(pos)
     ELSE Sell(pos, n, bars[n].close, IF Intraday THEN "intraday_squareoff" ELSE "time_exit")
  /\ step' = "done"
  /\ UNCHANGED <<bars, equity>>

Next == (\E b \in Bars : OpenBar(b)) \/ CheckLevels \/ MarkToMarket \/ ForceClose

Spec == Init /\ [][Next]_vars

-----------------------------------------------------------------------------
Reasons == {"signal_exit", "stop_loss", "target_hit", "time_exit", "intraday_squareoff"}

(* Positions and trades lie inside the frame; one equity point per bar. *)
TypeOK ==
  /\ bars \in Seq(Bars) /\ n <= MaxBars
  /\ step \in {"open", "intrabar", "mark", "done"}
  /\ Len(equity) = IF step \in {"intrabar", "mark"} THEN n - 1 ELSE n
  /\ pos # None => pos.entry \in 2 .. n /\ pos.price = bars[pos.entry].open
  /\ \A j \in 1 .. Len(trades) :
       /\ 1 < trades[j].entry /\ trades[j].entry <= trades[j].exit /\ trades[j].exit <= n
       /\ trades[j].reason \in Reasons

\* Some rule of the engine closes a position at bar x.
ExitDue(x) == bars[x - 1].leave \/ StopHit(bars[x]) \/ TargetHit(bars[x])

(* Independent statement of the rules for the whole ledger: a trade starts *)
(* at the open after an entry signal and ends at the first bar where any   *)
(* rule closes it: at the open after an exit signal, else at the stop when *)
(* it is hit (even if the target is hit too), else at the target; only the *)
(* last trade may be closed by the end of the frame, when no rule fired.   *)
TradesFollowRules ==
  \A j \in 1 .. Len(trades) :
    LET t == trades[j]
        b == bars[t.exit]
        forced == t.reason \in {"time_exit", "intraday_squareoff"}
    IN  /\ bars[t.entry - 1].enter /\ t.bought = bars[t.entry].open
        /\ \A x \in t.entry .. t.exit - 1 : ~ExitDue(x)
        /\ IF forced
           THEN /\ j = Len(trades) /\ step = "done" /\ t.exit = n /\ t.sold = b.close
                /\ ~ExitDue(n) /\ (t.reason = "intraday_squareoff") = Intraday
           ELSE IF bars[t.exit - 1].leave
           THEN t.reason = "signal_exit" /\ t.sold = b.open
           ELSE IF /\ b.stop # None /\ b.low <= b.stop
                   /\ StopFirst \/ b.target = None \/ b.high < b.target
           THEN t.reason = "stop_loss" /\ t.sold = b.stop
           ELSE t.reason = "target_hit" /\ t.sold = b.target /\ b.high >= b.target

(* One position at a time and no entry lost: trades do not overlap, not    *)
(* even at the bar of an exit, and every entry signal falls inside a       *)
(* position or opens one at the next bar.                                  *)
OnePositionAtATime ==
  /\ \A j, k \in 1 .. Len(trades) : j < k => trades[j].exit < trades[k].entry
  /\ \A j \in 1 .. Len(trades) : pos # None => trades[j].exit < pos.entry
  /\ \A i \in 2 .. n : bars[i - 1].enter =>
       \/ \E j \in 1 .. Len(trades) : trades[j].entry <= i /\ i <= trades[j].exit
       \/ pos # None /\ pos.entry <= i

(* The equity curve tells the same story as the ledger at every bar: each  *)
(* trade counts with its result once it is closed, at the close of the bar *)
(* while it is held, and not at all before; the capital is the last point. *)
EquityMatchesLedger ==
  LET worth(t, i) == IF t.exit <= i THEN <<t.sold, t.bought>>
                     ELSE IF t.entry <= i THEN <<bars[i].close, t.bought>> ELSE One
      ledger(i)   == [k \in 1 .. Len(trades) |-> worth(trades[k], i)]
  IN  step = "done" =>
        /\ \A i \in 1 .. n : Same(equity[i], FoldLeft(Times, One, ledger(i)))
        /\ n > 0 => Same(cash, equity[n])

(* max_drawdown_pct is the worst decline between any two points in time    *)
(* order, and the curve starts at 1, so it covers the initial capital.     *)
DrawdownIsWorstDecline ==
  step = "done" /\ n > 0 =>
    LET dd == MaxDrawdown(equity)
        decline(i, j) == Minus(Over(equity[j], equity[i]), One)
    IN  /\ Same(equity[1], One)
        /\ \A j \in 1 .. n : \A i \in 1 .. j : AtMost(dd, decline(i, j))
        /\ \E j \in 1 .. n : \E i \in 1 .. j : Same(dd, decline(i, j))

(* expectancy_pct weighs the average loss with every trade that is not a   *)
(* win, break-even trades included: it never exceeds the mean return per   *)
(* trade, and equals it exactly when no break-even trade meets a loss.     *)
ExpectancyNeverFlatters ==
  step = "done" =>
    LET mean == Mean([j \in 1 .. Len(trades) |-> PnlPct(trades[j])])
        some(P(_)) == \E j \in 1 .. Len(trades) : P(trades[j].sold - trades[j].bought)
    IN  /\ AtMost(Expectancy(trades), mean)
        /\ ~Same(Expectancy(trades), mean)
             <=> some(LAMBDA d : d = 0) /\ some(LAMBDA d : d < 0)
=============================================================================
