----------------------------- MODULE MCAlgorithms -----------------------------
(***************************************************************************)
(* The pure parts of the system on small inputs: a behaviour either fills  *)
(* and runs a parameter grid, or reads candles for a timeframe, or builds  *)
(* the equity curves of a watchlist, or evaluates strategies and replays   *)
(* their signals.  Inputs grow one element at a time.                      *)
(***************************************************************************)
EXTENDS ParameterGrid, CandleAggregation, Portfolio, StrategyReplay

vars == <<gridVars, candleVars, curves, strategyVars>>

Init == GridInit /\ CandleInit /\ PortfolioInit /\ StrategyInit

\* What the behaviour is about.
Grid      == selection # <<>>
Candles   == asked # Unsupported
Curves    == curves # <<>>
Strategy  == settings # NaN \/ result # NaN

Next ==
  \/ ~(Candles \/ Curves \/ Strategy) /\ GridNext /\ UNCHANGED <<candleVars, curves, strategyVars>>
  \/ ~(Grid \/ Curves \/ Strategy) /\ CandleNext /\ UNCHANGED <<gridVars, curves, strategyVars>>
  \/ ~(Grid \/ Candles \/ Strategy) /\ PortfolioNext
       /\ UNCHANGED <<gridVars, candleVars, strategyVars>>
  \/ ~(Grid \/ Candles \/ Curves) /\ StrategyNext /\ UNCHANGED <<gridVars, candleVars, curves>>

Spec == Init /\ [][Next]_vars

-----------------------------------------------------------------------------
\* Halves: an int stepping by 2 from 1, a float, an enum, a fixed parameter.
SmallSpecs ==
  LET p(t, lo, hi, s, tune, set, d) == [type |-> t, min |-> lo, max |-> hi, step |-> s,
                                        tunable |-> tune, choices |-> set, default |-> d]
  IN  << p("int", 2, 10, 4, TRUE, {}, 2), p("float", 0, 8, 1, TRUE, {}, 0),
         p("enum", None, None, None, TRUE, {2, 4}, 2), p("bool", None, None, None, TRUE, {}, 0),
         p("int", None, None, 4, TRUE, {}, 4), p("int", 2, 4, 2, FALSE, {}, 2) >>

SmallConfigs ==
  {[mode |-> "range", min |-> r[1], max |-> r[2], step |-> r[3]] :
     r \in {<<2, 10, 4>>, <<2, 12, 4>>, <<3, 7, 2>>, <<4, 10, 2>>, <<0, 4, 1>>, <<0, 8, 1>>,
            <<0, 4, 0>>, <<4, 2, 1>>, <<Bad, 4, 2>>, <<-3, -1, 2>>}}
  \cup {[mode |-> "values", values |-> v] : v \in {<<>>, <<2, 4>>, <<3, 0>>, <<12>>, <<4, Bad>>}}
  \cup {[mode |-> "unset"]}

SmallSpellings ==
  {[count |-> p[1], unit |-> p[2]] :
     p \in {<<1, "M">>, <<1, "mo">>, <<2, "mo">>, <<45, "M">>, <<1, "H">>, <<2, "h">>, <<4, "H">>,
            <<1, "d">>, <<1, "w">>, <<7, "m">>}}

\* Around the open of two days, then daily candles over the ends of a week
\* (day 4) and of a month (day 5).
SmallCandles ==
  {[at |-> t, open |-> p[1], high |-> p[2], low |-> p[3], close |-> p[4], volume |-> p[5]] :
     t \in {495, 555, 570, 615, 675, 795, 1995, 2055} \cup {d * Day : d \in {3, 4, 5, 7, 11}},
     p \in {<<2, 3, 1, 2, 1>>, <<1, 2, 1, 1, 2>>}}

\* Prices in ticks of 1/16, so that the halves of the averages stay whole.
SmallShapes ==
  {[day |-> k[1], open |-> 16 * k[2], high |-> 16 * k[3], low |-> 16 * k[4], close |-> 16 * k[5],
    volume |-> k[6]] :
     k \in {<<1, 4, 5, 3, 4, 1>>, <<1, 4, 4, 1, 2, 1>>, <<1, 3, 6, 3, 6, 1>>,
            <<1, 5, 5, 2, 2, 2>>, <<2, 4, 7, 4, 5, 0>>, <<2, 6, 7, 4, 4, 1>>}}

SmallFrames ==
  LET row(o, h, l, c) == [day |-> 1, open |-> o, high |-> h, low |-> l, close |-> c, volume |-> 1]
  IN  << <<row(4, 5, 3, 4), row(4, 6, 3, 6), row(6, 6, 2, 2), row(2, 7, 2, 7)>>,
         <<row(6, 6, 5, 5), row(5, 6, 2, 2), row(2, 5, 2, 5), row(4, 5, 1, 3)>> >>

SmallSettings ==
  LET trend(period, multiplier, wicks, mode, adx, rsi) ==
        [slug |-> "supertrend_v6_pro", atr_period |-> period, atr_multiplier |-> multiplier,
         use_wicks |-> wicks, trade_mode |-> mode, use_adx_filter |-> adx, dmi_len |-> 2,
         adx_smoothing |-> 1, adx_min |-> <<50, 1>>, use_rsi_filter |-> rsi, rsi_period |-> 2,
         rsi_min_long |-> <<55, 1>>]
      vwap(buffer) ==
        [slug |-> "intraday_vwap_pullback", rsi_period |-> 2, rsi_entry_max |-> <<90, 1>>,
         rsi_exit_min |-> <<95, 1>>, vwap_buffer |-> buffer, use_wicks |-> FALSE]
      swing(atr) ==
        [slug |-> "swing_trend_pullback", ema_fast |-> 2, ema_slow |-> 3, rsi_period |-> 2,
         rsi_entry_max |-> <<90, 1>>, rsi_exit_min |-> <<95, 1>>, use_atr_stop |-> atr,
         atr_period |-> 2, atr_mult |-> <<1, 1>>, use_wicks |-> FALSE]
  IN  {trend(1, <<1, 2>>, TRUE, "Both", FALSE, FALSE), trend(1, <<1, 1>>, TRUE, "Both", FALSE, TRUE),
       trend(2, <<1, 2>>, TRUE, "Long only", TRUE, FALSE),
       trend(1, <<1, 2>>, FALSE, "Short only", FALSE, FALSE),
       vwap(Zero), vwap(<<1, 100>>), swing(FALSE), swing(TRUE)}

SmallPoints == {<<1, 2>>, <<1, 1>>, <<3, 2>>}
=============================================================================
