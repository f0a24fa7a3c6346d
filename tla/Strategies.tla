------------------------------ MODULE Strategies ------------------------------
(***************************************************************************)
(* The three built-in strategies: which indicators each computes, under    *)
(* which cache keys, and the signals it makes of them.  A strategy with its*)
(* validated parameters is a record s with its slug; the parameters have   *)
(* the names of the code, but rsi_period is rsi_len in the SuperTrend and  *)
(* vwap_buffer is vwap_buffer_pct / 100; thresholds, multipliers and the   *)
(* buffer are fractions.                                                   *)
(* Signals for short positions are left out: the replay is long only.      *)
(***************************************************************************)
EXTENDS Indicators

(* The bands around hl2 follow the price; while the price stays beyond its *)
(* band, that band only tightens.  The direction turns when the price      *)
(* crosses the band of the bar before (without one, its own).              *)
SuperTrendRow(frame, atr, multiplier, wicks, i, before) ==
  LET top(j) == Whole(IF wicks THEN frame[j].high ELSE frame[j].close)
      low(j) == Whole(IF wicks THEN frame[j].low ELSE frame[j].close)
      hl2    == <<frame[i].high + frame[i].low, 2>>
      under  == Subtract(hl2, Scale(multiplier, atr[i]))
      over   == Add(hl2, Scale(multiplier, atr[i]))
      long   == IF before.long = NaN THEN under ELSE before.long
      short  == IF before.short = NaN THEN over ELSE before.short
  IN  IF i = 1 THEN [long |-> under, short |-> over, dir |-> 1]
      ELSE [long  |-> IF Above(low(i - 1), long) THEN Higher(under, long) ELSE under,
            short |-> IF Above(short, top(i - 1)) THEN Lower(over, short) ELSE over,
            dir   |-> IF before.dir = -1 /\ Above(top(i), short) THEN 1
                      ELSE IF before.dir = 1 /\ Above(long, low(i)) THEN -1
                      ELSE before.dir]

SuperTrend(frame, atr, multiplier, wicks) ==
  LET row[i \in DOMAIN frame] ==
        SuperTrendRow(frame, atr, multiplier, wicks, i, IF i = 1 THEN NaN ELSE row[i - 1])
  IN  row

-----------------------------------------------------------------------------
(* compute_indicators: every indicator is asked of the indicator context   *)
(* under a key, with a function that computes it from the parameters.      *)
Names(s) ==
  CASE s.slug = "supertrend_v6_pro" -> {"atr", "supertrend", "dmi", "rsi"}
    [] s.slug = "intraday_vwap_pullback" -> {"vwap", "rsi"}
    [] s.slug = "swing_trend_pullback" ->
         {"ema_fast", "ema_slow", "rsi"} \cup (IF s.use_atr_stop THEN {"atr"} ELSE {})

\* MUTANT: the key of the SuperTrend lacks the multiplier.
IndicatorKeyMutNoMultiplier(name, s) ==
  CASE name = "atr" -> <<"atr", s.atr_period>>
    [] name = "supertrend" -> <<"supertrend_v6_pro", "hl2", s.atr_period, s.use_wicks>>
    [] name = "dmi" -> <<"dmi", s.dmi_len, s.adx_smoothing>>
    [] name = "rsi" -> <<"rsi", "close", s.rsi_period>>
    [] name = "vwap" -> <<"vwap">>
    [] name = "ema_fast" -> <<"ema", "close", s.ema_fast>>
    [] name = "ema_slow" -> <<"ema", "close", s.ema_slow>>

IndicatorKey(name, s) ==
  CASE name = "atr" -> <<"atr", s.atr_period>>
    [] name = "supertrend" ->
         <<"supertrend_v6_pro", "hl2", s.atr_period, s.atr_multiplier, s.use_wicks>>
    [] name = "dmi" -> <<"dmi", s.dmi_len, s.adx_smoothing>>
    [] name = "rsi" -> <<"rsi", "close", s.rsi_period>>
    [] name = "vwap" -> <<"vwap">>
    [] name = "ema_fast" -> <<"ema", "close", s.ema_fast>>
    [] name = "ema_slow" -> <<"ema", "close", s.ema_slow>>

Compute(name, frame, s, atr) ==
  CASE name = "atr" -> Atr(frame, s.atr_period)
    [] name = "supertrend" -> SuperTrend(frame, atr, s.atr_multiplier, s.use_wicks)
    [] name = "dmi" -> Adx(frame, s.dmi_len, s.adx_smoothing)
    [] name = "rsi" -> Rsi(frame, s.rsi_period)
    [] name = "vwap" -> Vwap(frame)
    [] name = "ema_fast" -> Ema(frame, s.ema_fast)
    [] name = "ema_slow" -> Ema(frame, s.ema_slow)

(* known holds what the context has for this instrument; a cached series is*)
(* taken as it is.  The SuperTrend asks for the ATR in turn.               *)
ComputeIndicators(frame, s, known) ==
  LET get(name, atr) == LET key == IndicatorKey(name, s)
                        IN  IF key \in DOMAIN known THEN known[key]
                            ELSE Compute(name, frame, s, atr)
      range == IF "atr" \in Names(s) THEN get("atr", NaN) ELSE NaN
  IN  [name \in Names(s) |-> get(name, range)]

Raises(frame, s) ==
  \/ "dmi" \in Names(s) /\ DmiRaises(frame, s.dmi_len)
  \/ "vwap" \in Names(s) /\ NaN \in {Vwap(frame)[i] : i \in DOMAIN frame}

-----------------------------------------------------------------------------
(* generate_signals_from_indicators.  A comparison with NaN is false.      *)
CrossAbove(a, b, i) == i > 1 /\ Above(a[i], b[i]) /\ AtLeast(b[i - 1], a[i - 1])

CrossBelow(a, b, i) == i > 1 /\ Above(b[i], a[i]) /\ AtLeast(a[i - 1], b[i - 1])

Signal(enter, leave, stop, trend) ==
  [enter |-> enter, leave |-> leave, stop |-> stop, target |-> NaN, trend |-> trend]

\* MUTANT: the filters hold back the exits as well.
SuperTrendSignalsMutGated(s, ind) ==
  LET dir(i) == ind["supertrend"][i].dir
      turns(i, to) == i > 1 /\ dir(i) = to /\ dir(i - 1) = -to
      adxOk(i) == s.use_adx_filter => AtLeast(ind["dmi"][i], s.adx_min)
      rsiOk(i) == s.use_rsi_filter => AtLeast(ind["rsi"][i], s.rsi_min_long)
  IN  [i \in DOMAIN ind["supertrend"] |->
         Signal(turns(i, 1) /\ s.trade_mode \in {"Both", "Long only"} /\ adxOk(i) /\ rsiOk(i),
                turns(i, -1) /\ adxOk(i) /\ rsiOk(i), NaN, ind["supertrend"][i])]

\* The exit ignores the filters and the trade mode.
SuperTrendSignals(s, ind) ==
  LET dir(i) == ind["supertrend"][i].dir
      turns(i, to) == i > 1 /\ dir(i) = to /\ dir(i - 1) = -to
      adxOk(i) == s.use_adx_filter => AtLeast(ind["dmi"][i], s.adx_min)
      rsiOk(i) == s.use_rsi_filter => AtLeast(ind["rsi"][i], s.rsi_min_long)
  IN  [i \in DOMAIN ind["supertrend"] |->
         Signal(turns(i, 1) /\ s.trade_mode \in {"Both", "Long only"} /\ adxOk(i) /\ rsiOk(i),
                turns(i, -1), NaN, ind["supertrend"][i])]

VwapSignals(frame, s, ind) ==
  LET close == Column(frame, LAMBDA c : c.close)
      line  == ind["vwap"]
      entry == [i \in DOMAIN frame |-> Scale(Plus(One, s.vwap_buffer), line[i])]
      rsi   == ind["rsi"]
  IN  [i \in DOMAIN frame |->
         Signal(CrossAbove(close, entry, i) /\ Above(s.rsi_entry_max, rsi[i]),
                CrossBelow(close, line, i) \/ Above(rsi[i], s.rsi_exit_min), NaN, line[i])]

SwingSignals(frame, s, ind) ==
  LET close == Column(frame, LAMBDA c : c.close)
      line  == ind["ema_fast"]
      rsi   == ind["rsi"]
      stop(i) == IF s.use_atr_stop THEN Subtract(close[i], Scale(s.atr_mult, ind["atr"][i])) ELSE NaN
  IN  [i \in DOMAIN frame |->
         Signal(Above(close[i], ind["ema_slow"][i]) /\ CrossAbove(close, line, i)
                  /\ Above(s.rsi_entry_max, rsi[i]),
                CrossBelow(close, line, i) \/ Above(rsi[i], s.rsi_exit_min), stop(i), line[i])]

\* StrategyEvaluator.evaluate; trend is the indicator a trade rests on.
Signals(frame, s, ind) ==
  CASE s.slug = "supertrend_v6_pro" -> SuperTrendSignals(s, ind)
    [] s.slug = "intraday_vwap_pullback" -> VwapSignals(frame, s, ind)
    [] s.slug = "swing_trend_pullback" -> SwingSignals(frame, s, ind)
=============================================================================
