---------------------------- MODULE StrategyReplay ----------------------------
(***************************************************************************)
(* Strategies at work.  A backtest evaluates its strategy on the whole     *)
(* candle frame and replays the signals; here the frame grows by a candle  *)
(* and the replay follows, so that every state is the replay of a frame up *)
(* to its last candle (SignalsIgnoreTheFuture is why this is the same).    *)
(* An optimization evaluates one strategy with many parameters on the same *)
(* frames, through one indicator cache.                                    *)
(***************************************************************************)
EXTENDS Strategies, Metrics

CONSTANTS Settings,  \* strategies with validated parameters
          Shapes,    \* candles, with the day of each
          MaxFrame,  \* longest frame
          Frames     \* the frame of each instrument of an optimization

ASSUME StrategyAssumption ==
  /\ MaxFrame \in Nat
  /\ \A s \in Settings : s.slug \in {"supertrend_v6_pro", "intraday_vwap_pullback", "swing_trend_pullback"}
  /\ Shapes \subseteq [day : Int, open : Int, high : Int, low : Int, close : Int, volume : Nat]
  /\ \A c \in Shapes : 0 < c.low /\ c.low <= c.open /\ c.open <= c.high
                       /\ c.low <= c.close /\ c.close <= c.high
  /\ \A s \in Settings, i \in DOMAIN Frames : ~Raises(Frames[i], s)

\* What the parameter schema of each strategy lets through.
ASSUME SchemaAssumption ==
  \A s \in Settings :
    /\ s.slug = "supertrend_v6_pro" =>
         s.atr_period \in Nat \ {0} /\ s.atr_multiplier \in Nat \X (Nat \ {0})
    /\ s.slug = "intraday_vwap_pullback" => s.vwap_buffer \in Nat \X (Nat \ {0})
    /\ s.slug = "swing_trend_pullback" => s.ema_fast \in Nat \ {0}

VARIABLES settings,                               \* of the backtest, NaN before it
          bars, pos, trades, cash, equity, step,  \* its replay
          cache,                                  \* IndicatorCache per instrument
          result                                  \* of the last cached evaluation

\* The category of the strategy only names the reason of a forced close.
Engine == INSTANCE ReplayEngine
            WITH Bars <- {}, MaxBars <- MaxFrame, StopFirst <- TRUE, Intraday <- TRUE,
                 None <- NaN

replayVars   == <<bars, pos, trades, cash, equity, step>>
strategyVars == <<settings, replayVars, cache, result>>

StrategyInit ==
  /\ settings = NaN /\ Engine!Init
  /\ cache = [i \in DOMAIN Frames |-> <<>>] /\ result = NaN

-----------------------------------------------------------------------------
StartReplay(s) ==
  /\ settings = NaN /\ result = NaN
  /\ settings' = s
  /\ UNCHANGED <<replayVars, cache, result>>

\* The engine compares prices in whole ticks.
Ticks(level) == IF level = NaN THEN NaN ELSE level[1] \div level[2]

Row(c, sig) ==
  [day |-> c.day, open |-> c.open, high |-> c.high, low |-> c.low, close |-> c.close,
   volume |-> c.volume, enter |-> sig.enter, leave |-> sig.leave, stop |-> Ticks(sig.stop),
   target |-> sig.target, trend |-> sig.trend]

WithSignals(frame, s) ==
  LET sig == Signals(frame, s, ComputeIndicators(frame, s, <<>>))
  IN  [i \in DOMAIN frame |-> Row(frame[i], sig[i])]

Follows(c) == bars # <<>> => Last(bars).day <= c.day

EvaluateBar(c) ==
  /\ settings # NaN /\ Follows(c)
  /\ LET frame == Append(bars, c)
     IN  /\ ~Raises(frame, settings)
         /\ Engine!OpenBar(WithSignals(frame, settings)[Len(frame)])
  /\ UNCHANGED <<settings, cache, result>>

\* The exception ends the run before anything is replayed.
EvaluationRaises(c) ==
  /\ settings # NaN /\ step = "open" /\ Len(bars) < MaxFrame /\ Follows(c)
  /\ Raises(Append(bars, c), settings)
  /\ bars' = <<>> /\ pos' = NaN /\ trades' = <<>> /\ cash' = One /\ equity' = <<>>
  /\ step' = "failed"
  /\ UNCHANGED <<settings, cache, result>>

ReplayStep ==
  /\ settings # NaN
  /\ Engine!CheckLevels \/ Engine!MarkToMarket \/ Engine!ForceClose
  /\ UNCHANGED <<settings, cache, result>>

(* One combination on one instrument, with the indicators that are cached. *)
Evaluate(s, i) ==
  /\ settings = NaN /\ (result # NaN => result.settings.slug = s.slug)
  /\ LET known == cache[i]
         ind   == ComputeIndicators(Frames[i], s, known)
         asked(key) == {name \in Names(s) : IndicatorKey(name, s) = key}
         keys  == {IndicatorKey(name, s) : name \in Names(s)}
     IN  /\ cache' = [cache EXCEPT ![i] = [key \in DOMAIN known \cup keys |->
                        IF key \in DOMAIN known THEN known[key]
                        ELSE ind[CHOOSE name \in asked(key) : TRUE]]]
         /\ result' = [settings |-> s, instrument |-> i, signals |-> Signals(Frames[i], s, ind)]
  /\ UNCHANGED <<settings, replayVars>>

StrategyNext ==
  \/ \E s \in Settings : StartReplay(s) \/ \E i \in DOMAIN Frames : Evaluate(s, i)
  \/ \E c \in Shapes : EvaluateBar(c) \/ EvaluationRaises(c)
  \/ ReplayStep

-----------------------------------------------------------------------------
(* No look-ahead: what a strategy says of a bar is what it said when that  *)
(* bar was the last one.  A run over a longer range, or the chart of a run *)
(* that ends earlier, shows the same signals.                              *)
SignalsIgnoreTheFuture ==
  step = "intrabar" => bars = WithSignals(bars, settings)

\* Open and closed positions, with the last bar that can still close them.
Positions ==
  {[entry |-> trades[j].entry, last |-> trades[j].exit - 1] : j \in DOMAIN trades}
  \cup (IF pos = NaN THEN {} ELSE {[entry |-> pos.entry, last |-> Len(bars)]})

(* A position rests on its trend, told from prices and levels alone: it is *)
(* opened at the open after the bar that broke out, and the first later bar*)
(* that breaks the level on the other side gives the exit signal.  For the *)
(* SuperTrend these are the bands of the bar before; the other strategies  *)
(* hold on to their line (VWAP, fast EMA) as long as no close is below it. *)
HeldOnlyWithTheTrend ==
  \A p \in Positions :
    LET s      == p.entry - 1
        close(x) == Whole(bars[x].close)
        top(x) == Whole(IF settings.use_wicks THEN bars[x].high ELSE bars[x].close)
        low(x) == Whole(IF settings.use_wicks THEN bars[x].low ELSE bars[x].close)
    IN  IF settings.slug = "supertrend_v6_pro"
        THEN /\ Above(top(s), bars[s - 1].trend.short)
             /\ \A x \in s + 1 .. p.last :
                  /\ bars[x].leave <=> Above(bars[x - 1].trend.long, low(x))
                  /\ bars[x].leave => x = p.last
        ELSE /\ Above(close(s), bars[s].trend)
             /\ \A x \in s .. p.last : Above(bars[x].trend, close(x)) => bars[x].leave

(* Evaluating through the shared cache gives what a fresh evaluation gives,*)
(* for every order of combinations and instruments: each key names all that*)
(* its series depends on.                                                  *)
CachedEvaluationIsFresh ==
  result # NaN =>
    LET frame == Frames[result.instrument]
    IN  result.signals =
          Signals(frame, result.settings, ComputeIndicators(frame, result.settings, <<>>))
=============================================================================
