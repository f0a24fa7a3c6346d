--------------------------- MODULE AlgorithmsProofs ---------------------------
(***************************************************************************)
(* Theorems about strategies at work, portfolios and timeframes.  A        *)
(* cached evaluation is a fresh one: a key determines its series           *)
(* (CacheInv).  No signal looks ahead: each indicator of a frame begins    *)
(* like that of a shorter one (SignalInv).  A position is held as long as  *)
(* its trend (HoldInv): what a stretch between an entry and an exit        *)
(* signal says of prices and levels.  A portfolio returns the mean of its  *)
(* symbols and declines no more than the worst of them (CurvesInv): the    *)
(* curves rise in time and start at 1.  Aggregation loses nothing and      *)
(* does not depend on the window (TableInv): the periods of bars, plain,   *)
(* of the session, weekly or monthly, are disjoint and each holds just     *)
(* the candles of its bar.                                                 *)
(***************************************************************************)
EXTENDS MCAlgorithms, MetricsProofs, TLAPS

\* The series a strategy wants under a name, computed for it alone.
Fresh(name, frame, s) ==
  Compute(name, frame, s, IF "atr" \in Names(s) THEN Compute("atr", frame, s, NaN) ELSE NaN)

Slugs == {"supertrend_v6_pro", "intraday_vwap_pullback", "swing_trend_pullback"}

(* A key says all its series depends on, for any two strategies and names. *)
LEMMA KeyDeterminesSeries ==
  ASSUME NEW s, s.slug \in Slugs, NEW t, t.slug \in Slugs, NEW frame,
         NEW name \in Names(s), NEW other \in Names(t),
         IndicatorKey(name, s) = IndicatorKey(other, t)
  PROVE  Fresh(name, frame, s) = Fresh(other, frame, t)
<1> DEFINE all == {"atr", "supertrend", "dmi", "rsi", "vwap", "ema_fast", "ema_slow"}
<1>1. /\ name \in all /\ other \in all
      /\ name = "supertrend" => "atr" \in Names(s)
      /\ other = "supertrend" => "atr" \in Names(t)
  BY DEF Slugs, Names
<1> QED
  BY <1>1 DEF Fresh, Compute, IndicatorKey

(* An evaluation through a cache that is right, series by series, gives    *)
(* the fresh series, and asks for no other.                                *)
Right(known, frame) ==
  \A key \in DOMAIN known : \A s \in Settings : \A name \in Names(s) :
    IndicatorKey(name, s) = key => known[key] = Fresh(name, frame, s)

LEMMA FreshThroughCache ==
  ASSUME NEW frame, NEW known, Right(known, frame), NEW s \in Settings
  PROVE  ComputeIndicators(frame, s, known) = [name \in Names(s) |-> Fresh(name, frame, s)]
<1> DEFINE get(name, atr) == IF IndicatorKey(name, s) \in DOMAIN known THEN known[IndicatorKey(name, s)]
                             ELSE Compute(name, frame, s, atr)
           range == IF "atr" \in Names(s) THEN get("atr", NaN) ELSE NaN
           fresh == IF "atr" \in Names(s) THEN Compute("atr", frame, s, NaN) ELSE NaN
<1>1. \A name \in Names(s) : Fresh(name, frame, s) = Compute(name, frame, s, fresh)
  BY DEF Fresh
<1>2. Compute("atr", frame, s, fresh) = Compute("atr", frame, s, NaN)
  BY DEF Compute
<1>3. range = fresh
  BY <1>1, <1>2 DEF Right
<1>4. \A name \in Names(s) : get(name, range) = Fresh(name, frame, s)
  BY <1>1, <1>3 DEF Right
<1>5. ComputeIndicators(frame, s, known) = [name \in Names(s) |-> get(name, range)]
  BY DEF ComputeIndicators
<1> HIDE DEF get, range
<1> QED BY <1>4, <1>5

LEMMA NothingKnown ==
  ASSUME NEW frame
  PROVE  Right(<<>>, frame)
<1>1. DOMAIN <<>> = {}
  OBVIOUS
<1> QED BY <1>1 DEF Right

CacheInv ==
  /\ cache = [i \in DOMAIN Frames |-> cache[i]]
  /\ \A i \in DOMAIN Frames : Right(cache[i], Frames[i])
  /\ result # NaN =>
       /\ result.settings \in Settings /\ result.instrument \in DOMAIN Frames
       /\ LET frame == Frames[result.instrument]
              s     == result.settings
          IN  result.signals = Signals(frame, s, [name \in Names(s) |-> Fresh(name, frame, s)])

LEMMA CacheInvImplies ==
  ASSUME CacheInv
  PROVE  CachedEvaluationIsFresh
<1> SUFFICES ASSUME result # NaN
             PROVE  LET frame == Frames[result.instrument]
                    IN  result.signals =
                          Signals(frame, result.settings, ComputeIndicators(frame, result.settings, <<>>))
  BY DEF CachedEvaluationIsFresh
<1>1. result.settings \in Settings
  BY DEF CacheInv
<1>2. ComputeIndicators(Frames[result.instrument], result.settings, <<>>)
        = [name \in Names(result.settings) |-> Fresh(name, Frames[result.instrument], result.settings)]
  BY <1>1, NothingKnown, FreshThroughCache
<1> QED BY <1>2 DEF CacheInv

LEMMA EvaluateKeepsCache ==
  ASSUME CacheInv, NEW s \in Settings, NEW i \in DOMAIN Frames, Evaluate(s, i)
  PROVE  CacheInv'
<1> DEFINE frame == Frames[i]
           known == cache[i]
           ind   == ComputeIndicators(frame, s, known)
           asked1(key) == {name \in Names(s) : IndicatorKey(name, s) = key}
           keys  == {IndicatorKey(name, s) : name \in Names(s)}
           more  == [key \in DOMAIN known \cup keys |->
                       IF key \in DOMAIN known THEN known[key]
                       ELSE ind[CHOOSE name \in asked1(key) : TRUE]]
<1>1. ind = [name \in Names(s) |-> Fresh(name, frame, s)]
  BY FreshThroughCache DEF CacheInv
<1>2. /\ cache' = [cache EXCEPT ![i] = more]
      /\ result' = [settings |-> s, instrument |-> i, signals |-> Signals(frame, s, ind)]
  BY DEF Evaluate
<1>3. Right(more, frame)
  <2> SUFFICES ASSUME NEW key \in DOMAIN known \cup keys, NEW t \in Settings, NEW other \in Names(t),
                      IndicatorKey(other, t) = key
               PROVE  more[key] = Fresh(other, frame, t)
    BY DEF Right
  <2>1. CASE key \in DOMAIN known
    BY <2>1 DEF CacheInv, Right
  <2>2. CASE key \notin DOMAIN known
    <3>1. PICK name \in Names(s) : name = CHOOSE x \in asked1(key) : TRUE
      BY <2>2
    <3>2. IndicatorKey(name, s) = key
      BY <2>2, <3>1
    <3>3. more[key] = Fresh(name, frame, s)
      BY <1>1, <2>2, <3>1
    <3> QED BY <3>2, <3>3, KeyDeterminesSeries, StrategyAssumption DEF Slugs
  <2> QED BY <2>1, <2>2
<1> HIDE DEF more
<1>4. \A j \in DOMAIN Frames : cache'[j] = IF j = i THEN more ELSE cache[j]
  BY <1>2 DEF CacheInv
<1>5. cache' = [j \in DOMAIN Frames |-> cache'[j]]
  BY <1>2 DEF CacheInv
<1> HIDE DEF ind
<1> QED BY <1>1, <1>2, <1>3, <1>4, <1>5 DEF CacheInv

LEMMA CacheInductive == Spec => []CacheInv
<1>1. Init => CacheInv
  <2> SUFFICES ASSUME StrategyInit PROVE CacheInv
    BY DEF Init
  <2>1. result = NaN /\ cache = [i \in DOMAIN Frames |-> <<>>]
    BY DEF StrategyInit
  <2> QED BY <2>1, NothingKnown DEF CacheInv
<1>2. CacheInv /\ [Next]_vars => CacheInv'
  <2> SUFFICES ASSUME CacheInv, [Next]_vars
               PROVE  CacheInv'
    OBVIOUS
  <2>1. ASSUME NEW s \in Settings, NEW i \in DOMAIN Frames, Evaluate(s, i) PROVE CacheInv'
    BY <2>1, EvaluateKeepsCache
  <2>2. CASE UNCHANGED <<cache, result>>
    BY <2>2 DEF CacheInv
  <2>3. UNCHANGED strategyVars => UNCHANGED <<cache, result>>
    BY DEF strategyVars
  <2>4. UNCHANGED vars => UNCHANGED strategyVars
    BY DEF vars
  <2>5. StrategyNext => \/ UNCHANGED <<cache, result>>
                       \/ \E s \in Settings, i \in DOMAIN Frames : Evaluate(s, i)
    BY DEF StrategyNext, StartReplay, EvaluateBar, EvaluationRaises, ReplayStep
  <2> QED BY <2>1, <2>2, <2>3, <2>4, <2>5 DEF Next
<1> QED BY <1>1, <1>2, PTL DEF Spec

(* For every order of strategies, parameters and instruments, the shared   *)
(* cache changes nothing about the signals.                                *)
THEOREM CacheIsTransparent == Spec => []CachedEvaluationIsFresh
<1>1. CacheInv => CachedEvaluationIsFresh
  BY CacheInvImplies
<1> QED BY <1>1, CacheInductive, PTL

-----------------------------------------------------------------------------
(* A series of one value per row, and one that another series continues.   *)
Series(xs, m) == xs = [i \in 1 .. m |-> xs[i]]

Starts(xs, ys, m, k) ==
  Series(xs, m) /\ Series(ys, k) /\ \A i \in 1 .. m : xs[i] = ys[i]

(* The recursion of an exponential mean has a solution.                    *)
Means(g, k, xs, alpha, first) ==
  g = [i \in 1 .. k |->
         IF i <= first THEN xs[i]
         ELSE Add(Scale(alpha, xs[i]), Scale(Minus(One, alpha), g[i - 1]))]

HasMeans(k, xs, alpha, first) == \E g : Means(g, k, xs, alpha, first)

LEMMA MeansExist ==
  ASSUME NEW n \in Nat, NEW xs, NEW alpha, NEW first \in Nat \ {0}
  PROVE  HasMeans(n, xs, alpha, first)
<1> DEFINE S == {k \in 0 .. n : HasMeans(k, xs, alpha, first)}
<1>1. 0 \in S
  <2> DEFINE g == [i \in 1 .. 0 |-> 0]
  <2>1. Means(g, 0, xs, alpha, first)
    BY DEF Means
  <2> QED BY <2>1 DEF HasMeans
<1>2. ASSUME NEW k \in 1 .. n, k - 1 \in S PROVE k \in S
  <2>1. PICK g : Means(g, k - 1, xs, alpha, first)
    BY <1>2 DEF HasMeans
  <2> DEFINE next == IF k <= first THEN xs[k]
                     ELSE Add(Scale(alpha, xs[k]), Scale(Minus(One, alpha), g[k - 1]))
             h == [i \in 1 .. k |-> IF i < k THEN g[i] ELSE next]
  <2>2. ASSUME NEW i \in 1 .. k
        PROVE  h[i] = IF i <= first THEN xs[i]
                      ELSE Add(Scale(alpha, xs[i]), Scale(Minus(One, alpha), h[i - 1]))
    <3>1. CASE i = k
      <4>1. h[i] = next
        BY <3>1
      <4>2. k > first => h[k - 1] = g[k - 1]
        OBVIOUS
      <4> HIDE DEF h
      <4> QED BY <3>1, <4>1, <4>2
    <3>2. CASE i < k
      <4>1. h[i] = g[i] /\ (i > first => h[i - 1] = g[i - 1])
        BY <3>2
      <4>2. g[i] = IF i <= first THEN xs[i]
                   ELSE Add(Scale(alpha, xs[i]), Scale(Minus(One, alpha), g[i - 1]))
        BY <2>1, <3>2 DEF Means
      <4> HIDE DEF h
      <4> QED BY <4>1, <4>2
    <3> QED BY <3>1, <3>2
  <2>3. h = [i \in 1 .. k |-> h[i]]
    OBVIOUS
  <2> HIDE DEF h
  <2>4. Means(h, k, xs, alpha, first)
    BY <2>2, <2>3 DEF Means
  <2> QED BY <2>4 DEF HasMeans
<1>3. n \in S
  <2> HIDE DEF S
  <2>1. \A k \in 1 .. n : k - 1 \in S => k \in S
    BY <1>2
  <2>2. \A k \in 0 .. n : k \in S
    BY <1>1, <2>1, Induct
  <2> QED BY <2>2
<1> QED BY <1>3

(* Where the values of a series begin.                                     *)
Begins(i, xs, n) == (i > n \/ xs[i] # NaN) /\ \A j \in 1 .. i - 1 : xs[j] = NaN

LEMMA BeginExists ==
  ASSUME NEW n \in Nat, NEW xs
  PROVE  \E i \in 1 .. n + 1 : Begins(i, xs, n)
<1> DEFINE S == {i \in 1 .. n + 1 : i > n \/ xs[i] # NaN}
<1>1. S \in SUBSET Nat /\ n + 1 \in S
  OBVIOUS
<1>2. PICK i \in S : \A j \in S : i <= j
  <2> HIDE DEF S
  <2> QED BY <1>1, LeastNumber
<1>3. \A j \in 1 .. i - 1 : j \notin S
  BY <1>2
<1>4. \A j \in 1 .. i - 1 : xs[j] = NaN
  BY <1>3
<1> QED BY <1>4 DEF Begins

(* What Ewm is: the first value, the means from there on, and no result    *)
(* before enough of them.                                                  *)
EwmBy(zs, first, g, n, xs, alpha, periods) ==
  /\ Begins(first, xs, n) /\ Means(g, n, xs, alpha, first)
  /\ zs = [i \in 1 .. n |-> IF i < first + periods - 1 THEN NaN ELSE g[i]]

LEMMA EwmIs ==
  ASSUME NEW n \in Nat, NEW xs, Series(xs, n), NEW alpha, NEW periods
  PROVE  \E first \in 1 .. n + 1 : \E g : EwmBy(Ewm(xs, alpha, periods), first, g, n, xs, alpha, periods)
<1> DEFINE first == CHOOSE i \in 1 .. Len(xs) + 1 : /\ i > Len(xs) \/ xs[i] # NaN
                                                  /\ \A j \in 1 .. i - 1 : xs[j] = NaN
           Recursion(g) == g = [i \in DOMAIN xs |->
                             IF i <= first THEN xs[i]
                             ELSE Add(Scale(alpha, xs[i]), Scale(Minus(One, alpha), g[i - 1]))]
           mean == CHOOSE g : Recursion(g)
<1>1. Len(xs) = n /\ DOMAIN xs = 1 .. n
  BY DEF Series
<1>2. first \in 1 .. n + 1 /\ Begins(first, xs, n)
  BY <1>1, BeginExists DEF Begins
<1>3. Ewm(xs, alpha, periods)
        = [i \in DOMAIN xs |-> IF i < first + periods - 1 THEN NaN ELSE mean[i]]
  BY DEF Ewm
<1> HIDE DEF first
<1>4. Recursion(mean)
  <2>1. HasMeans(n, xs, alpha, first)
    BY <1>2, MeansExist
  <2>2. \E g : Recursion(g)
    BY <1>1, <2>1 DEF HasMeans, Means
  <2> HIDE DEF Mean
  <2> QED BY <2>2
<1>5. Means(mean, n, xs, alpha, first)
  BY <1>1, <1>4 DEF Means
<1> HIDE DEF mean
<1> QED BY <1>1, <1>2, <1>3, <1>5 DEF EwmBy

(* A mean does not look ahead: it begins where a longer series begins and  *)
(* then goes the same way.                                                 *)
LEMMA EwmPrefix ==
  ASSUME NEW m \in Nat, NEW k \in Nat, m <= k, NEW xs, NEW ys, Starts(xs, ys, m, k),
         NEW alpha, NEW periods
  PROVE  Starts(Ewm(xs, alpha, periods), Ewm(ys, alpha, periods), m, k)
<1> DEFINE zs == Ewm(xs, alpha, periods)
           ws == Ewm(ys, alpha, periods)
<1>1. Series(xs, m) /\ Series(ys, k) /\ \A i \in 1 .. m : xs[i] = ys[i]
  BY DEF Starts
<1>2. \E one \in 1 .. m + 1 : \E g : EwmBy(zs, one, g, m, xs, alpha, periods)
  BY <1>1, EwmIs
<1>3. \E two \in 1 .. k + 1 : \E g : EwmBy(ws, two, g, k, ys, alpha, periods)
  BY <1>1, EwmIs
<1> HIDE DEF zs, ws
<1>4. PICK one \in 1 .. m + 1 : \E g : EwmBy(zs, one, g, m, xs, alpha, periods)
  BY <1>2
<1>5. PICK two \in 1 .. k + 1 : \E h : EwmBy(ws, two, h, k, ys, alpha, periods)
  BY <1>3
<1>6. PICK g : EwmBy(zs, one, g, m, xs, alpha, periods)
  BY <1>4
<1>7. PICK h : EwmBy(ws, two, h, k, ys, alpha, periods)
  BY <1>5
<1>8. Begins(one, xs, m) /\ Begins(two, ys, k)
  BY <1>6, <1>7 DEF EwmBy
<1>9. Series(zs, m) /\ Series(ws, k)
  BY <1>6, <1>7 DEF EwmBy, Series
<1>10. one = two \/ (one > m /\ two > m)
  BY <1>1, <1>8 DEF Begins
<1>11. CASE one = two
  <2> DEFINE S == {i \in 0 .. m : i > 0 => g[i] = h[i]}
  <2>1. ASSUME NEW i \in 1 .. m, i - 1 \in S PROVE i \in S
    <3>1. g[i] = IF i <= one THEN xs[i]
                 ELSE Add(Scale(alpha, xs[i]), Scale(Minus(One, alpha), g[i - 1]))
      BY <1>6 DEF EwmBy, Means
    <3>2. h[i] = IF i <= one THEN ys[i]
                 ELSE Add(Scale(alpha, ys[i]), Scale(Minus(One, alpha), h[i - 1]))
      BY <1>7, <1>11 DEF EwmBy, Means
    <3>3. i > one => g[i - 1] = h[i - 1]
      BY <2>1
    <3> QED BY <1>1, <3>1, <3>2, <3>3
  <2>2. \A i \in 0 .. m : i \in S
    <3>1. 0 \in S
      OBVIOUS
    <3>2. \A i \in 1 .. m : i - 1 \in S => i \in S
      BY <2>1
    <3> HIDE DEF S
    <3> QED BY <3>1, <3>2, Induct
  <2>3. \A i \in 1 .. m : g[i] = h[i]
    BY <2>2
  <2>4. \A i \in 1 .. m : zs[i] = ws[i]
    BY <1>6, <1>7, <1>11, <2>3 DEF EwmBy
  <2> QED BY <1>9, <2>4 DEF Starts, zs, ws
<1>12. CASE one > m /\ two > m
  <2>1. \A i \in 1 .. m : xs[i] = NaN /\ ys[i] = NaN
    BY <1>8, <1>12 DEF Begins
  <2>2. \A i \in 1 .. m : g[i] = NaN /\ h[i] = NaN
    BY <1>6, <1>7, <1>12, <2>1 DEF EwmBy, Means
  <2>3. \A i \in 1 .. m : zs[i] = ws[i]
    BY <1>6, <1>7, <2>2 DEF EwmBy
  <2> QED BY <1>9, <2>3 DEF Starts, zs, ws
<1> QED BY <1>10, <1>11, <1>12

-----------------------------------------------------------------------------
(* Two frames of which one begins with the candles of the other, whatever  *)
(* else their rows hold.                                                   *)
SamePrices(c, d) ==
  /\ c.day = d.day /\ c.volume = d.volume
  /\ c.high = d.high /\ c.low = d.low /\ c.close = d.close

Alike(f, g, m, k) ==
  Series(f, m) /\ Series(g, k) /\ \A i \in 1 .. m : SamePrices(f[i], g[i])

(* The rows of a SuperTrend.                                               *)
Rows(r, n, f, atr, multiplier, wicks) ==
  r = [i \in 1 .. n |->
         SuperTrendRow(f, atr, multiplier, wicks, i, IF i = 1 THEN NaN ELSE r[i - 1])]

HasRows(n, f, atr, multiplier, wicks) == \E r : Rows(r, n, f, atr, multiplier, wicks)

LEMMA RowsExist ==
  ASSUME NEW n \in Nat, NEW f, NEW atr, NEW multiplier, NEW wicks
  PROVE  HasRows(n, f, atr, multiplier, wicks)
<1> DEFINE NextRow(i, before) == SuperTrendRow(f, atr, multiplier, wicks, i, before)
           S == {k \in 0 .. n : HasRows(k, f, atr, multiplier, wicks)}
<1>1. 0 \in S
  <2> DEFINE r == [i \in 1 .. 0 |-> 0]
  <2>1. Rows(r, 0, f, atr, multiplier, wicks)
    BY DEF Rows
  <2> QED BY <2>1 DEF HasRows
<1>2. ASSUME NEW k \in 1 .. n, k - 1 \in S PROVE k \in S
  <2>1. PICK r : Rows(r, k - 1, f, atr, multiplier, wicks)
    BY <1>2 DEF HasRows
  <2> DEFINE next == NextRow(k, IF k = 1 THEN NaN ELSE r[k - 1])
             h == [i \in 1 .. k |-> IF i < k THEN r[i] ELSE next]
  <2> HIDE DEF NextRow
  <2>2. ASSUME NEW i \in 1 .. k
        PROVE  h[i] = NextRow(i, IF i = 1 THEN NaN ELSE h[i - 1])
    <3>1. CASE i = k
      <4>1. h[i] = next
        BY <3>1
      <4>2. k # 1 => h[k - 1] = r[k - 1]
        OBVIOUS
      <4> HIDE DEF h
      <4> QED BY <3>1, <4>1, <4>2
    <3>2. CASE i < k
      <4>1. h[i] = r[i] /\ (i # 1 => h[i - 1] = r[i - 1])
        BY <3>2
      <4>2. r[i] = NextRow(i, IF i = 1 THEN NaN ELSE r[i - 1])
        BY <2>1, <3>2 DEF Rows, NextRow
      <4> HIDE DEF h
      <4> QED BY <4>1, <4>2
    <3> QED BY <3>1, <3>2
  <2>3. h = [i \in 1 .. k |-> h[i]]
    OBVIOUS
  <2> HIDE DEF h
  <2>4. Rows(h, k, f, atr, multiplier, wicks)
    BY <2>2, <2>3 DEF Rows, NextRow
  <2> QED BY <2>4 DEF HasRows
<1>3. n \in S
  <2> HIDE DEF S
  <2>1. \A k \in 1 .. n : k - 1 \in S => k \in S
    BY <1>2
  <2>2. \A k \in 0 .. n : k \in S
    BY <1>1, <2>1, Induct
  <2> QED BY <2>2
<1> QED BY <1>3

LEMMA SuperTrendIs ==
  ASSUME NEW n \in Nat, NEW f, Series(f, n), NEW atr, NEW multiplier, NEW wicks
  PROVE  Rows(SuperTrend(f, atr, multiplier, wicks), n, f, atr, multiplier, wicks)
<1> DEFINE Recursion(r) ==
             r = [i \in DOMAIN f |-> SuperTrendRow(f, atr, multiplier, wicks, i,
                                                   IF i = 1 THEN NaN ELSE r[i - 1])]
           row == CHOOSE r : Recursion(r)
<1>1. DOMAIN f = 1 .. n
  BY DEF Series
<1>2. SuperTrend(f, atr, multiplier, wicks) = row
  BY DEF SuperTrend
<1>3. Recursion(row)
  <2>1. HasRows(n, f, atr, multiplier, wicks)
    BY RowsExist
  <2>2. \E r : Recursion(r)
    BY <1>1, <2>1 DEF HasRows, Rows
  <2> HIDE DEF Recursion
  <2> QED BY <2>2
<1> HIDE DEF row
<1> QED BY <1>1, <1>2, <1>3 DEF Rows

LEMMA RowPrefix ==
  ASSUME NEW m \in Nat, NEW k \in Nat, NEW f, NEW g, Alike(f, g, m, k),
         NEW x, NEW y, Starts(x, y, m, k), NEW multiplier, NEW wicks,
         NEW i \in 1 .. m, NEW before
  PROVE  SuperTrendRow(f, x, multiplier, wicks, i, before)
           = SuperTrendRow(g, y, multiplier, wicks, i, before)
<1>1. /\ f[i].high = g[i].high /\ f[i].low = g[i].low /\ f[i].close = g[i].close
      /\ x[i] = y[i]
  BY DEF Alike, SamePrices, Starts
<1>2. CASE i = 1
  BY <1>1, <1>2 DEF SuperTrendRow
<1>3. CASE i # 1
  <2>1. i - 1 \in 1 .. m
    BY <1>3
  <2>2. /\ f[i - 1].high = g[i - 1].high /\ f[i - 1].low = g[i - 1].low
        /\ f[i - 1].close = g[i - 1].close
    BY <2>1 DEF Alike, SamePrices
  <2> QED BY <1>1, <1>3, <2>2 DEF SuperTrendRow
<1> QED BY <1>2, <1>3

LEMMA SuperTrendPrefix ==
  ASSUME NEW m \in Nat, NEW k \in Nat, m <= k, NEW f, NEW g, Alike(f, g, m, k),
         NEW x, NEW y, Starts(x, y, m, k), NEW multiplier, NEW wicks
  PROVE  Starts(SuperTrend(f, x, multiplier, wicks), SuperTrend(g, y, multiplier, wicks), m, k)
<1> DEFINE r == SuperTrend(f, x, multiplier, wicks)
           h == SuperTrend(g, y, multiplier, wicks)
<1>1. Rows(r, m, f, x, multiplier, wicks) /\ Rows(h, k, g, y, multiplier, wicks)
  BY SuperTrendIs DEF Alike
<1> HIDE DEF r, h
<1>2. Series(r, m) /\ Series(h, k)
  BY <1>1 DEF Rows, Series
<1> DEFINE S == {i \in 0 .. m : i > 0 => r[i] = h[i]}
<1>3. ASSUME NEW i \in 1 .. m, i - 1 \in S PROVE i \in S
  <2> DEFINE before == IF i = 1 THEN NaN ELSE r[i - 1]
  <2>1. before = IF i = 1 THEN NaN ELSE h[i - 1]
    BY <1>3
  <2>2. r[i] = SuperTrendRow(f, x, multiplier, wicks, i, before)
    BY <1>1 DEF Rows
  <2>3. h[i] = SuperTrendRow(g, y, multiplier, wicks, i, before)
    BY <1>1, <2>1 DEF Rows
  <2> HIDE DEF before
  <2> QED BY <2>2, <2>3, RowPrefix
<1>4. \A i \in 1 .. m : r[i] = h[i]
  <2>1. 0 \in S
    OBVIOUS
  <2>2. \A i \in 1 .. m : i - 1 \in S => i \in S
    BY <1>3
  <2>3. \A i \in 0 .. m : i \in S
    <3> HIDE DEF S
    <3> QED BY <2>1, <2>2, Induct
  <2> QED BY <2>3
<1> QED BY <1>2, <1>4 DEF Starts, r, h

-----------------------------------------------------------------------------
(* None of the indicators looks ahead.                                     *)
LEMMA StartsIf ==
  ASSUME NEW m \in Nat, NEW k \in Nat, NEW xs, NEW ys, Series(xs, m), Series(ys, k),
         \A i \in 1 .. m : xs[i] = ys[i]
  PROVE  Starts(xs, ys, m, k)
BY DEF Starts

LEMMA ClosePrefix ==
  ASSUME NEW m \in Nat, NEW k \in Nat, m <= k, NEW f, NEW g, Alike(f, g, m, k)
  PROVE  Starts(Column(f, LAMBDA c : c.close), Column(g, LAMBDA c : c.close), m, k)
<1>1. DOMAIN f = 1 .. m /\ DOMAIN g = 1 .. k
  BY DEF Alike, Series
<1>2. /\ Column(f, LAMBDA c : c.close) = [i \in 1 .. m |-> Whole(f[i].close)]
      /\ Column(g, LAMBDA c : c.close) = [i \in 1 .. k |-> Whole(g[i].close)]
  BY <1>1 DEF Column
<1>3. \A i \in 1 .. m : f[i].close = g[i].close
  BY DEF Alike, SamePrices
<1> QED BY <1>2, <1>3, StartsIf DEF Series

LEMMA EmaPrefix ==
  ASSUME NEW m \in Nat, NEW k \in Nat, m <= k, NEW f, NEW g, Alike(f, g, m, k), NEW period
  PROVE  Starts(Ema(f, period), Ema(g, period), m, k)
BY ClosePrefix, EwmPrefix DEF Ema

LEMMA AtrPrefix ==
  ASSUME NEW m \in Nat, NEW k \in Nat, m <= k, NEW f, NEW g, Alike(f, g, m, k), NEW period
  PROVE  Starts(Atr(f, period), Atr(g, period), m, k)
<1>1. DOMAIN f = 1 .. m /\ DOMAIN g = 1 .. k
  BY DEF Alike, Series
<1>2. ASSUME NEW i \in 1 .. m
      PROVE  TrueRange(f)[i] = TrueRange(g)[i]
  <2> DEFINE prev(h) == IF i = 1 THEN {} ELSE {h[i - 1].close}
             span(c, before) == Whole(Max({c.high} \cup before) - Min({c.low} \cup before))
  <2>1. ASSUME NEW h, i \in DOMAIN h PROVE TrueRange(h)[i] = span(h[i], prev(h))
    BY <2>1 DEF TrueRange
  <2>2. prev(f) = prev(g)
    BY DEF Alike, SamePrices
  <2>3. f[i].high = g[i].high /\ f[i].low = g[i].low
    BY DEF Alike, SamePrices
  <2>4. i \in DOMAIN f /\ i \in DOMAIN g
    BY <1>1
  <2> HIDE DEF prev
  <2> QED BY <2>1, <2>2, <2>3, <2>4
<1>3. Series(TrueRange(f), m) /\ Series(TrueRange(g), k)
  BY <1>1 DEF TrueRange, Series
<1>4. Starts(TrueRange(f), TrueRange(g), m, k)
  BY <1>2, <1>3 DEF Starts
<1> QED BY <1>4, EwmPrefix DEF Atr, Wilder

LEMMA VwapPrefix ==
  ASSUME NEW m \in Nat, NEW k \in Nat, m <= k, NEW f, NEW g, Alike(f, g, m, k)
  PROVE  Starts(Vwap(f), Vwap(g), m, k)
<1> DEFINE volumes(h, i) == [j \in 1 .. i |-> IF h[j].day = h[i].day THEN h[j].volume ELSE 0]
           money(h, i) == [j \in 1 .. i |-> IF h[j].day = h[i].day
                             THEN h[j].volume * (h[j].high + h[j].low + h[j].close) ELSE 0]
<1>1. DOMAIN f = 1 .. m /\ DOMAIN g = 1 .. k
  BY DEF Alike, Series
<1>2. ASSUME NEW i \in 1 .. m
      PROVE  volumes(f, i) = volumes(g, i) /\ money(f, i) = money(g, i)
  <2>1. \A j \in 1 .. i : SamePrices(f[j], g[j])
    BY DEF Alike
  <2> QED BY <2>1 DEF SamePrices
<1> DEFINE line(h, i) == IF Total(volumes(h, i)) = 0 THEN NaN
                         ELSE Lowest(<<Total(money(h, i)), 3 * Total(volumes(h, i))>>)
<1>3. ASSUME NEW i \in 1 .. m
      PROVE  Vwap(f)[i] = line(f, i) /\ Vwap(g)[i] = line(g, i)
  <2>1. ASSUME NEW h, i \in DOMAIN h PROVE Vwap(h)[i] = line(h, i)
    BY <2>1 DEF Vwap
  <2> HIDE DEF line
  <2> QED BY <1>1, <2>1
<1>4. Series(Vwap(f), m) /\ Series(Vwap(g), k)
  BY <1>1 DEF Vwap, Series
<1> HIDE DEF volumes, money
<1>5. ASSUME NEW i \in 1 .. m
      PROVE  Vwap(f)[i] = Vwap(g)[i]
  <2>1. line(f, i) = line(g, i)
    BY <1>2
  <2> HIDE DEF line
  <2> QED BY <1>3, <2>1
<1> QED BY <1>4, <1>5, StartsIf

LEMMA RsiPrefix ==
  ASSUME NEW m \in Nat, NEW k \in Nat, m <= k, NEW f, NEW g, Alike(f, g, m, k), NEW period
  PROVE  Starts(Rsi(f, period), Rsi(g, period), m, k)
<1> DEFINE delta(h, i) == IF i = 1 THEN NaN ELSE Whole(h[i].close - h[i - 1].close)
           part(h, s) == [i \in DOMAIN h |-> IF delta(h, i) = NaN THEN NaN
                            ELSE Higher(Zero, Scale(Whole(s), delta(h, i)))]
           index(h) == [i \in DOMAIN h |->
                          IF Wilder(part(h, 1), period)[i] = NaN THEN NaN
                          ELSE IF Wilder(part(h, 1), period)[i][1] = 0
                                  /\ Wilder(part(h, -1), period)[i][1] = 0 THEN Whole(50)
                          ELSE Scale(Whole(100), Over(Wilder(part(h, 1), period)[i],
                                 Add(Wilder(part(h, 1), period)[i], Wilder(part(h, -1), period)[i])))]
<1>1. DOMAIN f = 1 .. m /\ DOMAIN g = 1 .. k
  BY DEF Alike, Series
<1>2. \A i \in 1 .. m : delta(f, i) = delta(g, i)
  BY DEF Alike, SamePrices
<1>3. Rsi(f, period) = index(f) /\ Rsi(g, period) = index(g)
  BY DEF Rsi
<1> HIDE DEF delta
<1>4. ASSUME NEW s
      PROVE  Starts(part(f, s), part(g, s), m, k)
  BY <1>1, <1>2 DEF Starts, Series
<1> HIDE DEF part
<1>5. ASSUME NEW s
      PROVE  Starts(Wilder(part(f, s), period), Wilder(part(g, s), period), m, k)
  BY <1>4, EwmPrefix DEF Wilder
<1>6. \A i \in 1 .. m : /\ Wilder(part(f, 1), period)[i] = Wilder(part(g, 1), period)[i]
                        /\ Wilder(part(f, -1), period)[i] = Wilder(part(g, -1), period)[i]
  BY <1>5 DEF Starts
<1>7. \A i \in 1 .. m : index(f)[i] = index(g)[i]
  BY <1>1, <1>6
<1>8. Series(index(f), m) /\ Series(index(g), k)
  BY <1>1 DEF Series
<1> HIDE DEF index
<1> QED BY <1>3, <1>7, <1>8 DEF Starts

LEMMA AdxPrefix ==
  ASSUME NEW m \in Nat, NEW k \in Nat, m <= k, NEW f, NEW g, Alike(f, g, m, k),
         NEW length, NEW smoothing
  PROVE  Starts(Adx(f, length, smoothing), Adx(g, length, smoothing), m, k)
<1> DEFINE up(h, i)   == IF i = 1 THEN 0 ELSE h[i].high - h[i - 1].high
           down(h, i) == IF i = 1 THEN 0 ELSE h[i - 1].low - h[i].low
           move(a, b) == Whole(IF a > b /\ a > 0 THEN a ELSE 0)
           rise(h) == [i \in DOMAIN h |-> move(up(h, i), down(h, i))]
           fall(h) == [i \in DOMAIN h |-> move(down(h, i), up(h, i))]
           dx(p, n, D) == [i \in D |-> IF p[i] = NaN THEN NaN
                             ELSE Scale(Whole(100), Over(Minus(Higher(p[i], n[i]), Lower(p[i], n[i])),
                                                         Plus(p[i], n[i])))]
<1>1. DOMAIN f = 1 .. m /\ DOMAIN g = 1 .. k
  BY DEF Alike, Series
<1>2. \A i \in 1 .. m : up(f, i) = up(g, i) /\ down(f, i) = down(g, i)
  BY DEF Alike, SamePrices
<1>3. ASSUME NEW h
      PROVE  /\ Directional(h, length).plus = Wilder(rise(h), length)
             /\ Directional(h, length).minus = Wilder(fall(h), length)
  BY DEF Directional
<1>4. ASSUME NEW h
      PROVE  Adx(h, length, smoothing)
               = Wilder(dx(Directional(h, length).plus, Directional(h, length).minus, DOMAIN h), smoothing)
  BY DEF Adx
<1> HIDE DEF up, down, move
<1>5. Starts(rise(f), rise(g), m, k) /\ Starts(fall(f), fall(g), m, k)
  BY <1>1, <1>2 DEF Starts, Series
<1> HIDE DEF rise, fall
<1>6. /\ Starts(Directional(f, length).plus, Directional(g, length).plus, m, k)
      /\ Starts(Directional(f, length).minus, Directional(g, length).minus, m, k)
  BY <1>3, <1>5, EwmPrefix DEF Wilder
<1>7. ASSUME NEW p, NEW q, Starts(p, q, m, k), NEW n, NEW o, Starts(n, o, m, k)
      PROVE  Starts(dx(p, n, DOMAIN f), dx(q, o, DOMAIN g), m, k)
  <2>1. \A i \in 1 .. m : p[i] = q[i] /\ n[i] = o[i]
    BY <1>7 DEF Starts
  <2>2. \A i \in 1 .. m : dx(p, n, DOMAIN f)[i] = dx(q, o, DOMAIN g)[i]
    BY <1>1, <2>1
  <2>3. Series(dx(p, n, DOMAIN f), m) /\ Series(dx(q, o, DOMAIN g), k)
    BY <1>1 DEF Series
  <2> QED BY <2>2, <2>3, StartsIf
<1> HIDE DEF dx
<1>8. Starts(dx(Directional(f, length).plus, Directional(f, length).minus, DOMAIN f),
             dx(Directional(g, length).plus, Directional(g, length).minus, DOMAIN g), m, k)
  BY <1>6, <1>7
<1> QED BY <1>4, <1>8, EwmPrefix DEF Wilder

-----------------------------------------------------------------------------
(* The series a strategy reads, and the signals it makes of them.          *)
LEMMA FreshPrefix ==
  ASSUME NEW m \in Nat, NEW k \in Nat, m <= k, NEW f, NEW g, Alike(f, g, m, k),
         NEW s, s.slug \in Slugs, NEW name \in Names(s)
  PROVE  Starts(Fresh(name, f, s), Fresh(name, g, s), m, k)
<1> DEFINE atr(h) == IF "atr" \in Names(s) THEN Compute("atr", h, s, NaN) ELSE NaN
<1>1. \A h : Fresh(name, h, s) = Compute(name, h, s, atr(h))
  BY DEF Fresh
<1>2. name \in {"atr", "supertrend", "dmi", "rsi", "vwap", "ema_fast", "ema_slow"}
  BY DEF Names, Slugs
<1>3. CASE name = "supertrend"
  <2>1. "atr" \in Names(s)
    BY <1>3 DEF Names, Slugs
  <2>2. \A h : atr(h) = Atr(h, s.atr_period)
    BY <2>1 DEF Compute
  <2>3. \A h : Fresh(name, h, s) = SuperTrend(h, Atr(h, s.atr_period), s.atr_multiplier, s.use_wicks)
    BY <1>1, <1>3, <2>2 DEF Compute
  <2> QED BY <2>3, AtrPrefix, SuperTrendPrefix
<1> HIDE DEF atr
<1>4. CASE name = "atr"
  BY <1>1, <1>4, AtrPrefix DEF Compute
<1>5. CASE name = "dmi"
  BY <1>1, <1>5, AdxPrefix DEF Compute
<1>6. CASE name = "rsi"
  BY <1>1, <1>6, RsiPrefix DEF Compute
<1>7. CASE name = "vwap"
  BY <1>1, <1>7, VwapPrefix DEF Compute
<1>8. CASE name \in {"ema_fast", "ema_slow"}
  BY <1>1, <1>8, EmaPrefix DEF Compute
<1> QED BY <1>2, <1>3, <1>4, <1>5, <1>6, <1>7, <1>8

\* All series of a strategy, computed for it alone.
AllFresh(frame, s) == [name \in Names(s) |-> Fresh(name, frame, s)]

LEMMA FreshAt ==
  ASSUME NEW m \in Nat, NEW k \in Nat, m <= k, NEW f, NEW g, Alike(f, g, m, k),
         NEW s, s.slug \in Slugs, NEW name \in Names(s), NEW i \in 1 .. m
  PROVE  AllFresh(f, s)[name][i] = AllFresh(g, s)[name][i]
<1>1. Starts(Fresh(name, f, s), Fresh(name, g, s), m, k)
  BY FreshPrefix
<1> QED BY <1>1 DEF AllFresh, Starts

LEMMA CrossPrefix ==
  ASSUME NEW m \in Nat, NEW k \in Nat, NEW i \in 1 .. m,
         NEW a, NEW c, Starts(a, c, m, k), NEW b, NEW d, Starts(b, d, m, k)
  PROVE  CrossAbove(a, b, i) = CrossAbove(c, d, i) /\ CrossBelow(a, b, i) = CrossBelow(c, d, i)
<1>1. a[i] = c[i] /\ b[i] = d[i]
  BY DEF Starts
<1>2. i > 1 => a[i - 1] = c[i - 1] /\ b[i - 1] = d[i - 1]
  BY DEF Starts
<1> QED BY <1>1, <1>2 DEF CrossAbove, CrossBelow

LEMMA SuperTrendSignalsPrefix ==
  ASSUME NEW m \in Nat, NEW k \in Nat, m <= k, NEW f, NEW g, Alike(f, g, m, k),
         NEW s, s.slug = "supertrend_v6_pro"
  PROVE  Starts(SuperTrendSignals(s, AllFresh(f, s)), SuperTrendSignals(s, AllFresh(g, s)), m, k)
<1>1. s.slug \in Slugs /\ Names(s) = {"atr", "supertrend", "dmi", "rsi"}
  BY DEF Names, Slugs
<1> DEFINE st(h) == AllFresh(h, s)["supertrend"]
           adx(h) == AllFresh(h, s)["dmi"]
           rsi(h) == AllFresh(h, s)["rsi"]
           turns(h, i, to) == i > 1 /\ st(h)[i].dir = to /\ st(h)[i - 1].dir = -to
           adxOk(h, i) == s.use_adx_filter => AtLeast(adx(h)[i], s.adx_min)
           rsiOk(h, i) == s.use_rsi_filter => AtLeast(rsi(h)[i], s.rsi_min_long)
           row(h, i) == Signal(turns(h, i, 1) /\ s.trade_mode \in {"Both", "Long only"}
                                 /\ adxOk(h, i) /\ rsiOk(h, i),
                               turns(h, i, -1), NaN, st(h)[i])
<1>2. Starts(st(f), st(g), m, k)
  BY <1>1, FreshPrefix DEF AllFresh
<1>3. ASSUME NEW i \in 1 .. m
      PROVE  /\ st(f)[i] = st(g)[i] /\ adx(f)[i] = adx(g)[i] /\ rsi(f)[i] = rsi(g)[i]
             /\ i > 1 => st(f)[i - 1] = st(g)[i - 1]
  <2>1. i > 1 => i - 1 \in 1 .. m
    OBVIOUS
  <2> QED BY <1>1, <2>1, FreshAt
<1>4. \A h : SuperTrendSignals(s, AllFresh(h, s)) = [i \in DOMAIN st(h) |-> row(h, i)]
  BY DEF SuperTrendSignals
<1>5. DOMAIN st(f) = 1 .. m /\ DOMAIN st(g) = 1 .. k
  BY <1>2 DEF Starts, Series
<1> HIDE DEF st, adx, rsi
<1>6. ASSUME NEW i \in 1 .. m
      PROVE  row(f, i) = row(g, i)
  <2>1. turns(f, i, 1) = turns(g, i, 1) /\ turns(f, i, -1) = turns(g, i, -1)
    BY <1>3
  <2>2. adxOk(f, i) = adxOk(g, i) /\ rsiOk(f, i) = rsiOk(g, i)
    BY <1>3
  <2>3. st(f)[i] = st(g)[i]
    BY <1>3
  <2> HIDE DEF turns, adxOk, rsiOk
  <2> QED BY <2>1, <2>2, <2>3, Zenon
<1> HIDE DEF row
<1> QED BY <1>4, <1>5, <1>6 DEF Starts, Series

LEMMA VwapSignalsPrefix ==
  ASSUME NEW m \in Nat, NEW k \in Nat, m <= k, NEW f, NEW g, Alike(f, g, m, k),
         NEW s, s.slug = "intraday_vwap_pullback"
  PROVE  Starts(VwapSignals(f, s, AllFresh(f, s)), VwapSignals(g, s, AllFresh(g, s)), m, k)
<1>1. s.slug \in Slugs /\ Names(s) = {"vwap", "rsi"}
  BY DEF Names, Slugs
<1>2. DOMAIN f = 1 .. m /\ DOMAIN g = 1 .. k
  BY DEF Alike, Series
<1> DEFINE line(h) == AllFresh(h, s)["vwap"]
           rsi(h) == AllFresh(h, s)["rsi"]
           close(h) == Column(h, LAMBDA c : c.close)
           entry(h) == [i \in DOMAIN h |-> Scale(Plus(One, s.vwap_buffer), line(h)[i])]
           row(h, i) == Signal(CrossAbove(close(h), entry(h), i) /\ Above(s.rsi_entry_max, rsi(h)[i]),
                               CrossBelow(close(h), line(h), i) \/ Above(rsi(h)[i], s.rsi_exit_min),
                               NaN, line(h)[i])
<1>3. Starts(line(f), line(g), m, k) /\ Starts(rsi(f), rsi(g), m, k)
  BY <1>1, FreshPrefix DEF AllFresh
<1>4. Starts(close(f), close(g), m, k)
  BY ClosePrefix
<1>5. \A h : VwapSignals(h, s, AllFresh(h, s)) = [i \in DOMAIN h |-> row(h, i)]
  BY DEF VwapSignals
<1> HIDE DEF line, rsi, close
<1>6. Starts(entry(f), entry(g), m, k)
  <2>1. Series(entry(f), m) /\ Series(entry(g), k)
    BY <1>2 DEF Series
  <2>2. ASSUME NEW i \in 1 .. m
        PROVE  entry(f)[i] = entry(g)[i]
    <3>1. line(f)[i] = line(g)[i]
      BY <1>3 DEF Starts
    <3>2. i \in DOMAIN f /\ i \in DOMAIN g
      BY <1>2
    <3> QED BY <3>1, <3>2
  <2> QED BY <2>1, <2>2, StartsIf
<1> HIDE DEF entry
<1>7. ASSUME NEW i \in 1 .. m
      PROVE  row(f, i) = row(g, i)
  <2>1. /\ CrossAbove(close(f), entry(f), i) = CrossAbove(close(g), entry(g), i)
        /\ CrossBelow(close(f), line(f), i) = CrossBelow(close(g), line(g), i)
    BY <1>3, <1>4, <1>6, CrossPrefix
  <2>2. line(f)[i] = line(g)[i] /\ rsi(f)[i] = rsi(g)[i]
    BY <1>3 DEF Starts
  <2> QED BY <2>1, <2>2
<1> HIDE DEF row
<1> QED BY <1>2, <1>5, <1>7 DEF Starts, Series

LEMMA SwingSignalsPrefix ==
  ASSUME NEW m \in Nat, NEW k \in Nat, m <= k, NEW f, NEW g, Alike(f, g, m, k),
         NEW s, s.slug = "swing_trend_pullback"
  PROVE  Starts(SwingSignals(f, s, AllFresh(f, s)), SwingSignals(g, s, AllFresh(g, s)), m, k)
<1>1. /\ s.slug \in Slugs /\ {"ema_fast", "ema_slow", "rsi"} \subseteq Names(s)
      /\ s.use_atr_stop => "atr" \in Names(s)
  BY DEF Names, Slugs
<1>2. DOMAIN f = 1 .. m /\ DOMAIN g = 1 .. k
  BY DEF Alike, Series
<1> DEFINE line(h) == AllFresh(h, s)["ema_fast"]
           slow(h) == AllFresh(h, s)["ema_slow"]
           rsi(h) == AllFresh(h, s)["rsi"]
           close(h) == Column(h, LAMBDA c : c.close)
           stop(h, i) == IF s.use_atr_stop
                         THEN Subtract(close(h)[i], Scale(s.atr_mult, AllFresh(h, s)["atr"][i])) ELSE NaN
           row(h, i) == Signal(Above(close(h)[i], slow(h)[i]) /\ CrossAbove(close(h), line(h), i)
                                 /\ Above(s.rsi_entry_max, rsi(h)[i]),
                               CrossBelow(close(h), line(h), i) \/ Above(rsi(h)[i], s.rsi_exit_min),
                               stop(h, i), line(h)[i])
<1>3. Starts(line(f), line(g), m, k) /\ Starts(rsi(f), rsi(g), m, k) /\ Starts(slow(f), slow(g), m, k)
  BY <1>1, FreshPrefix DEF AllFresh
<1>4. Starts(close(f), close(g), m, k)
  BY ClosePrefix
<1>5. \A h : SwingSignals(h, s, AllFresh(h, s)) = [i \in DOMAIN h |-> row(h, i)]
  BY DEF SwingSignals
<1> HIDE DEF line, slow, rsi, close
<1>6. ASSUME NEW i \in 1 .. m
      PROVE  row(f, i) = row(g, i)
  <2>1. /\ CrossAbove(close(f), line(f), i) = CrossAbove(close(g), line(g), i)
        /\ CrossBelow(close(f), line(f), i) = CrossBelow(close(g), line(g), i)
    BY <1>3, <1>4, CrossPrefix
  <2>2. /\ line(f)[i] = line(g)[i] /\ rsi(f)[i] = rsi(g)[i] /\ slow(f)[i] = slow(g)[i]
        /\ close(f)[i] = close(g)[i]
    BY <1>3, <1>4 DEF Starts
  <2>3. stop(f, i) = stop(g, i)
    BY <1>1, <2>2, FreshAt
  <2> HIDE DEF stop
  <2> QED BY <2>1, <2>2, <2>3
<1> HIDE DEF row
<1> QED BY <1>2, <1>5, <1>6 DEF Starts, Series

(* The signals of a frame are the first signals of any frame it begins.    *)
LEMMA SignalsPrefix ==
  ASSUME NEW m \in Nat, NEW k \in Nat, m <= k, NEW f, NEW g, Alike(f, g, m, k),
         NEW s \in Settings
  PROVE  Starts(Signals(f, s, AllFresh(f, s)), Signals(g, s, AllFresh(g, s)), m, k)
<1>1. s.slug \in Slugs
  BY StrategyAssumption DEF Slugs
<1>2. CASE s.slug = "supertrend_v6_pro"
  BY <1>2, SuperTrendSignalsPrefix DEF Signals
<1>3. CASE s.slug = "intraday_vwap_pullback"
  BY <1>3, VwapSignalsPrefix DEF Signals
<1>4. CASE s.slug = "swing_trend_pullback"
  BY <1>4, SwingSignalsPrefix DEF Signals
<1> QED BY <1>1, <1>2, <1>3, <1>4 DEF Slugs

-----------------------------------------------------------------------------
(* The rows of a frame with their signals, and once more with the signals  *)
(* computed of these rows: that changes nothing.                           *)
LEMMA WithSignalsIs ==
  ASSUME NEW f, NEW s \in Settings
  PROVE  WithSignals(f, s) = [i \in DOMAIN f |-> Row(f[i], Signals(f, s, AllFresh(f, s))[i])]
<1>1. ComputeIndicators(f, s, <<>>) = AllFresh(f, s)
  BY NothingKnown, FreshThroughCache DEF AllFresh
<1> QED BY <1>1 DEF WithSignals

LEMMA RowTwice ==
  ASSUME NEW c, NEW sig
  PROVE  SamePrices(c, Row(c, sig)) /\ Row(Row(c, sig), sig) = Row(c, sig)
BY DEF Row, SamePrices

(* A frame that has its signals gets the same ones when a candle follows.  *)
LEMMA NextRowKeepsSignals ==
  ASSUME NEW m \in Nat, NEW f, Series(f, m), NEW s \in Settings, f = WithSignals(f, s),
         NEW c, NEW g, Series(g, m + 1), \A i \in 1 .. m : g[i] = f[i], g[m + 1] = c,
         NEW h, Series(h, m + 1), \A i \in 1 .. m : h[i] = f[i],
         h[m + 1] = WithSignals(g, s)[m + 1]
  PROVE  h = WithSignals(h, s)
<1> DEFINE sig(x) == Signals(x, s, AllFresh(x, s))
<1>1. /\ WithSignals(f, s) = [i \in 1 .. m |-> Row(f[i], sig(f)[i])]
      /\ WithSignals(g, s) = [i \in 1 .. m + 1 |-> Row(g[i], sig(g)[i])]
      /\ WithSignals(h, s) = [i \in 1 .. m + 1 |-> Row(h[i], sig(h)[i])]
  <2>1. DOMAIN f = 1 .. m /\ DOMAIN g = 1 .. m + 1 /\ DOMAIN h = 1 .. m + 1
    BY DEF Series
  <2> HIDE DEF sig
  <2>2. \A x : WithSignals(x, s) = [i \in DOMAIN x |-> Row(x[i], sig(x)[i])]
    BY WithSignalsIs DEF sig
  <2> QED BY <2>1, <2>2
<1>2. h[m + 1] = Row(c, sig(g)[m + 1])
  BY <1>1
<1>3. Alike(f, h, m, m + 1)
  BY DEF Alike, SamePrices
<1>4. Alike(g, h, m + 1, m + 1)
  <2>1. \A i \in 1 .. m : SamePrices(g[i], h[i])
    BY DEF SamePrices
  <2>2. SamePrices(g[m + 1], h[m + 1])
    BY <1>2, RowTwice
  <2> QED BY <2>1, <2>2 DEF Alike
<1>5. Starts(sig(f), sig(h), m, m + 1) /\ Starts(sig(g), sig(h), m + 1, m + 1)
  BY <1>3, <1>4, SignalsPrefix
<1> HIDE DEF sig
<1>6. ASSUME NEW i \in 1 .. m
      PROVE  WithSignals(h, s)[i] = h[i]
  <2>1. f[i] = Row(f[i], sig(f)[i])
    BY <1>1
  <2>2. sig(f)[i] = sig(h)[i]
    BY <1>5 DEF Starts
  <2> QED BY <1>1, <2>1, <2>2
<1>7. WithSignals(h, s)[m + 1] = h[m + 1]
  <2>1. sig(g)[m + 1] = sig(h)[m + 1]
    BY <1>5 DEF Starts
  <2> QED BY <1>1, <1>2, <2>1, RowTwice
<1>8. Series(WithSignals(h, s), m + 1)
  BY <1>1 DEF Series
<1> DEFINE w == WithSignals(h, s)
<1>9. \A i \in 1 .. m + 1 : w[i] = h[i]
  <2> HIDE DEF w
  <2>1. \A i \in 1 .. m + 1 : i \in 1 .. m \/ i = m + 1
    OBVIOUS
  <2> QED BY <1>6, <1>7, <2>1 DEF w
<1> HIDE DEF w
<1>10. w = [i \in 1 .. m + 1 |-> w[i]]
  BY <1>8 DEF Series, w
<1>11. h = [i \in 1 .. m + 1 |-> h[i]]
  BY DEF Series
<1> QED BY <1>9, <1>10, <1>11 DEF w

\* g is f with c at its end.
Extends(g, f, m, c) == Series(g, m + 1) /\ g[m + 1] = c /\ \A i \in 1 .. m : g[i] = f[i]

LEMMA AppendExtends ==
  ASSUME NEW m \in Nat, NEW f, Series(f, m), NEW c
  PROVE  Extends(Append(f, c), f, m, c)
<1> DEFINE S == {f[i] : i \in 1 .. m} \cup {c}
<1>1. f \in [1 .. m -> S]
  BY DEF Series
<1>2. f \in Seq(S) /\ Len(f) = m /\ c \in S
  BY <1>1
<1> HIDE DEF S
<1>3. /\ Append(f, c) \in Seq(S) /\ Len(Append(f, c)) = m + 1
      /\ \A i \in 1 .. m : Append(f, c)[i] = f[i]
      /\ Append(f, c)[m + 1] = c
  BY <1>2
<1>4. Series(Append(f, c), m + 1)
  BY <1>3 DEF Series
<1> QED BY ONLY <1>3, <1>4 DEF Extends

LEMMA AppendIs ==
  ASSUME NEW m \in Nat, NEW f, Series(f, m), NEW c
  PROVE  /\ Series(Append(f, c), m + 1) /\ Append(f, c)[m + 1] = c
         /\ \A i \in 1 .. m : Append(f, c)[i] = f[i]
<1>1. Extends(Append(f, c), f, m, c)
  BY AppendExtends
<1> QED BY ONLY <1>1 DEF Extends

(* The rows of a run that has not failed are the ones a run over all of    *)
(* them makes.                                                             *)
SignalInv ==
  /\ settings = NaN => bars = <<>> /\ step = "open"
  /\ settings # NaN => settings \in Settings
  /\ Len(bars) \in Nat /\ Series(bars, Len(bars))
  /\ settings # NaN /\ step # "failed" => bars = WithSignals(bars, settings)

LEMMA EmptySignals ==
  ASSUME NEW s \in Settings
  PROVE  <<>> = WithSignals(<<>>, s)
<1>1. WithSignals(<<>>, s) = [i \in {} |-> Row(<<>>[i], Signals(<<>>, s, AllFresh(<<>>, s))[i])]
  BY WithSignalsIs
<1> QED BY <1>1

LEMMA EvaluateBarKeepsSignals ==
  ASSUME SignalInv, NEW c, EvaluateBar(c)
  PROVE  SignalInv'
<1>1. /\ settings # NaN /\ settings' = settings /\ step = "open" /\ step' = "intrabar"
      /\ bars' = Append(bars, WithSignals(Append(bars, c), settings)[Len(Append(bars, c))])
  BY DEF EvaluateBar, Engine!OpenBar
<1>2. PICK m : m = Len(bars) /\ m \in Nat /\ Series(bars, m)
  BY DEF SignalInv
<1>3. PICK g : g = Append(bars, c)
  OBVIOUS
<1>4. PICK h : h = Append(bars, WithSignals(g, settings)[Len(g)])
  OBVIOUS
<1>5. Series(g, m + 1) /\ g[m + 1] = c /\ \A i \in 1 .. m : g[i] = bars[i]
  BY <1>2, <1>3, AppendIs
<1>6. Len(g) = m + 1
  BY <1>2, <1>5 DEF Series
<1>7. /\ Series(h, m + 1) /\ \A i \in 1 .. m : h[i] = bars[i]
      /\ h[m + 1] = WithSignals(g, settings)[m + 1]
  BY <1>2, <1>4, <1>6, AppendIs
<1>8. settings \in Settings /\ bars = WithSignals(bars, settings)
  BY <1>1 DEF SignalInv
<1>9. h = WithSignals(h, settings)
  BY <1>2, <1>5, <1>7, <1>8, NextRowKeepsSignals
<1>10. Len(h) = m + 1
  BY <1>2, <1>7 DEF Series
<1>11. bars' = h
  BY <1>1, <1>3, <1>4
<1>12. Len(bars') \in Nat /\ Series(bars', Len(bars'))
  BY <1>2, <1>7, <1>10, <1>11
<1>13. bars' = WithSignals(bars', settings')
  BY <1>1, <1>9, <1>11
<1> QED BY <1>1, <1>8, <1>12, <1>13 DEF SignalInv

LEMMA OthersKeepSignals ==
  ASSUME SignalInv, [StrategyNext]_strategyVars, ~\E c \in Shapes : EvaluateBar(c)
  PROVE  SignalInv'
<1>1. ASSUME NEW s \in Settings, StartReplay(s) PROVE SignalInv'
  <2>1. bars = <<>> /\ bars' = bars /\ settings' = s /\ step = "open" /\ step' = step
    BY <1>1 DEF StartReplay, SignalInv, replayVars
  <2>2. bars' = WithSignals(bars', settings')
    BY <2>1, EmptySignals
  <2> QED BY <2>1, <2>2 DEF SignalInv
<1>2. ASSUME NEW c \in Shapes, EvaluationRaises(c) PROVE SignalInv'
  <2>1. bars' = <<>> /\ settings' = settings /\ settings # NaN /\ step' = "failed"
    BY <1>2 DEF EvaluationRaises
  <2>2. Len(<<>>) = 0 /\ Series(<<>>, 0)
    BY DEF Series
  <2> QED BY <2>1, <2>2 DEF SignalInv
<1>3. CASE ReplayStep
  <2>1. bars' = bars /\ settings' = settings /\ settings # NaN /\ step # "failed"
    BY <1>3 DEF ReplayStep, Engine!CheckLevels, Engine!MarkToMarket, Engine!ForceClose
  <2> QED BY <2>1 DEF SignalInv
<1>4. ASSUME NEW s \in Settings, NEW i \in DOMAIN Frames, Evaluate(s, i) PROVE SignalInv'
  BY <1>4 DEF Evaluate, SignalInv, replayVars
<1>5. CASE UNCHANGED strategyVars
  BY <1>5 DEF strategyVars, replayVars, SignalInv
<1> QED BY <1>1, <1>2, <1>3, <1>4, <1>5 DEF StrategyNext

LEMMA SignalInductive == Spec => []SignalInv
<1>1. Init => SignalInv
  <2>1. Len(<<>>) = 0 /\ Series(<<>>, 0)
    BY DEF Series
  <2> QED BY <2>1 DEF Init, StrategyInit, Engine!Init, SignalInv
<1>2. SignalInv /\ [Next]_vars => SignalInv'
  <2>1. [Next]_vars => [StrategyNext]_strategyVars
    BY DEF Next, vars
  <2>2. ASSUME SignalInv, NEW c \in Shapes, EvaluateBar(c) PROVE SignalInv'
    BY <2>2, EvaluateBarKeepsSignals
  <2> QED BY <2>1, <2>2, OthersKeepSignals
<1> QED BY <1>1, <1>2, PTL DEF Spec

(* No look-ahead: whatever the candles, the strategy and its parameters,   *)
(* a bar keeps the signals it got when it was the last one.                *)
THEOREM NoLookAhead == Spec => []SignalsIgnoreTheFuture
<1>1. SignalInv => SignalsIgnoreTheFuture
  <2> SUFFICES ASSUME SignalInv, step = "intrabar" PROVE bars = WithSignals(bars, settings)
    BY DEF SignalsIgnoreTheFuture
  <2>1. settings # NaN
    BY DEF SignalInv
  <2> QED BY <2>1 DEF SignalInv
<1> QED BY <1>1, SignalInductive, PTL

-----------------------------------------------------------------------------
(* Euclid's recursion up to a second argument of k.                        *)
EuclidAt(g, a, b) == g[<<a, b>>] = IF b = 0 THEN a ELSE g[<<b, a % b>>]

Euclid(g, k) ==
  g \in [Nat \X (0 .. k) -> Nat] /\ \A a \in Nat, b \in 0 .. k : EuclidAt(g, a, b)

HasEuclid(k) == \E g : Euclid(g, k)

LEMMA Remainder ==
  ASSUME NEW a \in Nat, NEW b \in Nat \ {0}
  PROVE  a % b \in 0 .. b - 1 /\ a \div b \in Nat /\ a = (a \div b) * b + (a % b)
OBVIOUS

LEMMA EuclidExists ==
  ASSUME NEW n \in Nat
  PROVE  HasEuclid(n)
<1>1. HasEuclid(0)
  <2> DEFINE g == [p \in Nat \X (0 .. 0) |-> p[1]]
  <2>1. Euclid(g, 0)
    BY DEF Euclid, EuclidAt
  <2> QED BY <2>1 DEF HasEuclid
<1>2. ASSUME NEW k \in 1 .. n, HasEuclid(k - 1) PROVE HasEuclid(k)
  <2>1. PICK g : Euclid(g, k - 1)
    BY <1>2 DEF HasEuclid
  <2> DEFINE h == [p \in Nat \X (0 .. k) |-> IF p[2] < k THEN g[p] ELSE g[<<k, p[1] % k>>]]
  <2>2. ASSUME NEW a \in Nat, NEW b \in 0 .. k - 1 PROVE h[<<a, b>>] = g[<<a, b>>]
    OBVIOUS
  <2>3. ASSUME NEW a \in Nat PROVE h[<<a, k>>] = g[<<k, a % k>>]
    OBVIOUS
  <2>4. h = [p \in Nat \X (0 .. k) |-> h[p]]
    OBVIOUS
  <2> HIDE DEF h
  <2>5. ASSUME NEW a \in Nat, NEW b \in 0 .. k - 1
        PROVE  g[<<a, b>>] \in Nat /\ EuclidAt(g, a, b)
    BY <2>1 DEF Euclid
  <2>6. ASSUME NEW a \in Nat PROVE a % k \in 0 .. k - 1 /\ k \in Nat \ {0}
    BY Remainder
  <2>7. ASSUME NEW a \in Nat, NEW b \in 0 .. k PROVE h[<<a, b>>] \in Nat
    <3>1. CASE b \in 0 .. k - 1
      BY <2>2, <2>5, <3>1
    <3>2. CASE b = k
      BY <2>3, <2>5, <2>6, <3>2
    <3> QED BY <3>1, <3>2
  <2>8. ASSUME NEW a \in Nat, NEW b \in 0 .. k
        PROVE  EuclidAt(h, a, b)
    <3>1. CASE b = 0
      <4>1. EuclidAt(g, a, 0) /\ h[<<a, 0>>] = g[<<a, 0>>]
        BY <2>2, <2>5
      <4> QED BY <3>1, <4>1 DEF EuclidAt
    <3>2. CASE b \in 1 .. k - 1
      <4>1. a % b \in 0 .. k - 1 /\ b \in Nat /\ b \in 0 .. k - 1
        BY <3>2, Remainder
      <4>2. h[<<a, b>>] = g[<<a, b>>] /\ h[<<b, a % b>>] = g[<<b, a % b>>]
        BY <2>2, <3>2, <4>1
      <4>3. EuclidAt(g, a, b)
        BY <2>5, <4>1
      <4> QED BY <3>2, <4>2, <4>3 DEF EuclidAt
    <3>3. CASE b = k
      <4>1. h[<<a, k>>] = g[<<k, a % k>>] /\ h[<<k, a % k>>] = g[<<k, a % k>>]
        BY <2>2, <2>3, <2>6
      <4> QED BY <2>6, <3>3, <4>1 DEF EuclidAt
    <3> QED BY <3>1, <3>2, <3>3
  <2>9. h \in [Nat \X (0 .. k) -> Nat]
    <3>1. \A p \in Nat \X (0 .. k) : h[p] \in Nat
      BY <2>7
    <3> QED BY <2>4, <3>1
  <2>10. Euclid(h, k)
    BY <2>8, <2>9 DEF Euclid
  <2> QED BY <2>10 DEF HasEuclid
<1> DEFINE S == {k \in 0 .. n : HasEuclid(k)}
<1>3. n \in S
  <2>1. 0 \in S /\ \A k \in 1 .. n : k - 1 \in S => k \in S
    BY <1>1, <1>2
  <2> HIDE DEF S
  <2>2. \A k \in 0 .. n : k \in S
    BY <2>1, Induct
  <2> QED BY <2>2
<1> QED BY <1>3

LEMMA EuclidsAgree ==
  ASSUME NEW k \in Nat, NEW m \in Nat, k <= m, NEW g, Euclid(g, k), NEW h, Euclid(h, m)
  PROVE  \A a \in Nat, b \in 0 .. k : g[<<a, b>>] = h[<<a, b>>]
<1> DEFINE S == {j \in 0 .. k : \A b \in 0 .. j : \A a \in Nat : g[<<a, b>>] = h[<<a, b>>]}
<1>1. ASSUME NEW a \in Nat, NEW b \in 0 .. k PROVE EuclidAt(g, a, b) /\ EuclidAt(h, a, b)
  BY DEF Euclid
<1>2. 0 \in S
  <2>1. ASSUME NEW a \in Nat PROVE g[<<a, 0>>] = h[<<a, 0>>]
    <3>1. EuclidAt(g, a, 0) /\ EuclidAt(h, a, 0)
      BY <1>1
    <3> QED BY <3>1 DEF EuclidAt
  <2> QED BY <2>1
<1>3. ASSUME NEW j \in 1 .. k, j - 1 \in S PROVE j \in S
  <2> SUFFICES ASSUME NEW b \in 0 .. j, NEW a \in Nat PROVE g[<<a, b>>] = h[<<a, b>>]
    OBVIOUS
  <2>1. CASE b < j
    BY <1>3, <2>1
  <2>2. CASE b = j
    <3>1. a % b \in 0 .. j - 1
      BY <2>2, Remainder
    <3>2. g[<<b, a % b>>] = h[<<b, a % b>>]
      BY <1>3, <3>1
    <3>3. EuclidAt(g, a, b) /\ EuclidAt(h, a, b)
      BY <1>1
    <3>4. g[<<a, b>>] = g[<<b, a % b>>] /\ h[<<a, b>>] = h[<<b, a % b>>]
      BY <2>2, <3>3 DEF EuclidAt
    <3> QED BY <3>2, <3>4
  <2> QED BY <2>1, <2>2
<1>4. k \in S
  <2>1. \A j \in 1 .. k : j - 1 \in S => j \in S
    BY <1>3
  <2> HIDE DEF S
  <2>2. \A j \in 0 .. k : j \in S
    BY <1>2, <2>1, Induct
  <2> QED BY <2>2
<1> QED BY <1>4

GcdAt(a, b) == gcd[<<a, b>>] = IF b = 0 THEN a ELSE gcd[<<b, a % b>>]

LEMMA GcdIs ==
  /\ gcd = [p \in Nat \X Nat |-> gcd[p]]
  /\ \A a \in Nat, b \in Nat : GcdAt(a, b)
<1> DEFINE g(k) == CHOOSE h : Euclid(h, k)
           f == [p \in Nat \X Nat |-> g(p[2])[p]]
           Recursion(h) == h = [p \in Nat \X Nat |-> IF p[2] = 0 THEN p[1] ELSE h[<<p[2], p[1] % p[2]>>]]
<1>1. \A k \in Nat : Euclid(g(k), k)
  BY EuclidExists DEF HasEuclid
<1>2. \A a \in Nat, b \in Nat : f[<<a, b>>] = g(b)[<<a, b>>]
  OBVIOUS
<1>3. f = [p \in Nat \X Nat |-> f[p]]
  OBVIOUS
<1> HIDE DEF g, f
<1>4. ASSUME NEW a \in Nat, NEW b \in Nat
      PROVE  f[<<a, b>>] = IF b = 0 THEN a ELSE f[<<b, a % b>>]
  <2>1. EuclidAt(g(b), a, b)
    <3>1. Euclid(g(b), b) /\ b \in 0 .. b
      BY <1>1
    <3> QED BY <3>1 DEF Euclid
  <2>2. CASE b = 0
    BY <1>2, <2>1, <2>2 DEF EuclidAt
  <2>3. CASE b # 0
    <3>1. a % b \in 0 .. b - 1 /\ a % b \in Nat /\ a % b <= b
      BY <2>3, Remainder
    <3>2. PICK c \in Nat : c = a % b /\ c <= b
      BY <3>1
    <3>3. g(c)[<<b, c>>] = g(b)[<<b, c>>]
      BY <1>1, <3>2, EuclidsAgree
    <3> QED BY <1>2, <2>1, <2>3, <3>2, <3>3 DEF EuclidAt
  <2> QED BY <2>2, <2>3
<1>5. Recursion(f)
  <2>1. \A p \in Nat \X Nat : f[p] = IF p[2] = 0 THEN p[1] ELSE f[<<p[2], p[1] % p[2]>>]
    BY <1>4
  <2> QED BY <1>3, <2>1
<1>6. Recursion(gcd)
  <2>1. gcd = CHOOSE h : Recursion(h)
    BY DEF gcd
  <2> HIDE DEF Recursion
  <2> QED BY <1>5, <2>1
<1>7. gcd = [p \in Nat \X Nat |-> gcd[p]]
  BY <1>6
<1>8. ASSUME NEW a \in Nat, NEW b \in Nat PROVE GcdAt(a, b)
  BY <1>6 DEF GcdAt
<1> QED BY <1>7, <1>8

(* The greatest common divisor divides both numbers.                       *)
Divides(g, a, b) ==
  g \in Nat \ {0} /\ \E u \in Nat, v \in Nat : a = u * g /\ b = v * g

LEMMA GcdDivides ==
  ASSUME NEW n \in Nat \ {0}, NEW a \in Nat
  PROVE  Divides(gcd[<<a, n>>], a, n)
<1> DEFINE S == {k \in 0 .. n : \A b \in 1 .. k : \A c \in Nat : Divides(gcd[<<c, b>>], c, b)}
<1>1. 0 \in S
  OBVIOUS
<1>2. ASSUME NEW k \in 1 .. n, k - 1 \in S PROVE k \in S
  <2> SUFFICES ASSUME NEW b \in 1 .. k, NEW c \in Nat PROVE Divides(gcd[<<c, b>>], c, b)
    OBVIOUS
  <2>1. CASE b \in 1 .. k - 1
    BY <1>2, <2>1
  <2>2. CASE b = k
    <3> DEFINE r == c % b
               q == c \div b
    <3>1. b \in Nat \ {0} /\ r \in 0 .. b - 1 /\ q \in Nat /\ c = q * b + r
      BY Remainder
    <3>2. gcd[<<c, b>>] = gcd[<<b, r>>]
      <4>1. GcdAt(c, b)
        BY GcdIs
      <4> QED BY <3>1, <4>1 DEF GcdAt
    <3>3. CASE r = 0
      <4>1. GcdAt(b, 0)
        BY GcdIs
      <4>2. gcd[<<c, b>>] = b
        BY <3>2, <3>3, <4>1 DEF GcdAt
      <4>3. c = q * b /\ b = 1 * b /\ b \in Nat \ {0}
        BY <3>1, <3>3
      <4> QED BY <4>2, <4>3 DEF Divides
    <3>4. CASE r \in 1 .. k - 1
      <4>1. Divides(gcd[<<b, r>>], b, r)
        BY <1>2, <3>4
      <4>2. PICK g \in Nat \ {0}, u \in Nat, v \in Nat : g = gcd[<<b, r>>] /\ b = u * g /\ r = v * g
        BY <4>1 DEF Divides
      <4>3. c = (q * u + v) * g
        BY <3>1, <4>2
      <4>4. q * u + v \in Nat
        BY <4>2
      <4> QED BY <3>2, <4>2, <4>3, <4>4 DEF Divides
    <3> QED BY <2>2, <3>1, <3>3, <3>4
  <2> QED BY <2>1, <2>2
<1>3. n \in S
  <2>1. \A k \in 1 .. n : k - 1 \in S => k \in S
    BY <1>2
  <2> HIDE DEF S
  <2>2. \A k \in 0 .. n : k \in S
    BY <1>1, <2>1, Induct
  <2> QED BY <2>2
<1> QED BY <1>3

(* Lowest terms are terms of the same fraction.                            *)
LEMMA LowestIsSame ==
  ASSUME NEW q \in Proper
  PROVE  Lowest(q) \in Proper /\ Same(Lowest(q), q)
<1>1. PICK s \in Nat, b \in Nat \ {0} :
        s = (IF q[1] < 0 THEN -q[1] ELSE q[1]) /\ b = q[2]
  BY DEF Proper
<1>2. Divides(gcd[<<s, b>>], s, b)
  BY GcdDivides
<1>3. PICK g \in Nat \ {0}, u \in Nat, v \in Nat : g = gcd[<<s, b>>] /\ s = u * g /\ b = v * g
  BY <1>2 DEF Divides
<1>4. s \div g = u /\ b \div g = v
  BY <1>3
<1>5. Lowest(q) = <<(IF q[1] < 0 THEN -1 ELSE 1) * u, v>>
  BY <1>1, <1>3, <1>4 DEF Lowest
<1>6. v # 0
  BY <1>3
<1>7. CASE q[1] < 0
  <2>1. Lowest(q) = <<-u, v>>
    BY <1>5, <1>7
  <2>2. q[1] = -(u * g) /\ q[2] = v * g
    BY <1>1, <1>3, <1>7 DEF Proper
  <2> QED BY <1>6, <2>1, <2>2 DEF Proper, Same
<1>8. CASE ~(q[1] < 0)
  <2>1. Lowest(q) = <<u, v>>
    BY <1>5, <1>8
  <2>2. q[1] = u * g /\ q[2] = v * g
    BY <1>1, <1>3, <1>8
  <2> QED BY <1>6, <2>1, <2>2 DEF Proper, Same
<1> QED BY <1>7, <1>8

-----------------------------------------------------------------------------
(* A value is a fraction with a positive denominator, never NaN.           *)
LEMMA ProperIsNoNaN ==
  ASSUME NEW x \in Proper
  PROVE  x # NaN
BY NaNAssumption DEF Proper

LEMMA WholeType ==
  ASSUME NEW n \in Int
  PROVE  Whole(n) \in Proper
BY DEF Whole, Proper

LEMMA ScaleType ==
  ASSUME NEW k \in Proper, NEW x \in Proper
  PROVE  Scale(k, x) \in Proper /\ Same(Scale(k, x), Times(k, x))
<1>1. Times(k, x) \in Proper
  BY DEF Proper, Times
<1> QED BY <1>1, LowestIsSame, ProperIsNoNaN DEF Scale

LEMMA SumTypes ==
  ASSUME NEW x \in Proper, NEW y \in Proper
  PROVE  Add(x, y) \in Proper /\ Subtract(x, y) \in Proper
<1>1. Plus(x, y) \in Proper /\ Minus(x, y) \in Proper
  BY DEF Proper, Plus, Minus
<1>2. NaN \notin {x, y}
  BY ProperIsNoNaN
<1> QED BY <1>1, <1>2, LowestIsSame DEF Add, Subtract

LEMMA NaNSpreads ==
  ASSUME NEW x
  PROVE  Add(x, NaN) = NaN /\ Subtract(x, NaN) = NaN /\ Scale(x, NaN) = NaN
BY DEF Add, Subtract, Scale

(* The mean of a series without gaps has a value from the last bar of the  *)
(* first period on.                                                        *)
LEMMA EwmValues ==
  ASSUME NEW n \in Nat, NEW xs, Series(xs, n), \A i \in 1 .. n : xs[i] \in Proper,
         NEW alpha \in Proper, NEW periods \in Nat \ {0}, NEW i \in 1 .. n
  PROVE  IF i < periods THEN Ewm(xs, alpha, periods)[i] = NaN
                        ELSE Ewm(xs, alpha, periods)[i] \in Proper
<1> DEFINE zs == Ewm(xs, alpha, periods)
<1>1. \E first \in 1 .. n + 1 : \E g : EwmBy(zs, first, g, n, xs, alpha, periods)
  BY EwmIs
<1> HIDE DEF zs
<1>2. PICK first \in 1 .. n + 1 : \E g : EwmBy(zs, first, g, n, xs, alpha, periods)
  BY <1>1
<1>3. PICK g : EwmBy(zs, first, g, n, xs, alpha, periods)
  BY <1>2
<1>4. first = 1
  <2>1. xs[1] # NaN
    BY ProperIsNoNaN
  <2> QED BY <1>3, <2>1 DEF EwmBy, Begins
<1> DEFINE S == {j \in 0 .. n : j > 0 => g[j] \in Proper}
<1>5. ASSUME NEW j \in 1 .. n, j - 1 \in S PROVE j \in S
  <2>1. g[j] = IF j <= 1 THEN xs[j]
               ELSE Add(Scale(alpha, xs[j]), Scale(Minus(One, alpha), g[j - 1]))
    BY <1>3, <1>4 DEF EwmBy, Means
  <2>2. CASE j = 1
    BY <2>1, <2>2
  <2>3. CASE j > 1
    <3>1. g[j - 1] \in Proper
      BY <1>5, <2>3
    <3>2. Minus(One, alpha) \in Proper
      BY DEF Proper, Minus, One
    <3>3. Add(Scale(alpha, xs[j]), Scale(Minus(One, alpha), g[j - 1])) \in Proper
      BY <3>1, <3>2, ScaleType, SumTypes
    <3> QED BY <2>1, <2>3, <3>3
  <2> QED BY <2>2, <2>3
<1>6. \A j \in 0 .. n : j \in S
  <2>1. 0 \in S /\ \A j \in 1 .. n : j - 1 \in S => j \in S
    BY <1>5
  <2> HIDE DEF S
  <2> QED BY <2>1, Induct
<1>7. zs[i] = IF i < 1 + periods - 1 THEN NaN ELSE g[i]
  BY <1>3, <1>4 DEF EwmBy
<1>8. g[i] \in Proper
  BY <1>6
<1> QED BY <1>7, <1>8 DEF zs

(* The candles of a frame have prices.                                     *)
Prices(f, n) ==
  Series(f, n) /\ \A i \in 1 .. n : f[i].high \in Int /\ f[i].low \in Int /\ f[i].close \in Int

LEMMA AtrValues ==
  ASSUME NEW n \in Nat, NEW f, Prices(f, n), NEW period \in Nat \ {0}, NEW i \in 1 .. n
  PROVE  IF i < period THEN Atr(f, period)[i] = NaN ELSE Atr(f, period)[i] \in Proper
<1>1. DOMAIN f = 1 .. n
  BY DEF Prices, Series
<1>2. ASSUME NEW j \in 1 .. n PROVE TrueRange(f)[j] \in Proper
  <2> DEFINE prev == IF j = 1 THEN {} ELSE {f[j - 1].close}
  <2>1. prev = {} \/ \E x \in Int : prev = {x}
    BY DEF Prices
  <2>2. ASSUME NEW a \in Int PROVE Max({a} \cup prev) \in Int /\ Min({a} \cup prev) \in Int
    <3>1. CASE prev = {}
      <4>1. {a} \cup prev = {a}
        BY <3>1
      <4>2. Max({a}) = a /\ Min({a}) = a
        BY DEF Max, Min
      <4> QED BY <4>1, <4>2
    <3>2. ASSUME NEW x \in Int, prev = {x} PROVE Max({a} \cup prev) \in Int /\ Min({a} \cup prev) \in Int
      <4>1. {a} \cup prev = {a, x}
        BY <3>2
      <4>2. \E y \in {a, x} : \A z \in {a, x} : y >= z
        OBVIOUS
      <4>3. \E y \in {a, x} : \A z \in {a, x} : y <= z
        OBVIOUS
      <4>4. Max({a, x}) \in {a, x}
        BY <4>2 DEF Max
      <4>5. Min({a, x}) \in {a, x}
        BY <4>3 DEF Min
      <4> QED BY <4>1, <4>4, <4>5
    <3> QED BY <2>1, <3>1, <3>2
  <2>3. TrueRange(f)[j] = Whole(Max({f[j].high} \cup prev) - Min({f[j].low} \cup prev))
    BY <1>1 DEF TrueRange
  <2>4. f[j].high \in Int /\ f[j].low \in Int
    BY DEF Prices
  <2>5. PICK hi \in Int, lo \in Int :
          hi = Max({f[j].high} \cup prev) /\ lo = Min({f[j].low} \cup prev)
    <3> HIDE DEF prev
    <3> QED BY <2>2, <2>4
  <2> HIDE DEF prev
  <2>6. TrueRange(f)[j] = Whole(hi - lo)
    BY <2>3, <2>5
  <2> QED BY <2>6, WholeType
<1>3. Series(TrueRange(f), n)
  BY <1>1 DEF TrueRange, Series
<1>4. <<1, period>> \in Proper
  BY DEF Proper
<1> QED BY <1>2, <1>3, <1>4, EwmValues DEF Atr, Wilder

(* The bands of a SuperTrend have values where its average true range has  *)
(* one, and without them the direction is up.                              *)
Banded(row, atr) ==
  /\ atr = NaN <=> row.long = NaN
  /\ atr = NaN <=> row.short = NaN
  /\ row.dir \in {1, -1} /\ (row.dir = -1 => atr # NaN)

LEMMA RowIsBanded ==
  ASSUME NEW n \in Nat, NEW f, Prices(f, n), NEW atr, NEW multiplier \in Proper, NEW wicks,
         NEW i \in 1 .. n, atr[i] = NaN \/ atr[i] \in Proper, NEW before,
         i > 1 => Banded(before, atr[i - 1]) /\ (atr[i - 1] # NaN => atr[i] # NaN)
  PROVE  Banded(SuperTrendRow(f, atr, multiplier, wicks, i, before), atr[i])
<1> DEFINE top(j) == Whole(IF wicks THEN f[j].high ELSE f[j].close)
           low(j) == Whole(IF wicks THEN f[j].low ELSE f[j].close)
           hl2    == <<f[i].high + f[i].low, 2>>
           under  == Subtract(hl2, Scale(multiplier, atr[i]))
           over   == Add(hl2, Scale(multiplier, atr[i]))
           long   == IF before.long = NaN THEN under ELSE before.long
           short  == IF before.short = NaN THEN over ELSE before.short
           newLong  == IF Above(low(i - 1), long) THEN Higher(under, long) ELSE under
           newShort == IF Above(short, top(i - 1)) THEN Lower(over, short) ELSE over
           newDir == IF before.dir = -1 /\ Above(top(i), short) THEN 1
                     ELSE IF before.dir = 1 /\ Above(long, low(i)) THEN -1 ELSE before.dir
           row    == SuperTrendRow(f, atr, multiplier, wicks, i, before)
<1>1. hl2 \in Proper
  BY DEF Prices, Proper
<1>2. (atr[i] = NaN <=> under = NaN) /\ (atr[i] = NaN <=> over = NaN)
  <2>1. CASE atr[i] = NaN
    BY <2>1, NaNSpreads
  <2>2. CASE atr[i] \in Proper
    <3>1. Scale(multiplier, atr[i]) \in Proper
      BY <2>2, ScaleType
    <3>2. under \in Proper /\ over \in Proper
      BY <1>1, <3>1, SumTypes
    <3> QED BY <2>2, <3>2, ProperIsNoNaN
  <2> QED BY <2>1, <2>2
<1>3. row = IF i = 1 THEN [long |-> under, short |-> over, dir |-> 1]
            ELSE [long |-> newLong, short |-> newShort, dir |-> newDir]
  BY DEF SuperTrendRow
<1> HIDE DEF row, under, over, top, low
<1>4. CASE i = 1
  BY <1>2, <1>3, <1>4 DEF Banded, row
<1>5. CASE i > 1
  <2>1. (long = NaN => atr[i] = NaN) /\ (short = NaN => atr[i] = NaN)
    BY <1>2, <1>5 DEF Banded
  <2>2. (atr[i] = NaN => long = NaN) /\ (atr[i] = NaN => short = NaN)
    BY <1>2, <1>5 DEF Banded
  <2>3. newLong \in {under, long} /\ newShort \in {over, short}
    BY DEF Higher, Lower
  <2>4. newDir \in {1, -1} /\ (newDir = -1 => before.dir = -1 \/ long # NaN)
    BY <1>5 DEF Banded, Above
  <2>5. before.dir = -1 => atr[i] # NaN
    BY <1>5 DEF Banded
  <2>6. row.long = newLong /\ row.short = newShort /\ row.dir = newDir
    BY <1>3, <1>5
  <2> HIDE DEF newLong, newShort, newDir, long, short
  <2> QED BY <1>2, <2>1, <2>2, <2>3, <2>4, <2>5, <2>6 DEF Banded, row
<1> QED BY <1>4, <1>5

LEMMA RowsAreBanded ==
  ASSUME NEW n \in Nat, NEW f, Prices(f, n), NEW period \in Nat \ {0},
         NEW multiplier \in Proper, NEW wicks, NEW i \in 1 .. n
  PROVE  Banded(SuperTrend(f, Atr(f, period), multiplier, wicks)[i], Atr(f, period)[i])
<1> DEFINE atr == Atr(f, period)
           r   == SuperTrend(f, atr, multiplier, wicks)
           S   == {j \in 0 .. n : j > 0 => Banded(r[j], atr[j])}
<1>1. Rows(r, n, f, atr, multiplier, wicks)
  BY SuperTrendIs DEF Prices
<1>2. \A j \in 1 .. n : IF j < period THEN atr[j] = NaN ELSE atr[j] \in Proper
  BY AtrValues
<1> HIDE DEF atr, r
<1>3. ASSUME NEW j \in 1 .. n, j - 1 \in S PROVE j \in S
  <2> DEFINE before == IF j = 1 THEN NaN ELSE r[j - 1]
  <2>1. r[j] = SuperTrendRow(f, atr, multiplier, wicks, j, before)
    BY <1>1 DEF Rows
  <2>2. atr[j] = NaN \/ atr[j] \in Proper
    BY <1>2
  <2>3. j > 1 => Banded(before, atr[j - 1]) /\ (atr[j - 1] # NaN => atr[j] # NaN)
    <3> SUFFICES ASSUME j > 1 PROVE Banded(before, atr[j - 1]) /\ (atr[j - 1] # NaN => atr[j] # NaN)
      OBVIOUS
    <3>1. Banded(before, atr[j - 1])
      BY <1>3
    <3>2. atr[j - 1] # NaN => ~(j - 1 < period)
      BY <1>2
    <3>3. ~(j < period) => atr[j] \in Proper
      BY <1>2
    <3> QED BY <3>1, <3>2, <3>3, ProperIsNoNaN
  <2> HIDE DEF before
  <2>4. Banded(r[j], atr[j])
    BY <2>1, <2>2, <2>3, RowIsBanded
  <2> QED BY <2>4
<1>4. \A j \in 0 .. n : j \in S
  <2>1. 0 \in S /\ \A j \in 1 .. n : j - 1 \in S => j \in S
    BY <1>3
  <2> HIDE DEF S
  <2> QED BY <2>1, Induct
<1> QED BY <1>4 DEF atr, r

\* The prices the SuperTrend holds against its bands.
TopPrice(f, wicks, x) == Whole(IF wicks THEN f[x].high ELSE f[x].close)
LowPrice(f, wicks, x) == Whole(IF wicks THEN f[x].low ELSE f[x].close)

(* The direction turns where the price breaks the band of the bar before.  *)
LEMMA RowTurns ==
  ASSUME NEW n \in Nat, NEW f, NEW atr, NEW multiplier, NEW wicks, NEW r,
         Rows(r, n, f, atr, multiplier, wicks), NEW x \in 2 .. n,
         Banded(r[x - 1], atr[x - 1])
  PROVE  /\ r[x].dir = 1 /\ r[x - 1].dir = -1 => Above(TopPrice(f, wicks, x), r[x - 1].short)
         /\ r[x - 1].dir = 1 /\ atr[x - 1] # NaN =>
              (r[x].dir = -1 <=> Above(r[x - 1].long, LowPrice(f, wicks, x)))
<1> DEFINE before == r[x - 1]
           hl2    == <<f[x].high + f[x].low, 2>>
           long   == IF before.long = NaN THEN Subtract(hl2, Scale(multiplier, atr[x])) ELSE before.long
           short  == IF before.short = NaN THEN Add(hl2, Scale(multiplier, atr[x])) ELSE before.short
<1>1. r[x] = SuperTrendRow(f, atr, multiplier, wicks, x, before)
  BY DEF Rows
<1> HIDE DEF before
<1>2. r[x].dir = IF before.dir = -1 /\ Above(TopPrice(f, wicks, x), short) THEN 1
                 ELSE IF before.dir = 1 /\ Above(long, LowPrice(f, wicks, x)) THEN -1 ELSE before.dir
  BY <1>1 DEF SuperTrendRow, TopPrice, LowPrice
<1>3. /\ before.dir = -1 => short = before.short
      /\ atr[x - 1] # NaN => long = before.long
  BY DEF Banded, before
<1> HIDE DEF long, short
<1> QED BY <1>2, <1>3 DEF before

(* A frame with its signals, and a stretch of it: entered on a signal and  *)
(* without an exit signal before its last bar.                             *)
Stretch(f, e, last) ==
  f[e - 1].enter /\ \A x \in e - 1 .. last - 1 : ~f[x].leave

LEMMA SignalFields ==
  ASSUME NEW a, NEW b, NEW t, NEW u, NEW v, v = Signal(a, b, t, u)
  PROVE  v.enter = a /\ v.leave = b /\ v.trend = u
BY DEF Signal

LEMMA SuperTrendColumns ==
  ASSUME NEW n \in Nat, NEW f, Prices(f, n), NEW s \in Settings, s.slug = "supertrend_v6_pro",
         f = WithSignals(f, s), NEW st, st = SuperTrend(f, Atr(f, s.atr_period), s.atr_multiplier, s.use_wicks),
         NEW x \in 1 .. n
  PROVE  /\ f[x].trend = st[x]
         /\ f[x].enter => x > 1 /\ st[x].dir = 1 /\ st[x - 1].dir = -1
         /\ f[x].leave <=> x > 1 /\ st[x].dir = -1 /\ st[x - 1].dir = 1
<1>1. Names(s) = {"atr", "supertrend", "dmi", "rsi"}
  BY DEF Names
<1>2. AllFresh(f, s)["supertrend"] = st
  BY <1>1 DEF AllFresh, Fresh, Compute
<1>3. Rows(st, n, f, Atr(f, s.atr_period), s.atr_multiplier, s.use_wicks)
  BY SuperTrendIs DEF Prices
<1>4. DOMAIN st = 1 .. n
  BY <1>3 DEF Rows
<1> DEFINE turns(to) == x > 1 /\ st[x].dir = to /\ st[x - 1].dir = -to
           adxOk == s.use_adx_filter => AtLeast(AllFresh(f, s)["dmi"][x], s.adx_min)
           rsiOk == s.use_rsi_filter => AtLeast(AllFresh(f, s)["rsi"][x], s.rsi_min_long)
           sig == SuperTrendSignals(s, AllFresh(f, s))
<1>5. sig[x] = Signal(turns(1) /\ s.trade_mode \in {"Both", "Long only"} /\ adxOk /\ rsiOk,
                      turns(-1), NaN, st[x])
  BY <1>2, <1>4 DEF SuperTrendSignals
<1>6. f[x] = Row(f[x], sig[x])
  <2>1. f = [i \in DOMAIN f |-> Row(f[i], Signals(f, s, AllFresh(f, s))[i])]
    BY WithSignalsIs
  <2>2. Signals(f, s, AllFresh(f, s)) = sig
    BY DEF Signals
  <2>3. x \in DOMAIN f
    BY DEF Prices, Series
  <2> HIDE DEF sig
  <2> QED BY <2>1, <2>2, <2>3
<1> HIDE DEF sig, adxOk, rsiOk
<1>7. f[x].trend = sig[x].trend /\ f[x].enter = sig[x].enter /\ f[x].leave = sig[x].leave
  <2> DEFINE c == sig[x]
  <2>1. f[x] = Row(f[x], c)
    BY <1>6
  <2> HIDE DEF c
  <2>2. f[x].trend = c.trend /\ f[x].enter = c.enter /\ f[x].leave = c.leave
    BY <2>1 DEF Row
  <2> QED BY <2>2 DEF c
<1> DEFINE enters == turns(1) /\ s.trade_mode \in {"Both", "Long only"} /\ adxOk /\ rsiOk
           leaves == turns(-1)
<1>8. sig[x] = Signal(enters, leaves, NaN, st[x])
  BY <1>5, Zenon
<1>9. sig[x].trend = st[x] /\ sig[x].enter = enters /\ sig[x].leave = leaves
  <2> HIDE DEF enters, leaves
  <2>1. PICK a, b : a = enters /\ b = leaves
    BY Zenon
  <2>2. sig[x] = Signal(a, b, NaN, st[x])
    BY <1>8, <2>1, Zenon
  <2>3. sig[x].enter = a /\ sig[x].leave = b /\ sig[x].trend = st[x]
    BY <2>2, SignalFields
  <2> QED BY <2>1, <2>3, Zenon
<1>10. f[x].enter = enters /\ f[x].leave = leaves
  BY <1>7, <1>9, Zenon
<1>11. (f[x].enter => enters) /\ (f[x].leave <=> leaves)
  <2> HIDE DEF enters, leaves
  <2> QED BY <1>10, Zenon
<1>12. f[x].trend = st[x]
  BY <1>7, <1>9, Zenon
<1>13. f[x].enter => x > 1 /\ st[x].dir = 1 /\ st[x - 1].dir = -1
  <2>1. enters => turns(1)
    BY Zenon
  <2> QED BY <1>11, <2>1, Zenon
<1>14. f[x].leave <=> x > 1 /\ st[x].dir = -1 /\ st[x - 1].dir = 1
  <2>1. turns(-1) <=> x > 1 /\ st[x].dir = -1 /\ st[x - 1].dir = 1
    OBVIOUS
  <2> QED BY <1>11, <2>1, Zenon
<1> QED BY <1>12, <1>13, <1>14, Zenon

(* A stretch of a SuperTrend: it began where the price broke the upper     *)
(* band, and its exit signal is the first break of the lower one.          *)
LEMMA SuperTrendHeld ==
  ASSUME NEW n \in Nat, NEW f, Prices(f, n), NEW s \in Settings, s.slug = "supertrend_v6_pro",
         f = WithSignals(f, s), NEW e \in 2 .. n + 1, NEW last \in e - 1 .. n, Stretch(f, e, last)
  PROVE  /\ Above(TopPrice(f, s.use_wicks, e - 1), f[e - 2].trend.short)
         /\ \A x \in e .. last :
              /\ f[x].leave <=> Above(f[x - 1].trend.long, LowPrice(f, s.use_wicks, x))
              /\ f[x].leave => x = last
<1>1. PICK st, atr : /\ atr = Atr(f, s.atr_period)
                     /\ st = SuperTrend(f, atr, s.atr_multiplier, s.use_wicks)
  OBVIOUS
<1>2. s.atr_period \in Nat \ {0} /\ s.atr_multiplier \in Proper
  BY SchemaAssumption DEF Proper
<1>3. ASSUME NEW x \in 1 .. n
      PROVE  /\ f[x].trend = st[x]
             /\ f[x].enter => x > 1 /\ st[x].dir = 1 /\ st[x - 1].dir = -1
             /\ f[x].leave <=> x > 1 /\ st[x].dir = -1 /\ st[x - 1].dir = 1
  BY <1>1, SuperTrendColumns
<1>4. ASSUME NEW x \in 1 .. n PROVE Banded(st[x], atr[x])
  BY <1>1, <1>2, RowsAreBanded
<1>5. Rows(st, n, f, atr, s.atr_multiplier, s.use_wicks)
  BY <1>1, SuperTrendIs DEF Prices
<1>6. ASSUME NEW x \in 2 .. n
      PROVE  /\ st[x].dir = 1 /\ st[x - 1].dir = -1 => Above(TopPrice(f, s.use_wicks, x), st[x - 1].short)
             /\ st[x - 1].dir = 1 /\ atr[x - 1] # NaN =>
                  (st[x].dir = -1 <=> Above(st[x - 1].long, LowPrice(f, s.use_wicks, x)))
  BY <1>4, <1>5, RowTurns
<1>7. ASSUME NEW x \in 1 .. n
      PROVE  IF x < s.atr_period THEN atr[x] = NaN ELSE atr[x] # NaN
  BY <1>1, <1>2, AtrValues, ProperIsNoNaN
<1>8. e - 1 \in 2 .. n /\ e - 2 \in 1 .. n /\ st[e - 1].dir = 1 /\ st[e - 2].dir = -1
  <2>1. e - 1 \in 1 .. n /\ f[e - 1].enter
    BY DEF Stretch
  <2> QED BY <2>1, <1>3
<1>9. Above(TopPrice(f, s.use_wicks, e - 1), f[e - 2].trend.short)
  BY <1>3, <1>6, <1>8
<1>10. \A x \in e - 2 .. n : atr[x] # NaN
  <2>1. atr[e - 2] # NaN
    BY <1>4, <1>8 DEF Banded
  <2>2. e - 2 >= s.atr_period
    BY <1>2, <1>7, <1>8, <2>1
  <2> QED BY <1>2, <1>7, <1>8, <2>2
<1> DEFINE S == {x \in 0 .. n : e - 1 <= x /\ x < last => st[x].dir = 1}
<1>11. ASSUME NEW x \in 1 .. n, x - 1 \in S PROVE x \in S
  <2> SUFFICES ASSUME e - 1 <= x, x < last PROVE st[x].dir = 1
    OBVIOUS
  <2>1. CASE x = e - 1
    BY <2>1, <1>8
  <2>2. CASE e <= x
    <3>1. st[x - 1].dir = 1
      BY <1>11, <2>2
    <3>2. ~f[x].leave
      BY <2>2 DEF Stretch
    <3>3. st[x].dir \in {1, -1}
      BY <1>4 DEF Banded
    <3> QED BY <1>3, <2>2, <3>1, <3>2, <3>3
  <2> QED BY <2>1, <2>2
<1>12. \A x \in 0 .. n : x \in S
  <2>1. 0 \in S /\ \A x \in 1 .. n : x - 1 \in S => x \in S
    BY <1>11
  <2> HIDE DEF S
  <2> QED BY <2>1, Induct
<1>13. ASSUME NEW x \in e .. last
       PROVE  /\ f[x].leave <=> Above(f[x - 1].trend.long, LowPrice(f, s.use_wicks, x))
              /\ f[x].leave => x = last
  <2>1. x \in 2 .. n /\ x \in 1 .. n /\ x - 1 \in 1 .. n /\ x - 1 \in e - 2 .. n
    BY <1>8
  <2>2. st[x - 1].dir = 1
    BY <1>12, <2>1
  <2>3. atr[x - 1] # NaN
    BY <1>10, <2>1
  <2>4. st[x].dir = -1 <=> Above(st[x - 1].long, LowPrice(f, s.use_wicks, x))
    BY <1>6, <2>1, <2>2, <2>3
  <2>5. f[x].leave <=> st[x].dir = -1
    BY <1>3, <2>1, <2>2
  <2>6. f[x - 1].trend = st[x - 1]
    BY <1>3, <2>1
  <2>7. f[x].leave => x = last
    <3>1. x < last => ~f[x].leave
      BY DEF Stretch
    <3> QED BY <3>1
  <2> QED BY <2>4, <2>5, <2>6, <2>7
<1> QED BY <1>9, <1>13

(* A stretch that rests on a line: it began above the line, and leaves when*)
(* the price crosses it downwards; so no price below it is held through.   *)
LEMMA LineHeld ==
  ASSUME NEW n \in Nat, NEW b \in 1 .. n, NEW last \in 0 .. n, NEW close, NEW line, NEW leave,
         \A x \in b .. last : line[x] \in Proper /\ close[x] \in Proper,
         \A x \in b .. last - 1 : x \notin leave,
         \A x \in b .. last : CrossBelow(close, line, x) => x \in leave,
         Above(close[b], line[b])
  PROVE  \A x \in b .. last : Above(line[x], close[x]) => x \in leave
<1> DEFINE S == {x \in 0 .. n : x \in b .. last - 1 => AtLeast(close[x], line[x])}
<1>1. ASSUME NEW x \in b .. last
      PROVE  Above(close[x], line[x]) \/ Above(line[x], close[x]) \/ AtLeast(close[x], line[x])
  BY AtMostIsTotal, ProperIsNoNaN DEF Above, AtLeast
<1>2. b <= last => AtLeast(close[b], line[b]) /\ ~Above(line[b], close[b])
  BY AtMostIsTotal DEF Above, AtLeast
<1>3. ASSUME NEW x \in 1 .. n, x - 1 \in S PROVE x \in S
  <2> SUFFICES ASSUME x \in b .. last - 1 PROVE AtLeast(close[x], line[x])
    OBVIOUS
  <2>1. CASE x = b
    BY <1>2, <2>1
  <2>2. CASE x > b
    <3>1. AtLeast(close[x - 1], line[x - 1])
      BY <1>3, <2>2
    <3>2. ~CrossBelow(close, line, x)
      OBVIOUS
    <3>3. ~Above(line[x], close[x])
      BY <2>2, <3>1, <3>2 DEF CrossBelow
    <3>4. x \in b .. last
      OBVIOUS
    <3> QED BY <3>3, <3>4, AtMostIsTotal, ProperIsNoNaN DEF Above, AtLeast
  <2> QED BY <2>1, <2>2
<1>4. \A x \in 0 .. n : x \in S
  <2>1. 0 \in S /\ \A x \in 1 .. n : x - 1 \in S => x \in S
    BY <1>3
  <2> HIDE DEF S
  <2> QED BY <2>1, Induct
<1>5. ASSUME NEW x \in b .. last, Above(line[x], close[x]) PROVE x \in leave
  <2>1. x > b
    BY <1>2, <1>5
  <2>2. AtLeast(close[x - 1], line[x - 1])
    BY <1>4, <2>1
  <2>3. CrossBelow(close, line, x)
    BY <1>5, <2>1, <2>2 DEF CrossBelow
  <2> QED BY <2>3
<1> QED BY <1>5

LEMMA TotalType ==
  ASSUME NEW xs \in Seq(Nat)
  PROVE  Total(xs) \in Nat
BY SumType DEF Total

(* Candles whose prices and volumes are natural numbers.                   *)
CandlesOf(f, n) ==
  /\ Series(f, n)
  /\ \A i \in 1 .. n : /\ f[i].high \in Nat /\ f[i].low \in Nat /\ f[i].close \in Nat
                       /\ f[i].volume \in Nat

(* A VWAP is an average of prices, hence not negative.                     *)
LEMMA VwapValues ==
  ASSUME NEW n \in Nat, NEW f, CandlesOf(f, n), NEW i \in 1 .. n, Vwap(f)[i] # NaN
  PROVE  Vwap(f)[i] \in Proper /\ Vwap(f)[i][1] >= 0
<1> DEFINE today(x, c) == IF c.day = f[i].day THEN x ELSE 0
           volumes == [j \in 1 .. i |-> today(f[j].volume, f[j])]
           money   == [j \in 1 .. i |-> today(f[j].volume * (f[j].high + f[j].low + f[j].close), f[j])]
<1>1. volumes \in Seq(Nat)
  <2>1. \A j \in 1 .. i : today(f[j].volume, f[j]) \in Nat
    BY DEF CandlesOf
  <2> HIDE DEF today
  <2>2. volumes \in [1 .. i -> Nat]
    BY <2>1
  <2> HIDE DEF volumes
  <2> QED BY <2>2
<1>2. money \in Seq(Nat)
  <2>1. ASSUME NEW j \in 1 .. i
        PROVE  today(f[j].volume * (f[j].high + f[j].low + f[j].close), f[j]) \in Nat
    <3>1. PICK a \in Nat, b \in Nat, c \in Nat, v \in Nat :
            a = f[j].high /\ b = f[j].low /\ c = f[j].close /\ v = f[j].volume
      BY DEF CandlesOf
    <3>2. v * (a + b + c) \in Nat
      OBVIOUS
    <3> QED BY <3>1, <3>2
  <2> HIDE DEF today
  <2>2. money \in [1 .. i -> Nat]
    BY <2>1
  <2> HIDE DEF money
  <2> QED BY <2>2
<1>3. PICK v \in Nat, t \in Nat : v = Total(volumes) /\ t = Total(money)
  <2> HIDE DEF volumes, money
  <2> QED BY <1>1, <1>2, TotalType
<1>4. Vwap(f)[i] = IF Total(volumes) = 0 THEN NaN ELSE Lowest(<<Total(money), 3 * Total(volumes)>>)
  <2>1. i \in DOMAIN f
    BY DEF CandlesOf, Series
  <2> QED BY <2>1 DEF Vwap
<1> HIDE DEF volumes, money
<1>5. v # 0 /\ Vwap(f)[i] = Lowest(<<t, 3 * v>>)
  BY <1>3, <1>4
<1>6. PICK q \in Proper : q = <<t, 3 * v>>
  BY <1>5 DEF Proper
<1>7. Lowest(q) \in Proper /\ Same(Lowest(q), q)
  BY LowestIsSame
<1>8. PICK a \in Int, b \in Nat \ {0} : Lowest(q) = <<a, b>>
  BY <1>7 DEF Proper
<1>9. a * (3 * v) = t * b
  BY <1>6, <1>7, <1>8 DEF Same
<1>10. a >= 0
  <2>1. PICK w \in Nat : w = 3 * v
    OBVIOUS
  <2>2. w > 0 /\ a * w >= 0
    BY <1>5, <1>9, <2>1
  <2> QED BY <2>2
<1> QED BY <1>5, <1>6, <1>7, <1>8, <1>10

(* What is above a line with a buffer is above the line.                   *)
LEMMA AboveTheBuffer ==
  ASSUME NEW b \in Nat \X (Nat \ {0}), NEW x \in Proper, x[1] >= 0, NEW c \in Proper,
         Above(c, Scale(Plus(One, b), x))
  PROVE  Above(c, x)
<1>1. PICK b1 \in Nat, b2 \in Nat \ {0}, x1 \in Nat, x2 \in Nat \ {0} : b = <<b1, b2>> /\ x = <<x1, x2>>
  BY DEF Proper
<1>2. PICK k \in Proper : k = Plus(One, b) /\ k = <<b2 + b1, b2>>
  BY <1>1 DEF Proper, Plus, One
<1>3. Scale(k, x) \in Proper /\ Same(Scale(k, x), Times(k, x))
  BY ScaleType
<1>4. PICK y1 \in Int, y2 \in Nat \ {0} : Scale(k, x) = <<y1, y2>>
  BY <1>3 DEF Proper
<1>5. y1 * (b2 * x2) = ((b2 + b1) * x1) * y2
  BY <1>1, <1>2, <1>3, <1>4 DEF Same, Times
<1>6. AtMost(x, Scale(k, x))
  <2>1. ((b2 + b1) * x1) * y2 = b2 * (x1 * y2) + (b1 * x1) * y2
    OBVIOUS
  <2>2. (b1 * x1) * y2 >= 0
    OBVIOUS
  <2>3. y1 * (b2 * x2) = b2 * (y1 * x2)
    OBVIOUS
  <2>4. PICK u \in Int, w \in Int : u = x1 * y2 /\ w = y1 * x2
    OBVIOUS
  <2>5. b2 * u <= b2 * w
    BY <1>5, <2>1, <2>2, <2>3, <2>4
  <2>6. u <= w
    BY <2>5
  <2> QED BY <1>1, <1>4, <2>4, <2>6 DEF AtMost
<1>7. ~AtMost(c, Scale(k, x))
  BY <1>2 DEF Above
<1>8. ~AtMost(c, x)
  BY <1>3, <1>6, <1>7, AtMostIsTransitive
<1> QED BY <1>8, ProperIsNoNaN DEF Above

(* A stretch of the other strategies rests on a line.                      *)
OnTheLine(f, e, last) ==
  /\ Above(Whole(f[e - 1].close), f[e - 1].trend)
  /\ \A x \in e - 1 .. last : Above(f[x].trend, Whole(f[x].close)) => f[x].leave

LEMMA RowOf ==
  ASSUME NEW n \in Nat, NEW f, Series(f, n), NEW s \in Settings, f = WithSignals(f, s),
         NEW sig, sig = Signals(f, s, AllFresh(f, s)), NEW x \in 1 .. n, NEW a, NEW b, NEW t, NEW u,
         sig[x] = Signal(a, b, t, u)
  PROVE  f[x].enter = a /\ f[x].leave = b /\ f[x].trend = u
<1>1. f[x] = Row(f[x], sig[x])
  <2>1. f = [i \in DOMAIN f |-> Row(f[i], sig[i])]
    BY WithSignalsIs
  <2>2. x \in DOMAIN f
    BY DEF Series
  <2> QED BY <2>1, <2>2
<1>2. PICK c : c = sig[x]
  OBVIOUS
<1>3. f[x].trend = c.trend /\ f[x].enter = c.enter /\ f[x].leave = c.leave
  BY <1>1, <1>2 DEF Row
<1>4. c.enter = a /\ c.leave = b /\ c.trend = u
  BY <1>2, SignalFields
<1> QED BY <1>3, <1>4, Zenon

LEMMA CloseIs ==
  ASSUME NEW n \in Nat, NEW f, CandlesOf(f, n), NEW close, close = Column(f, LAMBDA c : c.close)
  PROVE  /\ Series(close, n)
         /\ \A x \in 1 .. n : close[x] \in Proper /\ close[x] = Whole(f[x].close)
<1>1. close = [x \in 1 .. n |-> Whole(f[x].close)]
  BY DEF Column, CandlesOf, Series
<1>2. \A x \in 1 .. n : Whole(f[x].close) \in Proper
  BY WholeType DEF CandlesOf
<1> QED BY <1>1, <1>2 DEF Series

(* From a line, its values and what the signals say of it to the stretch.  *)
LEMMA OnTheLineIf ==
  ASSUME NEW n \in Nat, NEW f, NEW e \in 2 .. n + 1, NEW last \in e - 1 .. n, Stretch(f, e, last),
         NEW close, \A x \in 1 .. n : close[x] \in Proper /\ close[x] = Whole(f[x].close),
         NEW line, \A x \in e - 1 .. last : line[x] \in Proper,
         \A x \in 1 .. n : f[x].trend = line[x] /\ (CrossBelow(close, line, x) => f[x].leave),
         Above(close[e - 1], line[e - 1])
  PROVE  OnTheLine(f, e, last)
<1> DEFINE leave == {x \in 1 .. n : f[x].leave}
<1>1. PICK b \in 1 .. n : b = e - 1
  OBVIOUS
<1>2. \A x \in b .. last : line[x] \in Proper /\ close[x] \in Proper
  BY <1>1
<1>3. \A x \in b .. last - 1 : x \notin leave
  BY <1>1 DEF Stretch
<1>4. \A x \in b .. last : CrossBelow(close, line, x) => x \in leave
  BY <1>1
<1>5. Above(close[b], line[b])
  BY <1>1
<1>6. last \in 0 .. n
  BY <1>1
<1> HIDE DEF leave
<1>7. \A x \in b .. last : Above(line[x], close[x]) => x \in leave
  BY <1>2, <1>3, <1>4, <1>5, <1>6, LineHeld
<1>8. \A x \in e - 1 .. last : x \in 1 .. n /\ x \in b .. last
  BY <1>1
<1> QED BY <1>1, <1>5, <1>7, <1>8 DEF OnTheLine, leave

LEMMA SwingColumns ==
  ASSUME NEW n \in Nat, NEW f, Series(f, n), NEW s \in Settings, s.slug = "swing_trend_pullback",
         f = WithSignals(f, s), NEW close, close = Column(f, LAMBDA c : c.close),
         NEW line, line = Ema(f, s.ema_fast), NEW x \in 1 .. n
  PROVE  /\ f[x].trend = line[x]
         /\ f[x].enter => CrossAbove(close, line, x)
         /\ CrossBelow(close, line, x) => f[x].leave
<1> DEFINE ind == AllFresh(f, s)
           sig == SwingSignals(f, s, ind)
           stop == IF s.use_atr_stop THEN Subtract(close[x], Scale(s.atr_mult, ind["atr"][x])) ELSE NaN
           enters == /\ Above(close[x], ind["ema_slow"][x]) /\ CrossAbove(close, line, x)
                     /\ Above(s.rsi_entry_max, ind["rsi"][x])
           leaves == CrossBelow(close, line, x) \/ Above(ind["rsi"][x], s.rsi_exit_min)
<1>1. ind["ema_fast"] = line
  <2>1. "ema_fast" \in Names(s)
    BY DEF Names
  <2> QED BY <2>1 DEF AllFresh, Fresh, Compute
<1> HIDE DEF ind
<1>2. sig[x] = Signal(enters, leaves, stop, line[x])
  <2>1. x \in DOMAIN f
    BY DEF Series
  <2> QED BY <1>1, <2>1 DEF SwingSignals
<1>3. sig = Signals(f, s, ind)
  BY DEF Signals
<1> HIDE DEF sig, stop, enters, leaves
<1>4. PICK a, b, t, g : a = enters /\ b = leaves /\ t = stop /\ g = sig
  BY Zenon
<1>5. g[x] = Signal(a, b, t, line[x]) /\ g = Signals(f, s, AllFresh(f, s))
  BY <1>2, <1>3, <1>4, Zenon DEF ind
<1>6. f[x].enter = a /\ f[x].leave = b /\ f[x].trend = line[x]
  BY <1>5, RowOf
<1>7. f[x].enter = enters /\ f[x].leave = leaves
  BY <1>4, <1>6, Zenon
<1>8. enters => CrossAbove(close, line, x)
  BY Zenon DEF enters
<1>9. CrossBelow(close, line, x) => leaves
  BY Zenon DEF leaves
<1>10. f[x].enter => CrossAbove(close, line, x)
  BY <1>7, <1>8, Zenon
<1>11. CrossBelow(close, line, x) => f[x].leave
  BY <1>7, <1>9, Zenon
<1> QED BY <1>6, <1>10, <1>11, Zenon

LEMMA SwingHeld ==
  ASSUME NEW n \in Nat, NEW f, CandlesOf(f, n), NEW s \in Settings, s.slug = "swing_trend_pullback",
         f = WithSignals(f, s), NEW e \in 2 .. n + 1, NEW last \in e - 1 .. n, Stretch(f, e, last)
  PROVE  OnTheLine(f, e, last)
<1>1. PICK close, line : close = Column(f, LAMBDA c : c.close) /\ line = Ema(f, s.ema_fast)
  OBVIOUS
<1>2. Series(f, n)
  BY DEF CandlesOf
<1>3. ASSUME NEW x \in 1 .. n
      PROVE  /\ f[x].trend = line[x]
             /\ f[x].enter => CrossAbove(close, line, x)
             /\ CrossBelow(close, line, x) => f[x].leave
  BY <1>1, <1>2, SwingColumns
<1>4. /\ Series(close, n)
      /\ \A x \in 1 .. n : close[x] \in Proper /\ close[x] = Whole(f[x].close)
  BY <1>1, CloseIs
<1>5. PICK period \in Nat \ {0} : period = s.ema_fast
  BY SchemaAssumption
<1>6. ASSUME NEW x \in 1 .. n
      PROVE  IF x < period THEN line[x] = NaN ELSE line[x] \in Proper
  <2>1. <<2, period + 1>> \in Proper
    BY DEF Proper
  <2>2. line = Ewm(close, <<2, period + 1>>, period)
    BY <1>1, <1>5 DEF Ema
  <2> QED BY <1>4, <2>1, <2>2, EwmValues
<1>7. e - 1 \in 1 .. n /\ Above(close[e - 1], line[e - 1])
  BY <1>3 DEF Stretch, CrossAbove
<1>8. \A x \in e - 1 .. last : line[x] \in Proper
  <2>1. line[e - 1] # NaN
    BY <1>7 DEF Above
  <2>2. e - 1 >= period
    BY <1>6, <1>7, <2>1
  <2> QED BY <1>6, <2>2
<1>9. \A x \in 1 .. n : f[x].trend = line[x] /\ (CrossBelow(close, line, x) => f[x].leave)
  BY <1>3
<1> QED BY <1>4, <1>7, <1>8, <1>9, OnTheLineIf

LEMMA VwapColumns ==
  ASSUME NEW n \in Nat, NEW f, Series(f, n), NEW s \in Settings, s.slug = "intraday_vwap_pullback",
         f = WithSignals(f, s), NEW close, close = Column(f, LAMBDA c : c.close),
         NEW line, line = Vwap(f), NEW x \in 1 .. n
  PROVE  /\ f[x].trend = line[x]
         /\ f[x].enter => Above(close[x], Scale(Plus(One, s.vwap_buffer), line[x]))
         /\ CrossBelow(close, line, x) => f[x].leave
<1> DEFINE ind == AllFresh(f, s)
           sig == VwapSignals(f, s, ind)
           entry == [i \in DOMAIN f |-> Scale(Plus(One, s.vwap_buffer), line[i])]
           enters == CrossAbove(close, entry, x) /\ Above(s.rsi_entry_max, ind["rsi"][x])
           leaves == CrossBelow(close, line, x) \/ Above(ind["rsi"][x], s.rsi_exit_min)
<1>1. ind["vwap"] = line
  <2>1. "vwap" \in Names(s)
    BY DEF Names
  <2> QED BY <2>1 DEF AllFresh, Fresh, Compute
<1>2. x \in DOMAIN f
  BY DEF Series
<1> HIDE DEF ind
<1>3. sig[x] = Signal(enters, leaves, NaN, line[x])
  BY <1>1, <1>2 DEF VwapSignals
<1>4. sig = Signals(f, s, ind)
  BY DEF Signals
<1>5. enters => Above(close[x], Scale(Plus(One, s.vwap_buffer), line[x]))
  BY <1>2 DEF CrossAbove
<1> HIDE DEF sig, enters, leaves
<1>6. PICK a, b, g : a = enters /\ b = leaves /\ g = sig
  BY Zenon
<1>7. g[x] = Signal(a, b, NaN, line[x]) /\ g = Signals(f, s, AllFresh(f, s))
  BY <1>3, <1>4, <1>6, Zenon DEF ind
<1>8. f[x].enter = a /\ f[x].leave = b /\ f[x].trend = line[x]
  BY <1>7, RowOf
<1>9. f[x].enter = enters /\ f[x].leave = leaves
  BY <1>6, <1>8, Zenon
<1>10. CrossBelow(close, line, x) => leaves
  BY Zenon DEF leaves
<1>11. f[x].enter => Above(close[x], Scale(Plus(One, s.vwap_buffer), line[x]))
  BY <1>5, <1>9, Zenon
<1>12. CrossBelow(close, line, x) => f[x].leave
  BY <1>9, <1>10, Zenon
<1> QED BY <1>8, <1>11, <1>12, Zenon

LEMMA VwapHeld ==
  ASSUME NEW n \in Nat, NEW f, CandlesOf(f, n), NEW s \in Settings, s.slug = "intraday_vwap_pullback",
         f = WithSignals(f, s), \A x \in 1 .. n : Vwap(f)[x] # NaN,
         NEW e \in 2 .. n + 1, NEW last \in e - 1 .. n, Stretch(f, e, last)
  PROVE  OnTheLine(f, e, last)
<1>1. PICK close, line : close = Column(f, LAMBDA c : c.close) /\ line = Vwap(f)
  OBVIOUS
<1>2. Series(f, n)
  BY DEF CandlesOf
<1>3. ASSUME NEW x \in 1 .. n
      PROVE  /\ f[x].trend = line[x]
             /\ f[x].enter => Above(close[x], Scale(Plus(One, s.vwap_buffer), line[x]))
             /\ CrossBelow(close, line, x) => f[x].leave
  BY <1>1, <1>2, VwapColumns
<1>4. \A x \in 1 .. n : close[x] \in Proper /\ close[x] = Whole(f[x].close)
  BY <1>1, CloseIs
<1>5. \A x \in 1 .. n : line[x] \in Proper /\ line[x][1] >= 0
  BY <1>1, VwapValues
<1>6. e - 1 \in 1 .. n /\ Above(close[e - 1], line[e - 1])
  <2>1. PICK x \in 1 .. n : x = e - 1
    OBVIOUS
  <2>2. Above(close[x], Scale(Plus(One, s.vwap_buffer), line[x]))
    BY <1>3, <2>1 DEF Stretch
  <2>3. s.vwap_buffer \in Nat \X (Nat \ {0})
    BY SchemaAssumption
  <2> QED BY <1>4, <1>5, <2>1, <2>2, <2>3, AboveTheBuffer
<1>7. \A x \in e - 1 .. last : line[x] \in Proper
  BY <1>5
<1>8. \A x \in 1 .. n : f[x].trend = line[x] /\ (CrossBelow(close, line, x) => f[x].leave)
  BY <1>3
<1> QED BY <1>4, <1>6, <1>7, <1>8, OnTheLineIf

-----------------------------------------------------------------------------
(* The ledger of a replay: every position was entered on a signal and has  *)
(* seen no exit signal before its last bar; the bars are candles, and a run*)
(* on VWAP has a value for each of them.                                   *)
Ledger(f, p, ts) ==
  /\ p # NaN => p.entry \in 2 .. Len(f) /\ Stretch(f, p.entry, Len(f))
  /\ Len(ts) \in Nat /\ Series(ts, Len(ts))
  /\ \A j \in 1 .. Len(ts) :
       /\ ts[j].entry \in 2 .. Len(f) /\ ts[j].exit \in ts[j].entry .. Len(f)
       /\ Stretch(f, ts[j].entry, ts[j].exit - 1)

FrameInv ==
  /\ CandlesOf(bars, Len(bars))
  /\ step = "failed" => bars = <<>>
  /\ settings # NaN /\ settings.slug = "intraday_vwap_pullback" =>
       \A x \in 1 .. Len(bars) : Vwap(bars)[x] # NaN

HoldInv == SignalInv /\ FrameInv /\ Ledger(bars, pos, trades)

LEMMA EmptyLedger == Ledger(<<>>, NaN, <<>>) /\ CandlesOf(<<>>, 0) /\ Len(<<>>) = 0
BY DEF Ledger, CandlesOf, Series

LEMMA StretchGrows ==
  ASSUME NEW m \in Nat, NEW f, NEW g, \A i \in 1 .. m : g[i] = f[i],
         NEW e \in 2 .. m + 1, NEW last \in e - 1 .. m, Stretch(f, e, last)
  PROVE  Stretch(g, e, last) /\ (last = m /\ ~f[m].leave => Stretch(g, e, m + 1))
<1>1. e - 1 \in 1 .. m /\ g[e - 1].enter
  BY DEF Stretch
<1>2. \A x \in e - 1 .. last - 1 : x \in 1 .. m /\ ~g[x].leave
  BY DEF Stretch
<1>3. ASSUME last = m, ~f[m].leave PROVE \A x \in e - 1 .. m + 1 - 1 : ~g[x].leave
  <2> SUFFICES ASSUME NEW x \in e - 1 .. m PROVE ~g[x].leave
    OBVIOUS
  <2>1. CASE x = m
    BY <1>1, <1>3, <2>1
  <2>2. CASE x < m
    BY <1>2, <1>3, <2>2
  <2> QED BY <2>1, <2>2
<1> QED BY <1>1, <1>2, <1>3 DEF Stretch

(* A bar opens: the position it may enter or leave.                        *)
LEMMA OpenKeepsLedger ==
  ASSUME NEW m \in Nat, NEW f, Len(f) = m, NEW g, Len(g) = m + 1, \A i \in 1 .. m : g[i] = f[i],
         NEW q, NEW ts, Ledger(f, q, ts), NEW p, NEW r, NEW us,
         p = q \/ (m > 0 /\ q = NaN /\ f[m].enter /\ p.entry = m + 1),
         \/ /\ m > 0 /\ p # NaN /\ f[m].leave /\ r = NaN
            /\ \E t : us = Append(ts, t) /\ t.entry = p.entry /\ t.exit = m + 1
         \/ ~(m > 0 /\ p # NaN /\ f[m].leave) /\ r = p /\ us = ts
  PROVE  Ledger(g, r, us)
<1>1. ASSUME NEW j \in 1 .. Len(ts)
      PROVE  /\ ts[j].entry \in 2 .. m + 1 /\ ts[j].exit \in ts[j].entry .. m + 1
             /\ Stretch(g, ts[j].entry, ts[j].exit - 1)
  <2>1. PICK e, x : e = ts[j].entry /\ x = ts[j].exit
    OBVIOUS
  <2>2. e \in 2 .. m /\ x \in e .. m /\ Stretch(f, e, x - 1)
    BY <2>1 DEF Ledger
  <2>3. Stretch(g, e, x - 1)
    BY <2>2, StretchGrows
  <2> QED BY <2>1, <2>2, <2>3
<1>2. p # NaN => p.entry \in 2 .. m + 1 /\ Stretch(g, p.entry, m)
  <2> SUFFICES ASSUME p # NaN PROVE p.entry \in 2 .. m + 1 /\ Stretch(g, p.entry, m)
    OBVIOUS
  <2>1. CASE p = q
    <3>1. PICK e : e = p.entry /\ e \in 2 .. m /\ Stretch(f, e, m)
      BY <2>1 DEF Ledger
    <3> QED BY <3>1, StretchGrows
  <2>2. CASE m > 0 /\ q = NaN /\ f[m].enter /\ p.entry = m + 1
    BY <2>2 DEF Stretch
  <2> QED BY <2>1, <2>2
<1>3. CASE m > 0 /\ p # NaN /\ f[m].leave /\ r = NaN /\ \E t : us = Append(ts, t) /\ t.entry = p.entry /\ t.exit = m + 1
  <2>1. PICK t : us = Append(ts, t) /\ t.entry = p.entry /\ t.exit = m + 1
    BY <1>3
  <2>2. PICK k : k = Len(ts) /\ k \in Nat /\ Series(ts, k)
    BY DEF Ledger
  <2>3. Series(us, k + 1) /\ us[k + 1] = t /\ \A i \in 1 .. k : us[i] = ts[i]
    BY <2>1, <2>2, AppendIs
  <2>4. Len(us) = k + 1
    BY <2>2, <2>3 DEF Series
  <2>5. ASSUME NEW j \in 1 .. k + 1
        PROVE  /\ us[j].entry \in 2 .. m + 1 /\ us[j].exit \in us[j].entry .. m + 1
               /\ Stretch(g, us[j].entry, us[j].exit - 1)
    <3>1. CASE j = k + 1
      <4>1. PICK e : e = p.entry /\ e \in 2 .. m + 1 /\ Stretch(g, e, m)
        BY <1>2, <1>3
      <4>2. t.entry = e /\ t.exit = m + 1 /\ us[j] = t
        BY <2>1, <2>3, <3>1, <4>1, Zenon
      <4>3. us[j].entry = e /\ us[j].exit = m + 1 /\ m + 1 - 1 = m
        BY <4>2
      <4> QED BY <4>1, <4>3
    <3>2. CASE j \in 1 .. k
      <4>1. us[j] = ts[j] /\ j \in 1 .. Len(ts)
        BY <2>2, <2>3, <3>2, Zenon
      <4>2. /\ ts[j].entry \in 2 .. m + 1 /\ ts[j].exit \in ts[j].entry .. m + 1
            /\ Stretch(g, ts[j].entry, ts[j].exit - 1)
        BY <1>1, <4>1, Zenon
      <4> QED BY <4>1, <4>2, Zenon
    <3>3. j = k + 1 \/ j \in 1 .. k
      BY <2>2
    <3> QED BY <3>1, <3>2, <3>3, Zenon
  <2> QED BY <1>3, <2>2, <2>3, <2>4, <2>5 DEF Ledger
<1>4. CASE ~(m > 0 /\ p # NaN /\ f[m].leave) /\ r = p /\ us = ts
  <2>1. p # NaN => p.entry \in 2 .. m + 1 /\ Stretch(g, p.entry, m + 1)
    <3> SUFFICES ASSUME p # NaN PROVE Stretch(g, p.entry, m + 1)
      BY <1>2
    <3>1. PICK e : e = p.entry /\ e \in 2 .. m + 1 /\ Stretch(g, e, m)
      BY <1>2
    <3>2. m > 0 /\ ~g[m].leave
      BY <1>4, <3>1
    <3>3. \A x \in e - 1 .. m : ~g[x].leave
      BY <3>1, <3>2 DEF Stretch
    <3>4. g[e - 1].enter /\ m + 1 - 1 = m
      BY <3>1 DEF Stretch
    <3> QED BY <3>1, <3>3, <3>4 DEF Stretch
  <2> QED BY <1>1, <1>4, <2>1 DEF Ledger
<1> QED BY <1>3, <1>4

(* Within a bar or at the end the position may be closed at that bar.      *)
LEMMA CloseKeepsLedger ==
  ASSUME NEW m \in Nat, NEW f, Len(f) = m, NEW p, NEW ts, Ledger(f, p, ts), p # NaN,
         NEW t, t.entry = p.entry, t.exit = m, NEW us, us = Append(ts, t)
  PROVE  Ledger(f, NaN, us)
<1>1. PICK e : e = p.entry /\ e \in 2 .. m /\ Stretch(f, e, m)
  BY DEF Ledger
<1>2. Stretch(f, e, m - 1)
  BY <1>1 DEF Stretch
<1>3. PICK k : k = Len(ts) /\ k \in Nat /\ Series(ts, k)
  BY DEF Ledger
<1>4. Series(us, k + 1) /\ us[k + 1] = t /\ \A i \in 1 .. k : us[i] = ts[i]
  BY <1>3, AppendIs
<1>5. Len(us) = k + 1
  BY <1>3, <1>4 DEF Series
<1>6. \A j \in 1 .. k : /\ ts[j].entry \in 2 .. m /\ ts[j].exit \in ts[j].entry .. m
                        /\ Stretch(f, ts[j].entry, ts[j].exit - 1)
  BY <1>3 DEF Ledger
<1>7. t.entry = e /\ t.exit = m /\ e \in 2 .. m
  BY <1>1
<1>8. ASSUME NEW j \in 1 .. k + 1
      PROVE  /\ us[j].entry \in 2 .. m /\ us[j].exit \in us[j].entry .. m
             /\ Stretch(f, us[j].entry, us[j].exit - 1)
  <2>1. CASE j = k + 1
    <3>1. us[j] = t
      BY <1>4, <2>1, Zenon
    <3>2. us[j].entry = e /\ us[j].exit = m
      BY <1>7, <3>1, Zenon
    <3> QED BY <1>2, <1>7, <3>2
  <2>2. CASE j \in 1 .. k
    <3>1. us[j] = ts[j]
      BY <1>4, <2>2, Zenon
    <3> QED BY <1>6, <2>2, <3>1, Zenon
  <2>3. j = k + 1 \/ j \in 1 .. k
    BY <1>3
  <2> QED BY <2>1, <2>2, <2>3, Zenon
<1> QED BY <1>3, <1>4, <1>5, <1>8 DEF Ledger

LEMMA SellKeepsLedger ==
  ASSUME Ledger(bars, pos, trades), Len(bars) \in Nat, pos # NaN, NEW price, NEW why,
         Engine!Sell(pos, Len(bars), price, why)
  PROVE  Ledger(bars, pos', trades')
<1>1. PICK t : t = [entry |-> pos.entry, exit |-> Len(bars), bought |-> pos.price,
                    sold |-> price, reason |-> why]
  OBVIOUS
<1>2. trades' = Append(trades, t) /\ pos' = NaN
  BY <1>1 DEF Engine!Sell
<1>3. t.entry = pos.entry /\ t.exit = Len(bars)
  BY <1>1
<1>4. PICK m, us : m \in Nat /\ m = Len(bars) /\ us = trades'
  OBVIOUS
<1>5. Ledger(bars, NaN, us)
  BY <1>2, <1>3, <1>4, CloseKeepsLedger
<1> QED BY <1>2, <1>4, <1>5

LEMMA ReplayStepKeepsHold ==
  ASSUME HoldInv, SignalInv', ReplayStep
  PROVE  HoldInv'
<1>1. bars' = bars /\ settings' = settings
  BY DEF ReplayStep, Engine!CheckLevels, Engine!MarkToMarket, Engine!ForceClose
<1>2. FrameInv'
  <2>1. step' # "failed"
    BY DEF ReplayStep, Engine!CheckLevels, Engine!MarkToMarket, Engine!ForceClose
  <2> QED BY <1>1, <2>1 DEF HoldInv, FrameInv
<1>3. Len(bars) \in Nat /\ Ledger(bars, pos, trades)
  BY DEF HoldInv, SignalInv
<1>4. ASSUME UNCHANGED <<pos, trades>> PROVE Ledger(bars, pos', trades')
  BY <1>3, <1>4
<1>5. \/ UNCHANGED <<pos, trades>>
      \/ pos # NaN /\ \E price, why : Engine!Sell(pos, Len(bars), price, why)
  BY DEF ReplayStep, Engine!CheckLevels, Engine!MarkToMarket, Engine!ForceClose, Engine!Keep, Engine!n
<1>6. Ledger(bars, pos', trades')
  BY <1>3, <1>4, <1>5, SellKeepsLedger
<1>7. Ledger(bars', pos', trades')
  BY <1>1, <1>6
<1> QED BY <1>2, <1>7 DEF HoldInv

(* The candle that is evaluated joins the frame with its prices.           *)
LEMMA EvaluateBarKeepsFrame ==
  ASSUME HoldInv, NEW c \in Shapes, EvaluateBar(c)
  PROVE  FrameInv'
<1>1. PICK m, f, s : m = Len(bars) /\ f = bars /\ s = settings
  OBVIOUS
<1>2. m \in Nat /\ Series(f, m) /\ s # NaN /\ s \in Settings /\ CandlesOf(f, m)
  BY <1>1 DEF EvaluateBar, HoldInv, SignalInv, FrameInv
<1>3. PICK g, h, row : /\ g = Append(f, c) /\ row = WithSignals(g, s)[Len(g)] /\ h = Append(f, row)
  OBVIOUS
<1>4. ~Raises(g, s) /\ bars' = h /\ settings' = s /\ step' = "intrabar"
  BY <1>1, <1>3 DEF EvaluateBar, Engine!OpenBar
<1>5. /\ Series(g, m + 1) /\ g[m + 1] = c /\ \A i \in 1 .. m : g[i] = f[i]
      /\ Series(h, m + 1) /\ h[m + 1] = row /\ \A i \in 1 .. m : h[i] = f[i]
  BY <1>2, <1>3, AppendIs
<1>6. Len(g) = m + 1 /\ Len(h) = m + 1
  BY <1>2, <1>5 DEF Series
<1>7. SamePrices(c, row)
  <2>1. row = Row(c, Signals(g, s, AllFresh(g, s))[m + 1])
    <3>1. WithSignals(g, s) = [i \in 1 .. m + 1 |-> Row(g[i], Signals(g, s, AllFresh(g, s))[i])]
      <4>1. DOMAIN g = 1 .. m + 1
        BY <1>5 DEF Series
      <4> QED BY <1>2, <4>1, WithSignalsIs
    <3>2. m + 1 \in 1 .. m + 1
      BY <1>2
    <3> QED BY <1>3, <1>5, <1>6, <3>1, <3>2
  <2> QED BY <2>1, RowTwice
<1>8. c.high \in Nat /\ c.low \in Nat /\ c.close \in Nat /\ c.volume \in Nat
  BY StrategyAssumption
<1>9. CandlesOf(h, m + 1)
  <2>1. row.high \in Nat /\ row.low \in Nat /\ row.close \in Nat /\ row.volume \in Nat
    BY <1>7, <1>8 DEF SamePrices
  <2>2. ASSUME NEW i \in 1 .. m + 1
        PROVE  h[i].high \in Nat /\ h[i].low \in Nat /\ h[i].close \in Nat /\ h[i].volume \in Nat
    <3>1. CASE i = m + 1
      BY <1>5, <2>1, <3>1, Zenon
    <3>2. CASE i \in 1 .. m
      BY <1>2, <1>5, <3>2 DEF CandlesOf
    <3>3. i = m + 1 \/ i \in 1 .. m
      BY <1>2
    <3> QED BY <3>1, <3>2, <3>3
  <2> QED BY <1>5, <2>2 DEF CandlesOf
<1>10. ASSUME s.slug = "intraday_vwap_pullback"
       PROVE  \A x \in 1 .. m + 1 : Vwap(h)[x] # NaN
  <2>1. \A x \in 1 .. m + 1 : Vwap(g)[x] # NaN
    <3>1. "vwap" \in Names(s)
      BY <1>10 DEF Names
    <3>2. DOMAIN g = 1 .. m + 1
      BY <1>5 DEF Series
    <3> QED BY <1>4, <3>1, <3>2 DEF Raises
  <2>2. Alike(g, h, m + 1, m + 1)
    <3>1. \A i \in 1 .. m : SamePrices(g[i], h[i])
      BY <1>5 DEF SamePrices
    <3>2. SamePrices(g[m + 1], h[m + 1])
      BY <1>5, <1>7, Zenon
    <3>3. \A i \in 1 .. m + 1 : i = m + 1 \/ i \in 1 .. m
      BY <1>2
    <3>4. \A i \in 1 .. m + 1 : SamePrices(g[i], h[i])
      BY <3>1, <3>2, <3>3, Zenon
    <3> QED BY <1>5, <3>4 DEF Alike
  <2>3. Starts(Vwap(g), Vwap(h), m + 1, m + 1)
    <3>1. m + 1 \in Nat /\ m + 1 <= m + 1
      BY <1>2
    <3> QED BY <2>2, <3>1, VwapPrefix
  <2> QED BY <2>1, <2>3 DEF Starts
<1>11. Len(bars') = m + 1
  BY <1>4, <1>6
<1> QED BY <1>4, <1>9, <1>10, <1>11 DEF FrameInv

LEMMA EvaluateBarKeepsLedger ==
  ASSUME HoldInv, NEW c, EvaluateBar(c)
  PROVE  Ledger(bars', pos', trades')
<1>1. PICK m, f, q, ts : m = Len(bars) /\ f = bars /\ q = pos /\ ts = trades
  OBVIOUS
<1>2. m \in Nat /\ Series(f, m) /\ Ledger(f, q, ts)
  BY <1>1 DEF HoldInv, SignalInv
<1>3. PICK b : b = WithSignals(Append(f, c), settings)[Len(Append(f, c))]
  OBVIOUS
<1>4. Engine!OpenBar(b)
  BY <1>1, <1>3 DEF EvaluateBar
<1>5. PICK g, r, us : g = bars' /\ r = pos' /\ us = trades'
  OBVIOUS
<1>6. PICK p : p = IF m > 0 /\ q = NaN /\ f[m].enter THEN [entry |-> m + 1, price |-> b.open] ELSE q
  OBVIOUS
<1>7. /\ g = Append(f, b)
      /\ IF m > 0 /\ p # NaN /\ f[m].leave THEN Engine!Sell(p, m + 1, b.open, "signal_exit")
                                           ELSE Engine!Keep(p)
  BY <1>1, <1>4, <1>5, <1>6 DEF Engine!OpenBar, Engine!n
<1>8. Series(g, m + 1) /\ \A i \in 1 .. m : g[i] = f[i]
  <2>1. g = Append(f, b)
    BY <1>7, Zenon
  <2>2. m \in Nat /\ Series(f, m)
    BY <1>2, Zenon
  <2>3. Series(Append(f, b), m + 1) /\ \A i \in 1 .. m : Append(f, b)[i] = f[i]
    BY ONLY <2>2, AppendIs, SMT
  <2> QED BY <2>1, <2>3, Zenon
<1>9. Len(g) = m + 1 /\ Len(f) = m
  BY <1>1, <1>2, <1>8 DEF Series
<1>10. p = q \/ (m > 0 /\ q = NaN /\ f[m].enter /\ p.entry = m + 1)
  BY <1>6
<1>11. CASE m > 0 /\ p # NaN /\ f[m].leave
  <2>1. PICK t : t = [entry |-> p.entry, exit |-> m + 1, bought |-> p.price,
                      sold |-> b.open, reason |-> "signal_exit"]
    OBVIOUS
  <2>2. us = Append(ts, t) /\ r = NaN
    BY <1>1, <1>5, <1>7, <1>11, <2>1 DEF Engine!Sell
  <2>3. t.entry = p.entry /\ t.exit = m + 1
    BY <2>1
  <2>4. \E t1 : us = Append(ts, t1) /\ t1.entry = p.entry /\ t1.exit = m + 1
    BY <2>2, <2>3
  <2>5. Ledger(g, r, us)
    BY <1>2, <1>8, <1>9, <1>10, <1>11, <2>2, <2>4, OpenKeepsLedger
  <2> QED BY <1>5, <2>5
<1>12. CASE ~(m > 0 /\ p # NaN /\ f[m].leave)
  <2>1. r = p /\ us = ts
    BY <1>1, <1>5, <1>7, <1>12 DEF Engine!Keep
  <2>2. Ledger(g, r, us)
    BY <1>2, <1>8, <1>9, <1>10, <1>12, <2>1, OpenKeepsLedger
  <2> QED BY <1>5, <2>2
<1> QED BY <1>11, <1>12

LEMMA HoldStep ==
  ASSUME HoldInv, SignalInv', [StrategyNext]_strategyVars
  PROVE  HoldInv'
<1>1. ASSUME NEW s \in Settings, StartReplay(s) PROVE HoldInv'
  <2>1. settings = NaN /\ bars = <<>> /\ bars' = <<>> /\ pos' = pos /\ trades' = trades
    BY <1>1 DEF StartReplay, HoldInv, SignalInv, replayVars
  <2>2. Ledger(bars', pos', trades')
    BY <2>1 DEF HoldInv
  <2>3. FrameInv'
    <3>1. CandlesOf(bars', Len(bars')) /\ Len(bars') = 0
      BY <2>1, EmptyLedger
    <3> QED BY <3>1 DEF FrameInv
  <2> QED BY <2>2, <2>3 DEF HoldInv
<1>2. ASSUME NEW c \in Shapes, EvaluationRaises(c) PROVE HoldInv'
  <2>1. bars' = <<>> /\ pos' = NaN /\ trades' = <<>>
    BY <1>2 DEF EvaluationRaises
  <2>2. Ledger(bars', pos', trades') /\ CandlesOf(bars', Len(bars')) /\ Len(bars') = 0
    BY <2>1, EmptyLedger
  <2> QED BY <2>2 DEF HoldInv, FrameInv
<1>3. CASE ReplayStep
  BY <1>3, ReplayStepKeepsHold
<1>4. ASSUME NEW s \in Settings, NEW i \in DOMAIN Frames, Evaluate(s, i) PROVE HoldInv'
  BY <1>4 DEF Evaluate, HoldInv, FrameInv, replayVars
<1>5. CASE UNCHANGED strategyVars
  BY <1>5 DEF strategyVars, replayVars, HoldInv, FrameInv
<1>6. ASSUME NEW c \in Shapes, EvaluateBar(c) PROVE HoldInv'
  BY <1>6, EvaluateBarKeepsFrame, EvaluateBarKeepsLedger DEF HoldInv
<1> QED BY <1>1, <1>2, <1>3, <1>4, <1>5, <1>6 DEF StrategyNext

LEMMA HoldInductive == Spec => []HoldInv
<1>1. Init => Ledger(bars, pos, trades) /\ FrameInv
  BY EmptyLedger DEF Init, StrategyInit, Engine!Init, FrameInv
<1>2. HoldInv /\ SignalInv' /\ [Next]_vars => HoldInv'
  <2>1. [Next]_vars => [StrategyNext]_strategyVars
    BY DEF Next, vars
  <2> QED BY <2>1, HoldStep
<1>3. Init /\ SignalInv => HoldInv
  BY <1>1 DEF HoldInv
<1> QED BY <1>2, <1>3, SignalInductive, PTL DEF Spec

LEMMA HoldInvImplies ==
  ASSUME HoldInv
  PROVE  HeldOnlyWithTheTrend
<1>1. PICK m, f, s : m = Len(bars) /\ f = bars /\ s = settings
  OBVIOUS
<1>2. m \in Nat /\ CandlesOf(f, m) /\ Prices(f, m)
  BY <1>1 DEF HoldInv, SignalInv, FrameInv, CandlesOf, Prices
<1>3. ASSUME NEW p \in Positions
      PROVE  p.entry \in 2 .. m + 1 /\ p.last \in p.entry - 1 .. m /\ Stretch(f, p.entry, p.last)
  <2>1. ASSUME NEW j \in DOMAIN trades, p = [entry |-> trades[j].entry, last |-> trades[j].exit - 1]
        PROVE  p.entry \in 2 .. m + 1 /\ p.last \in p.entry - 1 .. m /\ Stretch(f, p.entry, p.last)
    <3>1. PICK e, x : e = trades[j].entry /\ x = trades[j].exit
      OBVIOUS
    <3>2. j \in 1 .. Len(trades)
      BY DEF HoldInv, Ledger, Series
    <3>3. e \in 2 .. m /\ x \in e .. m /\ Stretch(f, e, x - 1)
      BY <1>1, <3>1, <3>2 DEF HoldInv, Ledger
    <3>4. p.entry = e /\ p.last = x - 1
      BY <2>1, <3>1
    <3> QED BY <1>2, <3>3, <3>4
  <2>2. ASSUME pos # NaN, p = [entry |-> pos.entry, last |-> Len(bars)]
        PROVE  p.entry \in 2 .. m + 1 /\ p.last \in p.entry - 1 .. m /\ Stretch(f, p.entry, p.last)
    <3>1. pos.entry \in 2 .. m /\ Stretch(f, pos.entry, m)
      BY <1>1, <2>2 DEF HoldInv, Ledger
    <3>2. p.entry = pos.entry /\ p.last = m
      BY <1>1, <2>2
    <3> QED BY <1>2, <3>1, <3>2
  <2> QED BY <2>1, <2>2 DEF Positions
<1>4. ASSUME NEW p \in Positions
      PROVE  s # NaN /\ s \in Settings /\ f = WithSignals(f, s)
  <2>1. m > 0
    BY <1>2, <1>3
  <2>2. bars # <<>>
    <3>1. Len(<<>>) = 0
      OBVIOUS
    <3> QED BY <1>1, <2>1, <3>1
  <2>3. settings # NaN
    BY <2>2 DEF HoldInv, SignalInv
  <2>4. step # "failed"
    BY <2>2 DEF HoldInv, FrameInv
  <2> QED BY <1>1, <2>3, <2>4 DEF HoldInv, SignalInv
<1>5. ASSUME NEW p \in Positions, s.slug = "supertrend_v6_pro"
      PROVE  /\ Above(TopPrice(f, s.use_wicks, p.entry - 1), f[p.entry - 2].trend.short)
             /\ \A x \in p.entry .. p.last :
                  /\ f[x].leave <=> Above(f[x - 1].trend.long, LowPrice(f, s.use_wicks, x))
                  /\ f[x].leave => x = p.last
  <2>1. PICK e, last : /\ e \in 2 .. m + 1 /\ last \in e - 1 .. m
                       /\ e = p.entry /\ last = p.last /\ Stretch(f, e, last)
    BY <1>3
  <2>2. /\ Above(TopPrice(f, s.use_wicks, e - 1), f[e - 2].trend.short)
        /\ \A x \in e .. last :
             /\ f[x].leave <=> Above(f[x - 1].trend.long, LowPrice(f, s.use_wicks, x))
             /\ f[x].leave => x = last
    BY <1>2, <1>4, <1>5, <2>1, SuperTrendHeld
  <2> QED BY <2>1, <2>2
<1>6. ASSUME NEW p \in Positions, s.slug # "supertrend_v6_pro"
      PROVE  OnTheLine(f, p.entry, p.last)
  <2>1. PICK e, last : /\ e \in 2 .. m + 1 /\ last \in e - 1 .. m
                       /\ e = p.entry /\ last = p.last /\ Stretch(f, e, last)
    BY <1>3
  <2>2. s \in Settings /\ f = WithSignals(f, s) /\ s # NaN
    BY <1>4
  <2>3. s.slug \in {"intraday_vwap_pullback", "swing_trend_pullback"}
    BY <1>6, <2>2, StrategyAssumption
  <2>4. CASE s.slug = "intraday_vwap_pullback"
    <3>1. \A x \in 1 .. m : Vwap(f)[x] # NaN
      BY <1>1, <2>2, <2>4 DEF HoldInv, FrameInv
    <3>2. OnTheLine(f, e, last)
      BY <1>2, <2>1, <2>2, <2>4, <3>1, VwapHeld
    <3> QED BY <2>1, <3>2
  <2>5. CASE s.slug = "swing_trend_pullback"
    <3>1. OnTheLine(f, e, last)
      BY <1>2, <2>1, <2>2, <2>5, SwingHeld
    <3> QED BY <2>1, <3>1
  <2> QED BY <2>3, <2>4, <2>5
<1>7. ASSUME NEW p \in Positions
      PROVE  LET b == p.entry - 1
                 close1(x) == Whole(bars[x].close)
                 top(x) == Whole(IF settings.use_wicks THEN bars[x].high ELSE bars[x].close)
                 low(x) == Whole(IF settings.use_wicks THEN bars[x].low ELSE bars[x].close)
             IN  IF settings.slug = "supertrend_v6_pro"
                 THEN /\ Above(top(b), bars[b - 1].trend.short)
                      /\ \A x \in b + 1 .. p.last :
                           /\ bars[x].leave <=> Above(bars[x - 1].trend.long, low(x))
                           /\ bars[x].leave => x = p.last
                 ELSE /\ Above(close1(b), bars[b].trend)
                      /\ \A x \in b .. p.last : Above(bars[x].trend, close1(x)) => bars[x].leave
  <2>1. PICK e \in 2 .. m + 1 : e = p.entry
    BY <1>3
  <2>2. e - 1 + 1 = e /\ e - 1 - 1 = e - 2
    OBVIOUS
  <2>3. CASE s.slug = "supertrend_v6_pro"
    BY <1>1, <1>5, <2>1, <2>2, <2>3 DEF TopPrice, LowPrice
  <2>4. CASE s.slug # "supertrend_v6_pro"
    BY <1>1, <1>6, <2>1, <2>4 DEF OnTheLine
  <2> QED BY <1>1, <2>3, <2>4
<1> QED BY <1>7 DEF HeldOnlyWithTheTrend

(* Every position of every strategy rests on its trend, whatever the       *)
(* candles and the parameters: it is entered on a break-out and gives its  *)
(* exit signal at the first bar that breaks the level on the other side.   *)
THEOREM HeldWithTrend == Spec => []HeldOnlyWithTheTrend
<1>1. HoldInv => HeldOnlyWithTheTrend
  BY HoldInvImplies
<1> QED BY <1>1, HoldInductive, PTL

-----------------------------------------------------------------------------
(* The curves a backtest has built so far: points in time order, the first *)
(* of each curve 1.                                                        *)
Points == [at : 1 .. LastBar, equity : Positive]

Rising(curve) ==
  /\ Len(curve) \in Nat \ {0} /\ Series(curve, Len(curve)) /\ curve[1].equity = One
  /\ \A i \in 1 .. Len(curve) : curve[i] \in Points
  /\ \A i, j \in 1 .. Len(curve) : i < j => curve[i].at < curve[j].at

CurvesInv ==
  /\ Len(curves) \in Nat /\ Series(curves, Len(curves))
  /\ \A c \in 1 .. Len(curves) : Rising(curves[c])

LEMMA NewCurveRises ==
  ASSUME NEW t \in 1 .. LastBar
  PROVE  Rising(<<[at |-> t, equity |-> One]>>)
<1>1. PICK p : p = [at |-> t, equity |-> One]
  OBVIOUS
<1>2. p \in Points /\ p.equity = One
  <2>1. One \in Positive
    BY DEF One, Positive
  <2> QED BY <1>1, <2>1 DEF Points
<1>3. PICK f : f = <<p>>
  OBVIOUS
<1>4. Len(f) = 1 /\ DOMAIN f = 1 .. 1 /\ f[1] = p /\ f = [i \in 1 .. 1 |-> f[i]]
  BY <1>3
<1>5. \A i, j \in 1 .. 1 : i = 1 /\ ~(i < j)
  OBVIOUS
<1>6. Rising(f)
  BY <1>2, <1>4, <1>5 DEF Rising, Series
<1> QED BY <1>1, <1>3, <1>6

LEMMA LongerCurveRises ==
  ASSUME NEW f, Rising(f), NEW t \in 1 .. LastBar, Last(f).at < t, NEW e \in Equity
  PROVE  Rising(Append(f, [at |-> t, equity |-> e]))
<1>1. PICK p : p = [at |-> t, equity |-> e]
  OBVIOUS
<1>2. p \in Points /\ p.at = t
  <2>1. e \in Positive
    BY PortfolioAssumption DEF Positive
  <2> QED BY <1>1, <2>1 DEF Points
<1>3. PICK m \in Nat : m = Len(f) /\ m > 0 /\ Series(f, m) /\ \A i \in 1 .. m : f[i] \in Points
  BY DEF Rising
<1>4. PICK g : /\ g = Append(f, p) /\ Series(g, m + 1) /\ Len(g) = m + 1 /\ g[m + 1] = p
               /\ \A i \in 1 .. m : g[i] = f[i]
  <2>1. PICK g : g = Append(f, p)
    OBVIOUS
  <2>2. Series(g, m + 1) /\ g[m + 1] = p /\ \A i \in 1 .. m : g[i] = f[i]
    BY <1>3, <2>1, AppendIs
  <2>3. Len(g) = m + 1
    BY <1>3, <2>2 DEF Series
  <2> QED BY <2>1, <2>2, <2>3
<1>5. g[1].equity = One
  BY <1>3, <1>4 DEF Rising
<1>6. \A i \in 1 .. m : f[i].at \in Int /\ f[i].at <= f[m].at
  <2>1. \A i \in 1 .. m : f[i].at \in Int
    BY <1>3 DEF Points
  <2>2. \A i \in 1 .. m : i = m \/ i < m
    BY <1>3
  <2>3. \A i \in 1 .. m : i < m => f[i].at < f[m].at
    BY <1>3 DEF Rising
  <2>4. m \in 1 .. m
    BY <1>3
  <2> QED BY <2>1, <2>2, <2>3, <2>4
<1>7. f[m].at < t /\ f[m].at \in Int /\ t \in Int
  BY <1>3, <1>6 DEF Last
<1>8. ASSUME NEW i \in 1 .. m + 1, NEW j \in 1 .. m + 1, i < j PROVE g[i].at < g[j].at
  <2>1. i \in 1 .. m /\ g[i] = f[i] /\ f[i].at \in Int /\ f[i].at <= f[m].at
    BY <1>3, <1>4, <1>6, <1>8
  <2>2. CASE j = m + 1
    <3>1. g[j].at = t
      BY <1>2, <1>4, <2>2
    <3> QED BY <1>7, <2>1, <3>1
  <2>3. CASE j \in 1 .. m
    <3>1. f[i].at < f[j].at
      BY <1>3, <1>8, <2>1, <2>3 DEF Rising
    <3>2. g[j] = f[j]
      BY <1>4, <2>3
    <3> QED BY <2>1, <3>1, <3>2
  <2> QED BY <1>3, <2>2, <2>3
<1>9. \A i \in 1 .. m + 1 : g[i] \in Points
  <2>1. \A i \in 1 .. m + 1 : i = m + 1 \/ i \in 1 .. m
    BY <1>3
  <2> QED BY <1>2, <1>3, <1>4, <2>1
<1>10. Rising(g)
  BY <1>3, <1>4, <1>5, <1>8, <1>9 DEF Rising
<1> QED BY <1>1, <1>4, <1>10

LEMMA CurvesStep ==
  ASSUME CurvesInv, [Next]_vars
  PROVE  CurvesInv'
<1>1. ASSUME NEW t \in 1 .. LastBar, NextSymbol(t) PROVE CurvesInv'
  <2>1. PICK m, f : m \in Nat /\ m = Len(curves) /\ f = curves /\ Series(f, m)
    BY DEF CurvesInv
  <2>2. PICK p, g : p = <<[at |-> t, equity |-> One]>> /\ g = Append(f, p) /\ g = curves'
    BY <1>1, <2>1 DEF NextSymbol
  <2>3. Rising(p) /\ \A c \in 1 .. m : Rising(f[c])
    BY <2>1, <2>2, NewCurveRises DEF CurvesInv
  <2>4. g = Append(f, p)
    BY <2>2
  <2>5. Series(g, m + 1) /\ g[m + 1] = p /\ \A c \in 1 .. m : g[c] = f[c]
    BY <2>1, <2>4, AppendIs
  <2>6. Len(g) = m + 1
    BY <2>1, <2>5 DEF Series
  <2>7. \A c \in 1 .. m + 1 : Rising(g[c])
    <3>1. \A c \in 1 .. m + 1 : c = m + 1 \/ c \in 1 .. m
      BY <2>1
    <3> QED BY <2>3, <2>5, <3>1, Zenon
  <2>8. PICK k : k \in Nat /\ k = m + 1
    BY <2>1
  <2>9. Len(curves') = k /\ Series(curves', k) /\ \A c \in 1 .. k : Rising(curves'[c])
    BY <2>2, <2>5, <2>6, <2>7, <2>8, Zenon
  <2> QED BY ONLY <2>8, <2>9, Zenon DEF CurvesInv
<1>2. ASSUME NEW t \in 1 .. LastBar, NEW e \in Equity, NextBar(t, e) PROVE CurvesInv'
  <2>1. PICK m, f : m \in Nat /\ m = Len(curves) /\ f = curves /\ Series(f, m)
    BY DEF CurvesInv
  <2>2. PICK p, g : /\ p = Append(f[m], [at |-> t, equity |-> e])
                    /\ g = [f EXCEPT ![m] = p] /\ g = curves'
    BY <1>2, <2>1 DEF NextBar
  <2>3. \A c \in 1 .. m : Rising(f[c])
    BY <2>1 DEF CurvesInv
  <2>4. m \in 1 .. m
    BY <1>2, <2>1 DEF NextBar, CurvesInv
  <2>5. Last(f[m]).at < t
    BY <1>2, <2>1 DEF NextBar, Last
  <2>6. Rising(p)
    BY <2>2, <2>3, <2>4, <2>5, LongerCurveRises
  <2>7. Series(g, m) /\ \A c \in 1 .. m : g[c] = IF c = m THEN p ELSE f[c]
    BY <2>1, <2>2 DEF Series
  <2>8. Len(g) = m
    BY <2>1, <2>7 DEF Series
  <2> QED BY <2>1, <2>2, <2>3, <2>6, <2>7, <2>8 DEF CurvesInv
<1>3. CASE UNCHANGED curves
  BY <1>3 DEF CurvesInv
<1> QED BY <1>1, <1>2, <1>3 DEF Next, PortfolioNext, vars

LEMMA CurvesInductive == Spec => []CurvesInv
<1>1. ASSUME Init PROVE CurvesInv
  <2>1. curves = <<>> /\ Len(<<>>) = 0
    BY <1>1 DEF Init, PortfolioInit
  <2>2. 1 .. 0 = {} /\ 0 \in Nat
    OBVIOUS
  <2>3. Series(<<>>, 0)
    BY <2>2 DEF Series
  <2> QED BY <2>1, <2>2, <2>3 DEF CurvesInv
<1> QED
  BY <1>1, CurvesStep, PTL DEF Spec

LEMMA CurvesOfBacktest ==
  ASSUME CurvesInv, curves # <<>>
  PROVE  AreCurves(curves, Len(curves), [c \in 1 .. Len(curves) |-> Len(curves[c])], LastBar)
<1>1. PICK m, f : m \in Nat /\ m = Len(curves) /\ f = curves /\ Series(f, m)
  BY DEF CurvesInv
<1>2. m # 0 /\ DOMAIN f = 1 .. m
  <2>1. f = [c \in 1 .. m |-> f[c]]
    BY <1>1 DEF Series
  <2> QED BY <1>1, <2>1
<1>3. ASSUME NEW c \in 1 .. m PROVE IsCurve(f[c], Len(f[c]), LastBar)
  <2>1. Rising(f[c])
    BY <1>1 DEF CurvesInv
  <2>2. PICK k, g : /\ g = f[c] /\ k = Len(g) /\ k \in Nat \ {0} /\ DOMAIN g = 1 .. k
                    /\ \A i \in 1 .. k : g[i] \in Points
    BY <2>1 DEF Rising, Series
  <2> QED BY <2>1, <2>2 DEF Rising, IsCurve, Points
<1> QED BY <1>1, <1>2, <1>3 DEF AreCurves

(* The portfolio of a backtest returns the mean of what its symbols do,    *)
(* whatever bars each of them has.                                         *)
THEOREM PortfolioReturns == Spec => []PortfolioReturnIsMean
<1>1. CurvesInv => PortfolioReturnIsMean
  <2> SUFFICES ASSUME CurvesInv, curves # <<>>
               PROVE  Same(Last(CombineEquityCurves(curves)).equity,
                           Mean([c \in DOMAIN curves |-> Last(curves[c]).equity]))
    BY DEF PortfolioReturnIsMean
  <2>1. LastBar \in Nat /\ DOMAIN curves = 1 .. Len(curves)
    BY PortfolioAssumption DEF CurvesInv, Series
  <2>2. Last(CombineEquityCurves(curves)).equity
          = Mean([c \in 1 .. Len(curves) |-> Last(curves[c]).equity])
    BY <2>1, CurvesOfBacktest, CombinedEnds
  <2>3. \A a : Same(a, a)
    BY DEF Same
  <2> QED BY <2>1, <2>2, <2>3
<1> QED
  BY <1>1, CurvesInductive, PTL

(* Its reported drawdown is no deeper than that of its worst symbol: no    *)
(* symbol causes a decline by starting late, pausing or ending early.      *)
THEOREM PortfolioDeclines == Spec => []PortfolioDrawdownBounded
<1>1. CurvesInv => PortfolioDrawdownBounded
  <2> SUFFICES ASSUME CurvesInv, curves # <<>>
               PROVE  \E c \in DOMAIN curves :
                        AtMost(MaxDrawdown(Equities(curves[c])),
                               MaxDrawdown(Equities(CombineEquityCurves(curves))))
    BY DEF PortfolioDrawdownBounded
  <2>1. LastBar \in Nat /\ DOMAIN curves = 1 .. Len(curves)
    BY PortfolioAssumption DEF CurvesInv, Series
  <2> QED BY <2>1, CurvesOfBacktest, CombinedDeclines
<1> QED
  BY <1>1, CurvesInductive, PTL

-----------------------------------------------------------------------------
(* Timeframes.  The plans are of four kinds.                               *)
PlainPlan(tf)  == /\ Plans[tf].rule = "none" /\ Plans[tf].factor = 1
                  /\ Plans[tf].base \in {1, 3, 5, 10, 15, 30, 60, Day}
BucketPlan(tf) == /\ Plans[tf].rule = "none" /\ Plans[tf].factor > 1
                  /\ Plans[tf].base * Plans[tf].factor \in {45, 120, 240}
WeekPlan(tf)   == Plans[tf].rule = "W-FRI" /\ Plans[tf].factor = 1 /\ Plans[tf].base = Day
MonthPlan(tf)  == Plans[tf].rule = "M" /\ Plans[tf].factor = 1 /\ Plans[tf].base = Day

LEMMA KindsOfPlans ==
  ASSUME NEW tf \in DOMAIN Plans
  PROVE  PlainPlan(tf) \/ BucketPlan(tf) \/ WeekPlan(tf) \/ MonthPlan(tf)
<1>1. /\ PlainPlan("m1") /\ PlainPlan("m3") /\ PlainPlan("m5") /\ PlainPlan("m10")
      /\ PlainPlan("m15") /\ PlainPlan("m30") /\ PlainPlan("h1") /\ PlainPlan("D1")
  BY DEF PlainPlan, Plans, Plain
<1>2. BucketPlan("m45") /\ BucketPlan("h2") /\ BucketPlan("h4")
  BY DEF BucketPlan, Plans
<1>3. WeekPlan("W1") /\ MonthPlan("M1")
  BY DEF WeekPlan, MonthPlan, Plans
<1>4. DOMAIN Plans = {"m1", "m3", "m5", "m10", "m15", "m30", "h1", "D1", "m45", "h2", "h4", "W1", "M1"}
  BY DEF Plans
<1> QED BY <1>1, <1>2, <1>3, <1>4

\* What ReadCandle asks of the time of a base candle.
OnGrid(t, tf) ==
  /\ Plans[tf].base = Day => t % Day = 0
  /\ Plans[tf].base < Day => t % Day # 0 /\ (t - MarketOpen) % Plans[tf].base = 0

Traded(t, tf) == Plans[tf].factor > 1 => t >= Anchor(t)

\* The time of a candle that gets into a bar, and the time of its bar.
Fits(t, tf) ==
  /\ t \in Nat /\ OnGrid(t, tf) /\ Traded(t, tf)
  /\ \E d \in MonthEnds : t \div Day <= d /\ d <= (t \div Day) + 31

LabelAt(t, tf) ==
  IF Plans[tf].rule # "none" THEN PeriodEnd(Plans[tf].rule, t)
  ELSE IF Plans[tf].factor = 1 THEN t ELSE BucketStart(t, Plans[tf].base * Plans[tf].factor)

Span(s, tf) == Period([at |-> s], tf)

\* s is the time of the bar of t, and its span holds u just when u has the same.
Splits(t, u, tf) ==
  LET s == LabelAt(t, tf)
      r == LabelAt(u, tf)
  IN  /\ s \in Nat
      /\ Span(s, tf).from <= u /\ u <= Span(s, tf).to <=> r = s
      /\ s < r => Span(s, tf).to < Span(r, tf).from

LEMMA PlainApart ==
  ASSUME NEW tf, PlainPlan(tf), NEW t, Fits(t, tf), NEW u, Fits(u, tf)
  PROVE  Splits(t, u, tf)
<1>1. LabelAt(t, tf) = t /\ LabelAt(u, tf) = u /\ t \in Nat /\ u \in Nat
  BY DEF PlainPlan, LabelAt, Fits
<1>2. PICK b : b = Plans[tf].base /\ b \in {1, 3, 5, 10, 15, 30, 60, Day}
  BY DEF PlainPlan
<1>3. \A s : Span(s, tf).from = s /\ Span(s, tf).to = s + b * 1 - 1
  BY <1>2 DEF PlainPlan, Span, Period
<1>4. b = Day => t % Day = 0 /\ u % Day = 0
  BY <1>2 DEF Fits, OnGrid
<1>5. b # Day => (t - 555) % b = 0 /\ (u - 555) % b = 0
  BY <1>2 DEF Fits, OnGrid, MarketOpen, Day
<1>6. t < u => t + b <= u
  BY <1>1, <1>2, <1>4, <1>5 DEF Day
<1>7. u < t => u + b <= t
  BY <1>1, <1>2, <1>4, <1>5 DEF Day
<1>8. b \in Nat \ {0}
  BY <1>2 DEF Day
<1> HIDE DEF Span
<1> QED BY <1>1, <1>3, <1>6, <1>7, <1>8 DEF Splits

\* A bucket of l minutes that starts at s on day d holds t.
InBucket(t, s, l, d, q) ==
  /\ d \in Nat /\ q \in Nat /\ s = 1440 * d + 555 + l * q
  /\ s <= t /\ t < s + l /\ 1440 * d <= t /\ t < 1440 * (d + 1)

LEMMA BucketIs ==
  ASSUME NEW l \in {45, 120, 240}, NEW t \in Nat, t >= Anchor(t)
  PROVE  \E d, q : InBucket(t, BucketStart(t, l), l, d, q)
<1>1. PICK d \in Nat : d = t \div 1440 /\ 1440 * d <= t /\ t < 1440 * (d + 1)
  OBVIOUS
<1>2. Anchor(t) = 1440 * d + 555
  BY <1>1 DEF Anchor, Day, MarketOpen
<1>3. PICK x \in Nat : x = t - Anchor(t)
  BY <1>2
<1>4. PICK q \in Nat : q = x \div l /\ l * q <= x /\ x < l * q + l
  OBVIOUS
<1>5. BucketStart(t, l) = 1440 * d + 555 + l * q
  BY <1>2, <1>3, <1>4 DEF BucketStart
<1>6. 1440 * d + 555 + l * q <= t /\ t < (1440 * d + 555 + l * q) + l
  BY <1>2, <1>3, <1>4
<1>7. InBucket(t, BucketStart(t, l), l, d, q)
  BY <1>1, <1>4, <1>5, <1>6 DEF InBucket
<1> QED BY <1>7

LEMMA BucketApart ==
  ASSUME NEW tf, BucketPlan(tf), NEW t, Fits(t, tf), NEW u, Fits(u, tf)
  PROVE  Splits(t, u, tf)
<1>1. PICK l \in {45, 120, 240} : l = Plans[tf].base * Plans[tf].factor
  BY DEF BucketPlan
<1>2. PICK s, r : s = BucketStart(t, l) /\ r = BucketStart(u, l)
  OBVIOUS
<1>3. LabelAt(t, tf) = s /\ LabelAt(u, tf) = r /\ t \in Nat /\ u \in Nat
  BY <1>1, <1>2 DEF BucketPlan, LabelAt, Fits
<1>4. \A x : Span(x, tf).from = x /\ Span(x, tf).to = x + l - 1
  BY <1>1 DEF BucketPlan, Span, Period
<1>5. t >= Anchor(t) /\ u >= Anchor(u)
  BY DEF BucketPlan, Fits, Traded
<1>6. PICK d, q : InBucket(t, s, l, d, q)
  BY <1>2, <1>3, <1>5, BucketIs
<1>7. PICK e, p : InBucket(u, r, l, e, p)
  BY <1>2, <1>3, <1>5, BucketIs
<1>8. /\ d \in Nat /\ q \in Nat /\ s = 1440 * d + 555 + l * q
      /\ s <= t /\ t < s + l /\ 1440 * d <= t /\ t < 1440 * (d + 1)
  BY <1>6 DEF InBucket
<1>9. /\ e \in Nat /\ p \in Nat /\ r = 1440 * e + 555 + l * p
      /\ r <= u /\ u < r + l /\ 1440 * e <= u /\ u < 1440 * (e + 1)
  BY <1>7 DEF InBucket
<1>10. s <= u /\ u <= s + l - 1 => r = s
  BY <1>3, <1>8, <1>9
<1>11. s < r => s + l - 1 < r
  BY <1>3, <1>8, <1>9
<1>12. r = s => s <= u /\ u <= s + l - 1
  BY <1>3, <1>8, <1>9
<1>13. s \in Nat
  BY <1>8
<1> HIDE DEF Span
<1> QED BY <1>3, <1>4, <1>10, <1>11, <1>12, <1>13 DEF Splits

(* Calendar periods: days are whole, a period ends on the first closing    *)
(* day not before it.                                                      *)
Closes(d, rule) == IF rule = "W-FRI" THEN d % 7 = 4 ELSE d \in MonthEnds

LEMMA PeriodEndIs ==
  ASSUME NEW rule, NEW t \in Nat, NEW k \in Nat, t \div Day = k,
         \E d \in k .. k + 31 : Closes(d, rule)
  PROVE  \E d \in k .. k + 31 : /\ PeriodEnd(rule, t) = 1440 * d /\ Closes(d, rule)
                                /\ \A e \in k .. k + 31 : Closes(e, rule) => d <= e
<1> DEFINE ends == {d \in k .. k + 31 : Closes(d, rule)}
<1>1. ends # {} /\ ends \in SUBSET Nat
  OBVIOUS
<1>2. PICK x : x = CHOOSE d \in ends : \A e \in ends : d <= e
  OBVIOUS
<1>3. PeriodEnd(rule, t) = Day * x
  BY <1>2 DEF PeriodEnd, Closes
<1>4. x \in ends /\ \A e \in ends : x <= e
  <2> HIDE DEF ends
  <2>1. \E d \in ends : \A e \in ends : d <= e
    BY <1>1, LeastNumber
  <2> QED BY <1>2, <2>1
<1> QED BY <1>3, <1>4 DEF Day

LEMMA WeekEndIs ==
  ASSUME NEW t \in Nat, t % Day = 0
  PROVE  \E k, e \in Nat : /\ t = 1440 * k /\ PeriodEnd("W-FRI", t) = 1440 * e
                           /\ e % 7 = 4 /\ k <= e /\ e <= k + 6
<1>1. PICK k \in Nat : k = t \div Day /\ t = 1440 * k
  BY DEF Day
<1>2. PICK d \in k .. k + 6 : d % 7 = 4
  <2>1. PICK q \in Nat, r \in 0 .. 6 : k = 7 * q + r
    <3>1. k = 7 * (k \div 7) + (k % 7) /\ k \div 7 \in Nat /\ k % 7 \in 0 .. 6
      OBVIOUS
    <3> QED BY <3>1
  <2>2. CASE r <= 4
    <3>1. (7 * q + 4) % 7 = 4
      OBVIOUS
    <3>2. 7 * q + 4 \in k .. k + 6
      BY <2>1, <2>2
    <3> QED BY <3>1, <3>2
  <2>3. CASE r > 4
    <3>1. (7 * q + 11) % 7 = 4
      OBVIOUS
    <3>2. 7 * q + 11 \in k .. k + 6
      BY <2>1, <2>3
    <3> QED BY <3>1, <3>2
  <2> QED BY <2>2, <2>3
<1>3. d \in k .. k + 31 /\ Closes(d, "W-FRI")
  BY <1>2 DEF Closes
<1>4. PICK e \in k .. k + 31 : /\ PeriodEnd("W-FRI", t) = 1440 * e /\ Closes(e, "W-FRI")
                               /\ \A x \in k .. k + 31 : Closes(x, "W-FRI") => e <= x
  BY <1>1, <1>3, PeriodEndIs
<1>5. e <= d /\ e % 7 = 4
  BY <1>3, <1>4 DEF Closes
<1> QED BY <1>1, <1>2, <1>4, <1>5

LEMMA WeekApart ==
  ASSUME NEW tf, WeekPlan(tf), NEW t, Fits(t, tf), NEW u, Fits(u, tf)
  PROVE  Splits(t, u, tf)
<1>1. t \in Nat /\ t % Day = 0 /\ u \in Nat /\ u % Day = 0
  BY DEF WeekPlan, Fits, OnGrid
<1>2. PICK k \in Nat, e \in Nat : /\ t = 1440 * k /\ PeriodEnd("W-FRI", t) = 1440 * e
                                  /\ e % 7 = 4 /\ k <= e /\ e <= k + 6
  BY <1>1, WeekEndIs
<1>3. PICK j \in Nat, f \in Nat : /\ u = 1440 * j /\ PeriodEnd("W-FRI", u) = 1440 * f
                                  /\ f % 7 = 4 /\ j <= f /\ f <= j + 6
  BY <1>1, WeekEndIs
<1>4. LabelAt(t, tf) = 1440 * e /\ LabelAt(u, tf) = 1440 * f
  BY <1>2, <1>3 DEF WeekPlan, LabelAt
<1>5. \A s : Span(s, tf).from = s - 6 * Day /\ Span(s, tf).to = s
  BY DEF WeekPlan, Span, Period
<1>6. Span(1440 * e, tf).from = 1440 * e - 6 * 1440 /\ Span(1440 * e, tf).to = 1440 * e
      /\ Span(1440 * f, tf).from = 1440 * f - 6 * 1440
  BY <1>5 DEF Day
<1>7. e < f => e + 7 <= f
  BY <1>2, <1>3
<1>8. f < e => f + 7 <= e
  BY <1>2, <1>3
<1>9. 1440 * e - 6 * 1440 <= 1440 * j /\ 1440 * j <= 1440 * e <=> e = f
  BY <1>3, <1>7, <1>8
<1>10. 1440 * e < 1440 * f => 1440 * e < 1440 * f - 6 * 1440
  BY <1>7
<1>11. 1440 * e = 1440 * f <=> e = f
  OBVIOUS
<1> HIDE DEF Span
<1> QED BY <1>3, <1>4, <1>6, <1>9, <1>10, <1>11 DEF Splits

LEMMA MaxOfNumbers ==
  ASSUME NEW m \in Nat, NEW S \in SUBSET (0 .. m), S # {}
  PROVE  Max(S) \in S /\ \A x \in S : x <= Max(S)
<1> DEFINE T == {d \in Nat : \E k \in S : d = m - k}
<1>1. \A k \in S : m - k \in T
  OBVIOUS
<1>2. PICK d \in T : \A e \in T : d <= e
  <2>1. T \in SUBSET Nat /\ T # {}
    BY <1>1
  <2> HIDE DEF T
  <2> QED BY <2>1, LeastNumber
<1>3. PICK k \in S : d = m - k
  OBVIOUS
<1>4. \A j \in S : k >= j
  BY <1>1, <1>2, <1>3
<1>5. Max(S) \in S /\ \A x \in S : Max(S) >= x
  BY <1>4 DEF Max
<1> QED BY <1>5

LEMMA MonthEndIs ==
  ASSUME NEW t \in Nat, t % Day = 0,
         \E d \in MonthEnds : t \div Day <= d /\ d <= (t \div Day) + 31
  PROVE  \E k, e \in Nat : /\ t = 1440 * k /\ PeriodEnd("M", t) = 1440 * e
                           /\ e \in MonthEnds /\ k <= e
                           /\ \A x \in MonthEnds : k <= x => e <= x
<1>1. PICK k \in Nat : k = t \div Day /\ t = 1440 * k
  BY DEF Day
<1>2. \A x \in MonthEnds : x \in Nat
  BY CandleAssumption
<1>3. PICK d \in k .. k + 31 : Closes(d, "M")
  BY <1>1, <1>2 DEF Closes
<1>4. PICK e \in k .. k + 31 : /\ PeriodEnd("M", t) = 1440 * e /\ Closes(e, "M")
                               /\ \A x \in k .. k + 31 : Closes(x, "M") => e <= x
  BY <1>1, <1>3, PeriodEndIs
<1>5. e \in MonthEnds /\ \A x \in k .. k + 31 : x \in MonthEnds => e <= x
  BY <1>4 DEF Closes
<1>6. \A x \in MonthEnds : k <= x => e <= x
  BY <1>2, <1>5
<1> QED BY <1>1, <1>4, <1>5, <1>6

LEMMA MonthStart ==
  ASSUME NEW tf, MonthPlan(tf), NEW e \in Nat
  PROVE  \E a \in Nat : /\ Span(1440 * e, tf).from = a /\ Span(1440 * e, tf).to = 1440 * e
                        /\ \A k \in Nat : a <= 1440 * k <=> \A x \in MonthEnds : x < e => x < k
<1> DEFINE prior == {d \in MonthEnds : d * Day < 1440 * e}
<1>1. \A x \in MonthEnds : x \in Nat
  BY CandleAssumption
<1>2. prior = {d \in MonthEnds : d < e}
  BY <1>1 DEF Day
<1>3. /\ Span(1440 * e, tf).from = IF prior = {} THEN 0 ELSE (Max(prior) + 1) * Day
      /\ Span(1440 * e, tf).to = 1440 * e
  BY DEF MonthPlan, Span, Period
<1> HIDE DEF prior
<1>4. CASE prior = {}
  <2>1. Span(1440 * e, tf).from = 0
    BY <1>3, <1>4
  <2>2. \A x \in MonthEnds : ~(x < e)
    BY <1>2, <1>4
  <2> QED BY <1>3, <2>1, <2>2
<1>5. CASE prior # {}
  <2>1. prior \in SUBSET (0 .. e)
    BY <1>1, <1>2
  <2>2. PICK x \in prior : x = Max(prior) /\ \A y \in prior : y <= x
    BY <1>5, <2>1, MaxOfNumbers
  <2>3. x \in Nat /\ Span(1440 * e, tf).from = 1440 * (x + 1)
    BY <1>3, <1>5, <2>1, <2>2 DEF Day
  <2>4. \A k \in Nat : 1440 * (x + 1) <= 1440 * k <=> x < k
    BY <2>3
  <2>5. \A k \in Nat : x < k <=> \A y \in MonthEnds : y < e => y < k
    BY <1>1, <1>2, <2>2, <2>3
  <2>6. 1440 * (x + 1) \in Nat
    BY <2>3
  <2> QED BY <1>3, <2>3, <2>4, <2>5, <2>6
<1> QED BY <1>4, <1>5

LEMMA MonthApart ==
  ASSUME NEW tf, MonthPlan(tf), NEW t, Fits(t, tf), NEW u, Fits(u, tf)
  PROVE  Splits(t, u, tf)
<1>1. t \in Nat /\ t % Day = 0 /\ u \in Nat /\ u % Day = 0
  BY DEF MonthPlan, Fits, OnGrid
<1>2. PICK k \in Nat, e \in Nat : /\ t = 1440 * k /\ PeriodEnd("M", t) = 1440 * e
                                  /\ e \in MonthEnds /\ k <= e
                                  /\ \A x \in MonthEnds : k <= x => e <= x
  BY <1>1, MonthEndIs DEF Fits
<1>3. PICK j \in Nat, f \in Nat : /\ u = 1440 * j /\ PeriodEnd("M", u) = 1440 * f
                                  /\ f \in MonthEnds /\ j <= f
                                  /\ \A x \in MonthEnds : j <= x => f <= x
  BY <1>1, MonthEndIs DEF Fits
<1>4. LabelAt(t, tf) = 1440 * e /\ LabelAt(u, tf) = 1440 * f
  BY <1>2, <1>3 DEF MonthPlan, LabelAt
<1>5. PICK a \in Nat : /\ Span(1440 * e, tf).from = a /\ Span(1440 * e, tf).to = 1440 * e
                       /\ \A i \in Nat : a <= 1440 * i <=> \A x \in MonthEnds : x < e => x < i
  BY <1>2, MonthStart
<1>6. PICK b \in Nat : /\ Span(1440 * f, tf).from = b
                       /\ \A i \in Nat : b <= 1440 * i <=> \A x \in MonthEnds : x < f => x < i
  BY <1>3, MonthStart
<1>8. \A x \in MonthEnds : x \in Nat
  BY CandleAssumption
<1>9. a <= 1440 * j /\ 1440 * j <= 1440 * e <=> e = f
  <2>1. ASSUME a <= 1440 * j, 1440 * j <= 1440 * e PROVE e = f
    <3>1. j <= e /\ \A x \in MonthEnds : x < e => x < j
      BY <1>2, <1>3, <1>5, <2>1
    <3>2. f <= e
      BY <1>2, <1>3, <3>1
    <3>3. ~(f < e)
      BY <1>3, <3>1
    <3> QED BY <3>2, <3>3
  <2>2. ASSUME e = f PROVE a <= 1440 * j /\ 1440 * j <= 1440 * e
    <3>1. \A x \in MonthEnds : x < e => x < j
      BY <1>3, <1>8, <2>2
    <3> QED BY <1>3, <1>5, <2>2, <3>1
  <2> QED BY <2>1, <2>2
<1>10. e < f => 1440 * e < b
  <2> SUFFICES ASSUME e < f, b <= 1440 * e PROVE FALSE
    BY <1>2, <1>6
  <2>1. e \in MonthEnds /\ (e < f => e < e)
    BY <1>2, <1>6
  <2> QED BY <2>1
<1>11. 1440 * e = 1440 * f <=> e = f
  OBVIOUS
<1>12. 1440 * e < 1440 * f <=> e < f
  OBVIOUS
<1> HIDE DEF Span
<1> QED BY <1>3, <1>4, <1>5, <1>6, <1>9, <1>10, <1>11, <1>12 DEF Splits

(* Whatever the timeframe, the span of a bar holds the candles of the bar  *)
(* and no others, and spans do not overlap.                                *)
LEMMA SpansSplit ==
  ASSUME NEW tf \in DOMAIN Plans, NEW t, Fits(t, tf), NEW u, Fits(u, tf)
  PROVE  Splits(t, u, tf)
BY KindsOfPlans, PlainApart, BucketApart, WeekApart, MonthApart

-----------------------------------------------------------------------------
(* Bars.  Of the candles at some positions there is a highest and a lowest.*)
Numbers(h, P, m) ==
  m \in Nat /\ P \in SUBSET (1 .. m) /\ P # {} /\ \A i \in P : i \in 1 .. m /\ h[i] \in Int

LEMMA HighestOf ==
  ASSUME NEW h, NEW P, NEW m, Numbers(h, P, m)
  PROVE  \E i \in P : \A j \in P : h[j] <= h[i]
<1> DEFINE Q(k) == {i \in P : i <= k}
           N == {k \in 0 .. m : Q(k) # {} => \E i \in Q(k) : \A j \in Q(k) : h[j] <= h[i]}
<1>0. m \in Nat /\ \A i \in P : i \in 1 .. m /\ h[i] \in Int
  BY DEF Numbers
<1>1. 0 \in N
  <2>1. Q(0) = {}
    BY <1>0
  <2> HIDE DEF Q
  <2> QED BY <1>0, <2>1
<1>2. ASSUME NEW k \in 1 .. m, k - 1 \in N PROVE k \in N
  <2>1. CASE k \notin P
    <3>1. \A i \in P : i <= k <=> i <= k - 1
      BY <1>0, <2>1
    <3>2. Q(k) = Q(k - 1)
      BY <3>1
    <3> HIDE DEF Q
    <3> QED BY <1>2, <3>2
  <2>2. CASE k \in P
    <3>0. \A i \in P : i <= k <=> i <= k - 1 \/ i = k
      BY <1>0, <2>2
    <3>1. Q(k) = Q(k - 1) \cup {k}
      BY <2>2, <3>0
    <3> HIDE DEF Q
    <3>2. CASE Q(k - 1) = {}
      <4>1. Q(k) = {k} /\ h[k] \in Int
        BY <1>0, <2>2, <3>1, <3>2
      <4>2. \E i \in Q(k) : \A j \in Q(k) : h[j] <= h[i]
        BY <4>1
      <4> QED BY <4>2
    <3>3. CASE Q(k - 1) # {}
      <4>1. PICK i \in Q(k - 1) : \A j \in Q(k - 1) : h[j] <= h[i]
        BY <1>2, <3>3
      <4>2. h[i] \in Int /\ h[k] \in Int /\ \A j \in Q(k - 1) : h[j] \in Int
        BY <1>0, <2>2 DEF Q
      <4>3. CASE h[i] <= h[k]
        <5>1. k \in Q(k) /\ \A j \in Q(k) : h[j] <= h[k]
          BY <3>1, <4>1, <4>2, <4>3
        <5>2. \E x \in Q(k) : \A j \in Q(k) : h[j] <= h[x]
          BY <5>1
        <5> QED BY <5>2
      <4>4. CASE ~(h[i] <= h[k])
        <5>1. i \in Q(k) /\ \A j \in Q(k) : h[j] <= h[i]
          BY <3>1, <4>1, <4>2, <4>4
        <5>2. \E x \in Q(k) : \A j \in Q(k) : h[j] <= h[x]
          BY <5>1
        <5> QED BY <5>2
      <4> QED BY <4>3, <4>4
    <3> QED BY <3>2, <3>3
  <2> QED BY <2>1, <2>2
<1>3. m \in N
  <2> HIDE DEF N
  <2> QED BY <1>0, <1>1, <1>2, Induct
<1>4. Q(m) = P /\ P # {} /\ m \in 0 .. m
  <2>1. \A i \in P : i <= m
    BY <1>0
  <2>2. P # {} /\ m \in 0 .. m
    BY <1>0 DEF Numbers
  <2> QED BY <2>1, <2>2
<1> HIDE DEF Q
<1> QED BY <1>3, <1>4

LEMMA LowestOf ==
  ASSUME NEW h, NEW P, NEW m, Numbers(h, P, m)
  PROVE  \E i \in P : \A j \in P : h[i] <= h[j]
<1> DEFINE g == [i \in P |-> -h[i]]
<1>1. \A i \in P : g[i] = -h[i] /\ g[i] \in Int /\ h[i] \in Int
  BY DEF Numbers
<1> HIDE DEF g
<1>2. Numbers(g, P, m)
  BY <1>1 DEF Numbers
<1>3. PICK i \in P : \A j \in P : g[j] <= g[i]
  BY <1>2, HighestOf
<1>4. \A j \in P : h[i] <= h[j]
  BY <1>1, <1>3
<1> QED BY <1>4

LEMMA MaxIs ==
  ASSUME NEW h, NEW P, NEW m, Numbers(h, P, m)
  PROVE  \E i \in P : Max({h[j] : j \in P}) = h[i] /\ \A j \in P : h[j] <= h[i]
<1>1. PICK i \in P : \A j \in P : h[j] <= h[i]
  BY HighestOf
<1> DEFINE S == {h[j] : j \in P}
<1>2. h[i] \in S /\ \A y \in S : y \in Int /\ y <= h[i]
  BY <1>1 DEF Numbers
<1> HIDE DEF S
<1>3. \A x \in S : (\A y \in S : x >= y) => x = h[i]
  BY <1>2
<1>4. Max(S) = h[i]
  BY <1>2, <1>3 DEF Max
<1> QED BY <1>1, <1>4 DEF S

LEMMA MinIs ==
  ASSUME NEW h, NEW P, NEW m, Numbers(h, P, m)
  PROVE  \E i \in P : Min({h[j] : j \in P}) = h[i] /\ \A j \in P : h[i] <= h[j]
<1>1. PICK i \in P : \A j \in P : h[i] <= h[j]
  BY LowestOf
<1> DEFINE S == {h[j] : j \in P}
<1>2. h[i] \in S /\ \A y \in S : y \in Int /\ h[i] <= y
  BY <1>1 DEF Numbers
<1> HIDE DEF S
<1>3. \A x \in S : (\A y \in S : x <= y) => x = h[i]
  BY <1>2
<1>4. Min(S) = h[i]
  BY <1>2, <1>3 DEF Min
<1> QED BY <1>1, <1>4 DEF S

\* The bar of the candles at the positions in P.
BarOf(f, P, s) ==
  [at |-> s, open |-> f[Min(P)].open, close |-> f[Max(P)].close,
   high |-> Max({f[i].high : i \in P}), low |-> Min({f[i].low : i \in P}), volume |-> Volume(f, P)]

\* What a bar says of the candles it stands for.
Tells(b, f, P, s) ==
  /\ b.at = s
  /\ \E i \in P : b.open = f[i].open /\ \A j \in P : i <= j
  /\ \E i \in P : b.close = f[i].close /\ \A j \in P : j <= i
  /\ \E i, j \in P : b.high = f[i].high /\ b.low = f[j].low
  /\ \A i \in P : b.low <= f[i].low /\ f[i].high <= b.high
  /\ b.volume = Volume(f, P)

LEMMA BarTells ==
  ASSUME NEW m \in Nat, NEW P \in SUBSET (1 .. m), P # {}, NEW f, NEW s,
         \A i \in P : f[i].high \in Int /\ f[i].low \in Int
  PROVE  Tells(BarOf(f, P, s), f, P, s)
<1>0. \A i \in P : i \in 1 .. m
  OBVIOUS
<1>1. PICK b : b = BarOf(f, P, s)
  OBVIOUS
<1>2. /\ b.at = s /\ b.open = f[Min(P)].open /\ b.close = f[Max(P)].close
      /\ b.high = Max({f[i].high : i \in P}) /\ b.low = Min({f[i].low : i \in P})
      /\ b.volume = Volume(f, P)
  BY <1>1 DEF BarOf
<1>3. Max(P) \in P /\ \A j \in P : j <= Max(P)
  <2>1. P \in SUBSET (0 .. m)
    OBVIOUS
  <2> QED BY <2>1, MaxOfNumbers
<1>4. Min(P) \in P /\ \A j \in P : Min(P) <= j
  <2> DEFINE h == [i \in P |-> i]
  <2>1. {h[j] : j \in P} = P /\ \A i \in P : h[i] = i
    OBVIOUS
  <2> HIDE DEF h
  <2>2. Numbers(h, P, m)
    BY <1>0, <2>1 DEF Numbers
  <2>3. PICK i \in P : Min({h[j] : j \in P}) = h[i] /\ \A j \in P : h[i] <= h[j]
    BY <2>2, MinIs
  <2> QED BY <2>1, <2>3
<1>5. PICK i \in P : b.high = f[i].high /\ \A j \in P : f[j].high <= f[i].high
  <2> DEFINE h == [j \in P |-> f[j].high]
  <2>1. {h[j] : j \in P} = {f[j].high : j \in P} /\ \A j \in P : h[j] = f[j].high /\ h[j] \in Int
    OBVIOUS
  <2> HIDE DEF h
  <2>2. Numbers(h, P, m)
    BY <1>0, <2>1 DEF Numbers
  <2>3. PICK i \in P : Max({h[j] : j \in P}) = h[i] /\ \A j \in P : h[j] <= h[i]
    BY <2>2, MaxIs
  <2>4. b.high = h[i]
    BY <1>2, <2>1, <2>3
  <2> QED BY <2>1, <2>3, <2>4
<1>6. PICK n \in P : b.low = f[n].low /\ \A j \in P : f[n].low <= f[j].low
  <2> DEFINE h == [j \in P |-> f[j].low]
  <2>1. {h[j] : j \in P} = {f[j].low : j \in P} /\ \A j \in P : h[j] = f[j].low /\ h[j] \in Int
    OBVIOUS
  <2> HIDE DEF h
  <2>2. Numbers(h, P, m)
    BY <1>0, <2>1 DEF Numbers
  <2>3. PICK x \in P : Min({h[j] : j \in P}) = h[x] /\ \A j \in P : h[x] <= h[j]
    BY <2>2, MinIs
  <2>4. b.low = h[x]
    BY <1>2, <2>1, <2>3
  <2> QED BY <2>1, <2>3, <2>4
<1>7. Tells(b, f, P, s)
  BY <1>2, <1>3, <1>4, <1>5, <1>6 DEF Tells
<1> QED BY <1>1, <1>7

Amounts(h, P, m) ==
  m \in Nat /\ P \in SUBSET (1 .. m) /\ \A i \in P : i \in 1 .. m /\ h[i] \in Nat

LEMMA Bounded ==
  ASSUME NEW h, NEW P, NEW m, Amounts(h, P, m)
  PROVE  \E top \in Nat : {h[i] : i \in P} \in SUBSET (0 .. top)
<1>1. CASE P = {}
  BY <1>1
<1>2. CASE P # {}
  <2>0. \A i \in P : i \in 1 .. m /\ h[i] \in Int /\ h[i] \in Nat
    BY DEF Amounts
  <2>1. PICK i \in P : \A j \in P : h[j] <= h[i]
    <3>1. Numbers(h, P, m)
      BY <1>2, <2>0 DEF Numbers, Amounts
    <3> QED BY <3>1, HighestOf
  <2>2. h[i] \in Nat /\ {h[j] : j \in P} \in SUBSET (0 .. h[i])
    BY <2>0, <2>1
  <2> QED BY <2>2
<1> QED BY <1>1, <1>2

\* A table of base candles of a timeframe.
IsTable(f, m, tf) ==
  /\ m \in Nat /\ DOMAIN f = 1 .. m
  /\ \A i \in 1 .. m : f[i] \in BaseCandles /\ OnGrid(f[i].at, tf)
  /\ \A i, j \in 1 .. m : i < j => f[i].at < f[j].at

\* The positions that count, the times of their bars, and those of one bar.
Counting(f, kept, tf) == {i \in kept : Traded(f[i].at, tf)}
Labels(f, T, tf)      == {LabelAt(f[i].at, tf) : i \in T}
PartOf(f, T, s, tf)   == {i \in T : LabelAt(f[i].at, tf) = s}

OneBar(f, P, s, tf) == IF PlainPlan(tf) THEN f[Min(P)] ELSE BarOf(f, P, s)

LEMMA TableFits ==
  ASSUME NEW tf, NEW f, NEW m, IsTable(f, m, tf), NEW i \in 1 .. m, Traded(f[i].at, tf)
  PROVE  /\ Fits(f[i].at, tf) /\ f[i].at \in Nat
         /\ f[i].high \in Int /\ f[i].low \in Int /\ f[i].volume \in Nat
<1>1. f[i] \in BaseCandles /\ OnGrid(f[i].at, tf)
  BY DEF IsTable
<1>2. /\ f[i].at \in Nat /\ f[i].high \in Int /\ f[i].low \in Int /\ f[i].volume \in Nat
      /\ \E d \in MonthEnds : f[i].at \div Day <= d /\ d <= (f[i].at \div Day) + 31
  BY <1>1, CandleAssumption
<1> QED BY <1>1, <1>2 DEF Fits

LEMMA LabelsAre ==
  ASSUME NEW tf \in DOMAIN Plans, NEW f, NEW m, IsTable(f, m, tf), NEW T \in SUBSET (1 .. m),
         \A i \in T : Traded(f[i].at, tf)
  PROVE  /\ \A i \in T : LabelAt(f[i].at, tf) \in Nat
         /\ \E k : Orders(InOrder(Labels(f, T, tf)), k, Labels(f, T, tf))
<1>1. m \in Nat /\ \A i \in T : i \in 1 .. m
  BY DEF IsTable
<1>2. \A i \in T : LabelAt(f[i].at, tf) \in Nat
  <2> TAKE i \in T
  <2>1. Fits(f[i].at, tf)
    BY <1>1, TableFits
  <2> QED BY <2>1, SpansSplit DEF Splits
<1> DEFINE h == [i \in T |-> LabelAt(f[i].at, tf)]
<1>3. Labels(f, T, tf) = {h[i] : i \in T} /\ \A i \in T : h[i] \in Nat
  BY <1>2 DEF Labels
<1> HIDE DEF h
<1>4. PICK top \in Nat : {h[i] : i \in T} \in SUBSET (0 .. top)
  <2>1. Amounts(h, T, m)
    BY <1>1, <1>3 DEF Amounts
  <2> QED BY <2>1, Bounded
<1>5. \E k : Orders(InOrder(Labels(f, T, tf)), k, Labels(f, T, tf))
  BY <1>3, <1>4, InOrderIs
<1> QED BY <1>2, <1>5

\* The bars of a timeframe: s are their times, k of them.
AreBars(made, f, T, tf, k, s) ==
  /\ Orders(s, k, Labels(f, T, tf))
  /\ made = [n \in 1 .. k |-> OneBar(f, PartOf(f, T, s[n], tf), s[n], tf)]

LEMMA BarsAre ==
  ASSUME NEW tf \in DOMAIN Plans, ~PlainPlan(tf), NEW f, NEW m, IsTable(f, m, tf),
         NEW T \in SUBSET (1 .. m), \A i \in T : Traded(f[i].at, tf),
         NEW label, label = [i \in T |-> LabelAt(f[i].at, tf)]
  PROVE  \E k, s : AreBars(Bars(f, T, label), f, T, tf, k, s)
<1>1. PICK s, k : s = InOrder(Labels(f, T, tf)) /\ Orders(s, k, Labels(f, T, tf))
  BY LabelsAre
<1>2. {label[i] : i \in T} = Labels(f, T, tf)
  BY DEF Labels
<1>3. \A x : {i \in T : label[i] = x} = PartOf(f, T, x, tf)
  BY DEF PartOf
<1>4. DOMAIN s = 1 .. k
  BY <1>1 DEF Orders
<1>5. Bars(f, T, label) = [n \in DOMAIN s |-> BarOf(f, PartOf(f, T, s[n], tf), s[n])]
  BY <1>1, <1>2, <1>3 DEF Bars, BarOf
<1>6. \A x, P : OneBar(f, P, x, tf) = BarOf(f, P, x)
  BY DEF OneBar
<1>7. Bars(f, T, label) = [n \in 1 .. k |-> OneBar(f, PartOf(f, T, s[n], tf), s[n], tf)]
  BY <1>4, <1>5, <1>6
<1>8. AreBars(Bars(f, T, label), f, T, tf, k, s)
  BY ONLY <1>1, <1>7 DEF AreBars
<1> QED BY <1>8

LEMMA SamePlace ==
  ASSUME NEW tf, NEW f, NEW m, IsTable(f, m, tf), NEW i \in 1 .. m, NEW j \in 1 .. m,
         f[i].at = f[j].at
  PROVE  i = j
<1>1. f[i].at \in Nat /\ f[j].at \in Nat /\ i \in Int /\ j \in Int
  BY CandleAssumption DEF IsTable
<1>2. i < j => f[i].at < f[j].at
  BY DEF IsTable
<1>3. j < i => f[j].at < f[i].at
  BY DEF IsTable
<1> QED BY <1>1, <1>2, <1>3

LEMMA PlainPart ==
  ASSUME NEW tf, PlainPlan(tf), NEW f, NEW m, IsTable(f, m, tf), NEW T \in SUBSET (1 .. m), NEW j \in T
  PROVE  /\ LabelAt(f[j].at, tf) = f[j].at
         /\ PartOf(f, T, f[j].at, tf) = {j} /\ Min({j}) = j
<1>1. \A x : LabelAt(x, tf) = x
  BY DEF PlainPlan, LabelAt
<1>2. \A i \in T : i \in 1 .. m
  OBVIOUS
<1>3. \A i \in T : f[i].at = f[j].at => i = j
  BY <1>2, SamePlace
<1>4. PartOf(f, T, f[j].at, tf) = {j}
  BY <1>1, <1>3 DEF PartOf
<1>5. Min({j}) = j
  BY <1>2 DEF Min
<1> QED BY <1>1, <1>4, <1>5

LEMMA CandlesAre ==
  ASSUME NEW tf, PlainPlan(tf), NEW f, NEW m, IsTable(f, m, tf), NEW T \in SUBSET (1 .. m)
  PROVE  \E k, s : AreBars(Aggregate(f, T, tf), f, T, tf, k, s)
<1>1. m \in Nat /\ T \in SUBSET (0 .. m)
  BY DEF IsTable
<1>2. PICK order, k : order = InOrder(T) /\ Orders(order, k, T)
  BY <1>1, InOrderIs
<1> DEFINE s == [n \in 1 .. k |-> f[order[n]].at]
<1>3. /\ k \in Nat /\ DOMAIN order = 1 .. k /\ \A n \in 1 .. k : order[n] \in T
      /\ \A a, b \in 1 .. k : a < b => order[a] < order[b]
      /\ \A j \in T : \E n \in 1 .. k : order[n] = j
  BY <1>2 DEF Orders
<1>4. Aggregate(f, T, tf) = [n \in 1 .. k |-> f[order[n]]]
  BY <1>2, <1>3 DEF Aggregate, PlainPlan
<1>5. \A j \in T : /\ j \in 1 .. m /\ LabelAt(f[j].at, tf) = f[j].at
                   /\ PartOf(f, T, f[j].at, tf) = {j} /\ Min({j}) = j
  <2> TAKE j \in T
  <2> QED BY PlainPart
<1>6. \A n \in 1 .. k : OneBar(f, PartOf(f, T, s[n], tf), s[n], tf) = f[order[n]]
  BY <1>3, <1>5 DEF OneBar
<1>7. Labels(f, T, tf) = {f[j].at : j \in T}
  <2>1. \A j \in T : LabelAt(f[j].at, tf) = f[j].at
    BY <1>5
  <2> QED BY ONLY <2>1 DEF Labels
<1>8. \A n \in 1 .. k : s[n] \in Labels(f, T, tf)
  BY <1>3, <1>7
<1>9. \A a, b \in 1 .. k : a < b => s[a] < s[b]
  <2> SUFFICES ASSUME NEW a \in 1 .. k, NEW b \in 1 .. k, a < b PROVE f[order[a]].at < f[order[b]].at
    OBVIOUS
  <2>1. order[a] \in 1 .. m /\ order[b] \in 1 .. m /\ order[a] < order[b]
    BY <1>3, <1>5
  <2> QED BY <2>1 DEF IsTable
<1>10. \A x \in Labels(f, T, tf) : \E n \in 1 .. k : s[n] = x
  BY <1>3, <1>7
<1>11. s \in [1 .. k -> Labels(f, T, tf)] /\ DOMAIN s = 1 .. k
  BY <1>8
<1>12. Aggregate(f, T, tf) = [n \in 1 .. k |-> OneBar(f, PartOf(f, T, s[n], tf), s[n], tf)]
  BY <1>4, <1>6
<1> HIDE DEF s
<1>13. Orders(s, k, Labels(f, T, tf))
  BY <1>3, <1>9, <1>10, <1>11 DEF Orders
<1> QED BY <1>12, <1>13 DEF AreBars

(* Aggregation makes one bar per span that holds a candle.                 *)
LEMMA AggregateIs ==
  ASSUME NEW tf \in DOMAIN Plans, NEW f, NEW m, IsTable(f, m, tf), NEW kept \in SUBSET (1 .. m)
  PROVE  \E k, s : AreBars(Aggregate(f, kept, tf), f, Counting(f, kept, tf), tf, k, s)
<1>1. PICK T : T = Counting(f, kept, tf) /\ T \in SUBSET (1 .. m) /\ \A i \in T : Traded(f[i].at, tf)
  <2>1. \A i \in kept : i \in 1 .. m
    OBVIOUS
  <2>2. \A i \in Counting(f, kept, tf) : i \in kept /\ Traded(f[i].at, tf)
    BY DEF Counting
  <2>3. Counting(f, kept, tf) \in SUBSET (1 .. m)
    BY <2>1, <2>2
  <2> QED BY <2>2, <2>3
<1> DEFINE label == [i \in T |-> LabelAt(f[i].at, tf)]
<1>2. ~PlainPlan(tf) => \E k, s : AreBars(Bars(f, T, label), f, T, tf, k, s)
  BY <1>1, BarsAre
<1>3. CASE PlainPlan(tf)
  <2>1. T = kept
    BY <1>1, <1>3 DEF PlainPlan, Counting, Traded
  <2> QED BY <1>1, <1>3, <2>1, CandlesAre
<1>4. CASE BucketPlan(tf)
  <2>1. Plans[tf].rule = "none" /\ Plans[tf].factor > 1 /\ Plans[tf].factor # 1
    BY <1>4 DEF BucketPlan
  <2>2. T = Session(f, kept)
    BY <1>1, <2>1 DEF Counting, Traded, Session
  <2>3. label = [i \in T |-> BucketStart(f[i].at, Plans[tf].base * Plans[tf].factor)]
    BY <2>1 DEF LabelAt
  <2>4. Aggregate(f, kept, tf) = Bars(f, T, label)
    BY <2>1, <2>2, <2>3 DEF Aggregate, FixedFactor
  <2>5. ~PlainPlan(tf)
    BY <2>1 DEF PlainPlan
  <2> QED BY <1>1, <1>2, <2>4, <2>5
<1>5. CASE WeekPlan(tf) \/ MonthPlan(tf)
  <2>1. Plans[tf].rule # "none" /\ Plans[tf].factor = 1
    BY <1>5 DEF WeekPlan, MonthPlan
  <2>2. T = kept
    BY <1>1, <2>1 DEF Counting, Traded
  <2>3. label = [i \in T |-> PeriodEnd(Plans[tf].rule, f[i].at)]
    BY <2>1 DEF LabelAt
  <2>4. Aggregate(f, kept, tf) = Bars(f, T, label)
    BY <2>1, <2>2, <2>3 DEF Aggregate
  <2>5. ~PlainPlan(tf)
    BY <2>1 DEF PlainPlan
  <2> QED BY <1>1, <1>2, <2>4, <2>5
<1> QED BY <1>3, <1>4, <1>5, KindsOfPlans

LEMMA SpanIs ==
  ASSUME NEW b, NEW tf
  PROVE  Period(b, tf) = Span(b.at, tf)
BY DEF Period, Span

LEMMA VolumeOfOne ==
  ASSUME NEW tf, NEW f, NEW m, IsTable(f, m, tf), NEW j \in 1 .. m
  PROVE  f[j].volume = Volume(f, {j})
<1>1. m \in Nat /\ f[j].volume \in Nat /\ DOMAIN f = 1 .. m
  BY CandleAssumption DEF IsTable
<1> DEFINE xs == [i \in DOMAIN f |-> IF i \in {j} THEN f[i].volume ELSE 0]
<1>2. PICK v \in Nat : v = f[j].volume /\ xs = [i \in 1 .. m |-> IF i = j THEN v ELSE 0]
  BY <1>1
<1> HIDE DEF xs
<1>3. FoldLeft(LAMBDA x, y : x + y, 0, xs) = v
  <2>1. OnlyOne(xs, m, j, v)
    BY <1>1, <1>2 DEF OnlyOne
  <2> QED BY ONLY <2>1, SumOfOne, Zenon
<1>4. Volume(f, {j}) = FoldLeft(LAMBDA x, y : x + y, 0, xs)
  BY DEF Volume, xs
<1> QED BY <1>2, <1>3, <1>4, Zenon

(* A bar tells of the candles of its span.                                 *)
LEMMA OneBarTells ==
  ASSUME NEW tf \in DOMAIN Plans, NEW f, NEW m, IsTable(f, m, tf), NEW T \in SUBSET (1 .. m),
         \A i \in T : Traded(f[i].at, tf), NEW s \in Labels(f, T, tf)
  PROVE  Tells(OneBar(f, PartOf(f, T, s, tf), s, tf), f, PartOf(f, T, s, tf), s)
<1>1. PICK j \in T : s = LabelAt(f[j].at, tf)
  BY DEF Labels
<1>2. m \in Nat /\ \A i \in T : i \in 1 .. m
  BY DEF IsTable
<1>3. \A i \in T : f[i].high \in Int /\ f[i].low \in Int
  <2> TAKE i \in T
  <2> QED BY <1>2, TableFits
<1>4. CASE PlainPlan(tf)
  <2>1. s = f[j].at /\ PartOf(f, T, s, tf) = {j} /\ Min({j}) = j
    BY <1>1, <1>4, PlainPart
  <2>2. OneBar(f, PartOf(f, T, s, tf), s, tf) = f[j]
    BY <1>4, <2>1 DEF OneBar
  <2>3. f[j].volume = Volume(f, {j})
    BY <1>2, VolumeOfOne
  <2>4. f[j].high \in Int /\ f[j].low \in Int /\ j \in Int
    <3>1. f[j].high \in Int /\ f[j].low \in Int
      BY <1>3
    <3>2. j \in 1 .. m
      BY <1>2
    <3> QED BY <1>2, <3>1, <3>2
  <2>5. Tells(f[j], f, {j}, s)
    BY <2>1, <2>3, <2>4 DEF Tells
  <2> QED BY <2>1, <2>2, <2>5
<1>5. CASE ~PlainPlan(tf)
  <2>1. PICK P : P = PartOf(f, T, s, tf)
    OBVIOUS
  <2>2. P \in SUBSET (1 .. m) /\ P # {} /\ \A i \in P : i \in T
    BY <1>1, <1>2, <2>1 DEF PartOf
  <2>3. Tells(BarOf(f, P, s), f, P, s)
    BY <1>2, <1>3, <2>2, BarTells
  <2>4. OneBar(f, P, s, tf) = BarOf(f, P, s)
    BY <1>5 DEF OneBar
  <2> QED BY <2>1, <2>3, <2>4
<1> QED BY <1>4, <1>5

(* The span of a bar holds the candles it stands for.                      *)
LEMMA PartIsSpan ==
  ASSUME NEW tf \in DOMAIN Plans, NEW f, NEW m, IsTable(f, m, tf), NEW T \in SUBSET (1 .. m),
         \A i \in T : Traded(f[i].at, tf), NEW s \in Labels(f, T, tf)
  PROVE  /\ s \in Nat
         /\ \A i \in 1 .. m : Traded(f[i].at, tf) =>
              (Span(s, tf).from <= f[i].at /\ f[i].at <= Span(s, tf).to <=> LabelAt(f[i].at, tf) = s)
<1>1. PICK j \in T : s = LabelAt(f[j].at, tf)
  BY DEF Labels
<1>2. j \in 1 .. m
  OBVIOUS
<1>3. Fits(f[j].at, tf)
  BY <1>2, TableFits
<1>4. ASSUME NEW i \in 1 .. m, Traded(f[i].at, tf)
      PROVE  Splits(f[j].at, f[i].at, tf)
  BY <1>3, <1>4, TableFits, SpansSplit
<1>5. s \in Nat
  BY <1>1, <1>3, SpansSplit DEF Splits
<1> QED BY <1>1, <1>4, <1>5 DEF Splits

LEMMA SpansAscend ==
  ASSUME NEW tf \in DOMAIN Plans, NEW f, NEW m, IsTable(f, m, tf), NEW T \in SUBSET (1 .. m),
         \A i \in T : Traded(f[i].at, tf), NEW s \in Labels(f, T, tf), NEW r \in Labels(f, T, tf), s < r
  PROVE  Span(s, tf).to < Span(r, tf).from
<1>1. PICK j \in T, i \in T : s = LabelAt(f[j].at, tf) /\ r = LabelAt(f[i].at, tf)
  BY DEF Labels
<1>2. j \in 1 .. m /\ i \in 1 .. m
  OBVIOUS
<1>3. Fits(f[j].at, tf) /\ Fits(f[i].at, tf)
  BY <1>2, TableFits
<1> QED BY <1>1, <1>3, SpansSplit DEF Splits

(* The table is one of the timeframe asked for.                            *)
TableInv ==
  /\ asked \in DOMAIN Plans \cup {Unsupported}
  /\ asked = Unsupported => table = <<>>
  /\ Len(table) \in Nat /\ Series(table, Len(table)) /\ IsTable(table, Len(table), asked)

LEMMA EmptyTable ==
  ASSUME NEW tf
  PROVE  Len(<<>>) = 0 /\ Series(<<>>, 0) /\ IsTable(<<>>, 0, tf)
<1>1. 1 .. 0 = {} /\ 0 \in Nat /\ Len(<<>>) = 0 /\ DOMAIN <<>> = {}
  OBVIOUS
<1>2. Series(<<>>, 0)
  BY <1>1 DEF Series
<1> QED BY <1>1, <1>2 DEF IsTable

LEMMA ParseType ==
  ASSUME NEW v
  PROVE  Parse(v) \in DOMAIN Plans \cup {Unsupported}
BY DEF Parse

LEMMA TableStep ==
  ASSUME TableInv, [Next]_vars
  PROVE  TableInv'
<1>1. ASSUME NEW v, AskFor(v) PROVE TableInv'
  <2>1. table' = <<>> /\ asked' \in DOMAIN Plans \cup {Unsupported}
    BY <1>1, ParseType DEF AskFor, TableInv
  <2> QED BY <2>1, EmptyTable DEF TableInv
<1>2. CASE Prepare
  <2>1. table' = <<>> /\ asked' \in DOMAIN Plans \cup {Unsupported}
    BY <1>2, ParseType DEF Prepare, TableInv
  <2> QED BY <2>1, EmptyTable DEF TableInv
<1>3. ASSUME NEW c \in BaseCandles, ReadCandle(c) PROVE TableInv'
  <2>0. PICK f : f = table
    OBVIOUS
  <2>1. PICK m \in Nat : m = Len(table) /\ f = table /\ Series(f, m) /\ IsTable(f, m, asked)
    BY <2>0 DEF TableInv
  <2>2. PICK g : g = Append(f, c) /\ g = table'
    BY <1>3, <2>1 DEF ReadCandle
  <2>3. Series(g, m + 1) /\ g[m + 1] = c /\ \A i \in 1 .. m : g[i] = f[i]
    <3>1. Series(f, m)
      BY <2>1
    <3>2. Extends(Append(f, c), f, m, c)
      BY <3>1, AppendExtends
    <3>3. Extends(g, f, m, c)
      BY ONLY <2>2, <3>2
    <3> QED BY ONLY <3>3 DEF Extends
  <2>4. DOMAIN g = 1 .. m + 1 /\ Len(g) = m + 1
    BY <2>1, <2>3 DEF Series
  <2>5. OnGrid(c.at, asked) /\ (f # <<>> => Last(f).at < c.at)
    BY <1>3, <2>1 DEF ReadCandle, OnGrid
  <2>6. \A i \in 1 .. m : f[i] \in BaseCandles /\ f[i].at \in Nat /\ c.at \in Nat
    BY <2>1, CandleAssumption DEF IsTable
  <2>7. \A i \in 1 .. m + 1 : g[i] \in BaseCandles /\ OnGrid(g[i].at, asked)
    <3>1. \A i \in 1 .. m + 1 : i = m + 1 \/ i \in 1 .. m
      BY <2>1
    <3> QED BY <2>1, <2>3, <2>5, <3>1 DEF IsTable
  <2>8. ASSUME NEW i \in 1 .. m PROVE f[i].at < c.at
    <3>1. m \in 1 .. m /\ f # <<>> /\ Last(f) = f[m]
      BY <2>1 DEF Last
    <3>2. f[m].at < c.at
      BY <2>5, <3>1
    <3>3. i < m => f[i].at < f[m].at
      BY <2>1, <3>1 DEF IsTable
    <3> QED BY <2>1, <2>6, <3>1, <3>2, <3>3
  <2>9. ASSUME NEW i \in 1 .. m + 1, NEW j \in 1 .. m + 1, i < j PROVE g[i].at < g[j].at
    <3>1. i \in 1 .. m /\ g[i] = f[i]
      BY <2>1, <2>3, <2>9
    <3>2. CASE j = m + 1
      BY <2>3, <2>8, <3>1, <3>2
    <3>3. CASE j \in 1 .. m
      <4>1. f[i].at < f[j].at /\ g[j] = f[j]
        BY <2>1, <2>3, <2>9, <3>1, <3>3 DEF IsTable
      <4> QED BY <3>1, <4>1
    <3> QED BY <2>1, <3>2, <3>3
  <2>10. PICK k : k \in Nat /\ k = m + 1
    BY <2>1
  <2>11. IsTable(g, k, asked)
    BY <2>4, <2>7, <2>9, <2>10 DEF IsTable
  <2>12. Len(table') = k /\ Series(table', k) /\ IsTable(table', k, asked)
    BY <2>2, <2>3, <2>4, <2>10, <2>11, Zenon
  <2>13. asked' = asked /\ asked # Unsupported
    BY <1>3 DEF ReadCandle
  <2>14. asked \in DOMAIN Plans \cup {Unsupported}
    BY DEF TableInv
  <2> QED BY ONLY <2>10, <2>12, <2>13, <2>14, Zenon DEF TableInv
<1>4. CASE UNCHANGED candleVars
  BY <1>4 DEF TableInv, candleVars
<1>5. UNCHANGED vars => UNCHANGED candleVars
  BY DEF vars
<1> QED BY <1>1, <1>2, <1>3, <1>4, <1>5 DEF Next, CandleNext

LEMMA TableInductive == Spec => []TableInv
<1>1. ASSUME Init PROVE TableInv
  <2>1. table = <<>> /\ asked = Unsupported
    BY <1>1 DEF Init, CandleInit
  <2> QED BY <2>1, EmptyTable DEF TableInv
<1> QED
  BY <1>1, TableStep, PTL DEF Spec

(* The bars of a timeframe in the words of the properties.  Inside is the  *)
(* part of the counted positions whose candles lie in the period of b.     *)
Inside(f, T, b, tf) == {i \in T : Period(b, tf).from <= f[i].at /\ f[i].at <= Period(b, tf).to}

LEMMA EachBar ==
  ASSUME NEW tf \in DOMAIN Plans, NEW f, NEW m, IsTable(f, m, tf), NEW T \in SUBSET (1 .. m),
         \A i \in T : Traded(f[i].at, tf), NEW k, NEW s, NEW made, AreBars(made, f, T, tf, k, s),
         NEW n \in 1 .. k
  PROVE  /\ s[n] \in Labels(f, T, tf) /\ s[n] \in Nat
         /\ made[n] = OneBar(f, PartOf(f, T, s[n], tf), s[n], tf)
         /\ Inside(f, T, made[n], tf) = PartOf(f, T, s[n], tf)
         /\ Tells(made[n], f, PartOf(f, T, s[n], tf), s[n])
<1>1. s[n] \in Labels(f, T, tf)
  BY DEF AreBars, Orders
<1>2. made[n] = OneBar(f, PartOf(f, T, s[n], tf), s[n], tf)
  BY DEF AreBars
<1>3. Tells(made[n], f, PartOf(f, T, s[n], tf), s[n])
  BY <1>1, <1>2, OneBarTells
<1>4. made[n].at = s[n]
  BY <1>3 DEF Tells
<1>5. Period(made[n], tf) = Span(s[n], tf)
  BY <1>4, SpanIs
<1>6. /\ s[n] \in Nat
      /\ \A i \in T : Span(s[n], tf).from <= f[i].at /\ f[i].at <= Span(s[n], tf).to
                        <=> LabelAt(f[i].at, tf) = s[n]
  <2>1. \A i \in T : i \in 1 .. m
    OBVIOUS
  <2> QED BY <1>1, <2>1, PartIsSpan
<1>7. Inside(f, T, made[n], tf) = PartOf(f, T, s[n], tf)
  BY <1>5, <1>6 DEF Inside, PartOf
<1> QED BY <1>1, <1>2, <1>3, <1>6, <1>7

LEMMA BarsApart ==
  ASSUME NEW tf \in DOMAIN Plans, NEW f, NEW m, IsTable(f, m, tf), NEW T \in SUBSET (1 .. m),
         \A i \in T : Traded(f[i].at, tf), NEW k, NEW s, NEW made, AreBars(made, f, T, tf, k, s),
         NEW i \in 1 .. k, NEW j \in 1 .. k, i < j
  PROVE  Period(made[i], tf).to < Period(made[j], tf).from /\ made[i].at < made[j].at
<1>1. s[i] \in Labels(f, T, tf) /\ Tells(made[i], f, PartOf(f, T, s[i], tf), s[i])
  BY EachBar
<1>2. s[j] \in Labels(f, T, tf) /\ Tells(made[j], f, PartOf(f, T, s[j], tf), s[j])
  BY EachBar
<1>3. made[i].at = s[i] /\ made[j].at = s[j]
  BY <1>1, <1>2 DEF Tells
<1>4. s[i] < s[j]
  BY DEF AreBars, Orders
<1>5. Span(s[i], tf).to < Span(s[j], tf).from
  BY <1>1, <1>2, <1>4, SpansAscend
<1>6. Period(made[i], tf) = Span(s[i], tf) /\ Period(made[j], tf) = Span(s[j], tf)
  BY <1>3, SpanIs
<1> QED BY <1>3, <1>4, <1>5, <1>6

\* Bars of the session start a whole number of bars after the open.
LEMMA BucketOnSession ==
  ASSUME NEW tf, BucketPlan(tf), NEW t \in Nat, Traded(t, tf), NEW s, s = LabelAt(t, tf)
  PROVE  s >= Anchor(s) /\ (s - Anchor(s)) % (Plans[tf].base * Plans[tf].factor) = 0
<1>1. PICK l \in {45, 120, 240} : l = Plans[tf].base * Plans[tf].factor
  BY DEF BucketPlan
<1>2. s = BucketStart(t, l) /\ t >= Anchor(t)
  BY <1>1 DEF BucketPlan, LabelAt, Traded
<1>3. PICK d, q : InBucket(t, s, l, d, q)
  BY <1>2, BucketIs
<1>4. /\ d \in Nat /\ q \in Nat /\ s = 1440 * d + 555 + l * q /\ s <= t /\ t < 1440 * (d + 1)
  BY <1>3 DEF InBucket
<1>5. PICK x \in Nat : x = l * q
  <2>1. l = 45 \/ l = 120 \/ l = 240
    OBVIOUS
  <2> QED BY <1>4, <2>1
<1>6. s \div 1440 = d
  BY <1>4, <1>5
<1>7. Anchor(s) = 1440 * d + 555
  BY <1>4, <1>6 DEF Anchor, Day, MarketOpen
<1>8. s - Anchor(s) = l * q /\ (l * q) % l = 0
  BY <1>4, <1>7
<1> QED BY <1>1, <1>4, <1>7, <1>8

Partitions(made, f, T, tf) ==
  /\ \A i, j \in DOMAIN made : i < j => Period(made[i], tf).to < Period(made[j], tf).from
  /\ T = UNION {Inside(f, T, made[i], tf) : i \in DOMAIN made}
  /\ \A n \in DOMAIN made :
       /\ Plans[tf].factor > 1 =>
            /\ made[n].at >= Anchor(made[n].at)
            /\ (made[n].at - Anchor(made[n].at)) % (Plans[tf].base * Plans[tf].factor) = 0
       /\ Tells(made[n], f, Inside(f, T, made[n], tf), made[n].at)

LEMMA BarsPartition ==
  ASSUME NEW tf \in DOMAIN Plans, NEW f, NEW m, IsTable(f, m, tf), NEW T \in SUBSET (1 .. m),
         \A i \in T : Traded(f[i].at, tf), NEW k, NEW s, NEW made, AreBars(made, f, T, tf, k, s)
  PROVE  Partitions(made, f, T, tf)
<1>1. DOMAIN made = 1 .. k /\ Orders(s, k, Labels(f, T, tf)) /\ \A i \in T : i \in 1 .. m
  BY DEF AreBars
<1>2. ASSUME NEW i \in 1 .. k, NEW j \in 1 .. k, i < j
      PROVE  Period(made[i], tf).to < Period(made[j], tf).from
  BY <1>2, BarsApart
<1>3. ASSUME NEW n \in 1 .. k
      PROVE  /\ s[n] \in Labels(f, T, tf) /\ made[n].at = s[n]
             /\ Inside(f, T, made[n], tf) = PartOf(f, T, s[n], tf)
             /\ Tells(made[n], f, Inside(f, T, made[n], tf), made[n].at)
  <2>1. /\ s[n] \in Labels(f, T, tf) /\ Inside(f, T, made[n], tf) = PartOf(f, T, s[n], tf)
        /\ Tells(made[n], f, PartOf(f, T, s[n], tf), s[n])
    BY EachBar
  <2>2. made[n].at = s[n]
    BY <2>1 DEF Tells
  <2> QED BY <2>1, <2>2
<1>4. T = UNION {Inside(f, T, made[i], tf) : i \in DOMAIN made}
  <2>1. ASSUME NEW i \in T PROVE \E n \in 1 .. k : i \in Inside(f, T, made[n], tf)
    <3>1. LabelAt(f[i].at, tf) \in Labels(f, T, tf)
      BY DEF Labels
    <3>2. PICK n \in 1 .. k : s[n] = LabelAt(f[i].at, tf)
      BY <1>1, <3>1 DEF Orders
    <3>3. i \in PartOf(f, T, s[n], tf)
      BY <3>2 DEF PartOf
    <3> QED BY <1>3, <3>3
  <2>2. \A n \in 1 .. k : \A i \in Inside(f, T, made[n], tf) : i \in T
    BY DEF Inside
  <2> QED BY <1>1, <2>1, <2>2
<1>5. ASSUME NEW n \in 1 .. k, Plans[tf].factor > 1
      PROVE  /\ made[n].at >= Anchor(made[n].at)
             /\ (made[n].at - Anchor(made[n].at)) % (Plans[tf].base * Plans[tf].factor) = 0
  <2>1. PICK i \in T : s[n] = LabelAt(f[i].at, tf)
    BY <1>3 DEF Labels
  <2>2. Traded(f[i].at, tf) /\ f[i].at \in Nat
    BY <1>1, TableFits
  <2>3. BucketPlan(tf)
    BY <1>5, KindsOfPlans DEF PlainPlan, WeekPlan, MonthPlan
  <2> QED BY <1>3, <2>1, <2>2, <2>3, BucketOnSession
<1> QED BY <1>1, <1>2, <1>3, <1>4, <1>5 DEF Partitions

\* What the invariant gives a reader of the table.
LEMMA AskedTable ==
  ASSUME TableInv, asked # Unsupported
  PROVE  /\ asked \in DOMAIN Plans /\ DOMAIN table = 1 .. Len(table)
         /\ Len(table) \in Nat /\ IsTable(table, Len(table), asked)
BY DEF TableInv, IsTable

(* Whatever the timeframe and the candles of the broker, aggregation       *)
(* neither loses, repeats nor reorders candles: bars do not overlap, each  *)
(* stands for the candles of its span, and session bars start a whole      *)
(* number of bars after the open (CandleAggregator.aggregate).             *)
THEOREM NothingLostInAggregation == Spec => []BarsPartitionTheTable
<1>1. ASSUME TableInv PROVE BarsPartitionTheTable
  <2>1. CASE asked = Unsupported
    BY <2>1 DEF BarsPartitionTheTable
  <2>2. CASE asked # Unsupported
    <3>1. /\ asked \in DOMAIN Plans /\ DOMAIN table = 1 .. Len(table)
          /\ IsTable(table, Len(table), asked)
      BY <1>1, <2>2, AskedTable
    <3>2. PICK made : made = Aggregate(table, DOMAIN table, asked)
      OBVIOUS
    <3>3. PICK T : T = Counting(table, DOMAIN table, asked)
      OBVIOUS
    <3>4. PICK k, s : AreBars(made, table, T, asked, k, s)
      BY <3>1, <3>2, <3>3, AggregateIs
    <3>5. T \in SUBSET (1 .. Len(table)) /\ \A i \in T : Traded(table[i].at, asked)
      BY <3>1, <3>3 DEF Counting
    <3>6. Partitions(made, table, T, asked)
      BY <3>1, <3>4, <3>5, BarsPartition
    <3> DEFINE all       == Aggregate(table, DOMAIN table, asked)
               traded    == {i \in DOMAIN table : Plans[asked].factor > 1 => table[i].at >= Anchor(table[i].at)}
               inside(b) == {i \in traded : Period(b, asked).from <= table[i].at
                                            /\ table[i].at <= Period(b, asked).to}
    <3>7. T = traded
      BY <3>3 DEF Counting, Traded
    <3>8. \A b : inside(b) = Inside(table, T, b, asked)
      BY <3>7 DEF Inside
    <3> HIDE DEF all, traded, inside
    <3>9. \A i, j \in DOMAIN all : i < j => Period(all[i], asked).to < Period(all[j], asked).from
      BY <3>2, <3>6 DEF Partitions, all
    <3>10. traded = UNION {inside(all[i]) : i \in DOMAIN all}
      BY <3>2, <3>6, <3>7, <3>8 DEF Partitions, all
    <3>11. ASSUME NEW n \in DOMAIN all
           PROVE  /\ Plans[asked].factor > 1 =>
                       /\ all[n].at >= Anchor(all[n].at)
                       /\ (all[n].at - Anchor(all[n].at)) % (Plans[asked].base * Plans[asked].factor) = 0
                  /\ Tells(all[n], table, inside(all[n]), all[n].at)
      BY <3>2, <3>6, <3>8 DEF Partitions, all
    <3>12. ASSUME NEW n \in DOMAIN all
           PROVE  LET b == all[n]
                      S == inside(b)
                  IN  /\ Plans[asked].factor > 1 =>
                           /\ b.at >= Anchor(b.at)
                           /\ (b.at - Anchor(b.at)) % (Plans[asked].base * Plans[asked].factor) = 0
                      /\ \E i \in S : b.open = table[i].open /\ \A j \in S : i <= j
                      /\ \E i \in S : b.close = table[i].close /\ \A j \in S : j <= i
                      /\ \E i, j \in S : b.high = table[i].high /\ b.low = table[j].low
                      /\ \A i \in S : b.low <= table[i].low /\ table[i].high <= b.high
                      /\ b.volume = Volume(table, S)
      BY <3>11 DEF Tells
    <3> QED BY <3>9, <3>10, <3>12, Zenon DEF BarsPartitionTheTable, all, traded, inside
  <2> QED BY <2>1, <2>2
<1> QED BY <1>1, TableInductive, PTL

LEMMA SpanTyped ==
  ASSUME NEW tf \in DOMAIN Plans, NEW t, Fits(t, tf)
  PROVE  Span(LabelAt(t, tf), tf).from \in Int /\ Span(LabelAt(t, tf), tf).to \in Int
<1>1. LabelAt(t, tf) \in Nat
  BY SpansSplit DEF Splits
<1>2. CASE PlainPlan(tf) \/ BucketPlan(tf)
  <2>1. \A s : Span(s, tf).from = s /\ Span(s, tf).to = s + Plans[tf].base * Plans[tf].factor - 1
    BY <1>2 DEF PlainPlan, BucketPlan, Span, Period
  <2>2. Plans[tf].base * Plans[tf].factor \in Int
    <3>1. CASE PlainPlan(tf)
      BY <3>1 DEF PlainPlan, Day
    <3>2. CASE BucketPlan(tf)
      BY <3>2 DEF BucketPlan
    <3> QED BY <1>2, <3>1, <3>2
  <2> HIDE DEF Span
  <2> QED BY <1>1, <2>1, <2>2
<1>3. CASE WeekPlan(tf)
  <2>1. \A s : Span(s, tf).from = s - 6 * Day /\ Span(s, tf).to = s
    BY <1>3 DEF WeekPlan, Span, Period
  <2> HIDE DEF Span
  <2> QED BY <1>1, <2>1 DEF Day
<1>4. CASE MonthPlan(tf)
  <2>1. t \in Nat /\ t % Day = 0 /\ \E d \in MonthEnds : t \div Day <= d /\ d <= (t \div Day) + 31
    BY <1>4 DEF MonthPlan, Fits, OnGrid
  <2>2. PICK k \in Nat, e \in Nat : t = 1440 * k /\ PeriodEnd("M", t) = 1440 * e
    BY <2>1, MonthEndIs
  <2>3. LabelAt(t, tf) = 1440 * e
    BY <1>4, <2>2 DEF MonthPlan, LabelAt
  <2>4. PICK a \in Nat : Span(1440 * e, tf).from = a /\ Span(1440 * e, tf).to = 1440 * e
    BY <1>4, MonthStart
  <2> HIDE DEF Span
  <2> QED BY <2>2, <2>3, <2>4
<1> QED BY <1>2, <1>3, <1>4, KindsOfPlans

(* Of the counted positions, those whose candles a window holds; a span    *)
(* inside the window keeps all of its candles.                             *)
Window(f, T, low, high) == {i \in T : low <= f[i].at /\ f[i].at <= high}

LEMMA WindowKeepsSpan ==
  ASSUME NEW tf \in DOMAIN Plans, NEW f, NEW m, IsTable(f, m, tf), NEW T \in SUBSET (1 .. m),
         \A i \in T : Traded(f[i].at, tf), NEW low \in Int, NEW high \in Int,
         NEW s \in Labels(f, T, tf), low <= Span(s, tf).from, Span(s, tf).to <= high
  PROVE  /\ s \in Labels(f, Window(f, T, low, high), tf)
         /\ PartOf(f, Window(f, T, low, high), s, tf) = PartOf(f, T, s, tf)
<1>1. PICK j \in T : s = LabelAt(f[j].at, tf)
  BY DEF Labels
<1>2. \A i \in T : i \in 1 .. m
  OBVIOUS
<1>3. Span(s, tf).from \in Int /\ Span(s, tf).to \in Int
  BY <1>1, <1>2, TableFits, SpanTyped
<1>4. ASSUME NEW i \in T, LabelAt(f[i].at, tf) = s PROVE i \in Window(f, T, low, high)
  <2>1. f[i].at \in Nat
    BY <1>2, TableFits
  <2>2. Span(s, tf).from <= f[i].at /\ f[i].at <= Span(s, tf).to
    BY <1>2, <1>4, PartIsSpan
  <2> QED BY <1>3, <2>1, <2>2 DEF Window
<1>5. \A i \in Window(f, T, low, high) : i \in T
  BY DEF Window
<1> QED BY <1>1, <1>4, <1>5 DEF Labels, PartOf

LEMMA BarSet ==
  ASSUME NEW tf \in DOMAIN Plans, NEW f, NEW m, IsTable(f, m, tf), NEW T \in SUBSET (1 .. m),
         \A i \in T : Traded(f[i].at, tf), NEW k, NEW s, NEW made, AreBars(made, f, T, tf, k, s)
  PROVE  {made[n] : n \in DOMAIN made} = {OneBar(f, PartOf(f, T, x, tf), x, tf) : x \in Labels(f, T, tf)}
<1>1. DOMAIN made = 1 .. k /\ Orders(s, k, Labels(f, T, tf))
  BY DEF AreBars
<1>2. \A n \in 1 .. k : s[n] \in Labels(f, T, tf) /\ made[n] = OneBar(f, PartOf(f, T, s[n], tf), s[n], tf)
  <2> TAKE n \in 1 .. k
  <2> QED BY EachBar
<1>3. \A x \in Labels(f, T, tf) : \E n \in 1 .. k : s[n] = x
  BY <1>1 DEF Orders
<1> HIDE DEF OneBar
<1> QED BY <1>1, <1>2, <1>3

\* The bars whose periods a window holds whole.
Full(made, low, high, tf) ==
  {b \in {made[n] : n \in DOMAIN made} : low <= Period(b, tf).from /\ Period(b, tf).to <= high}

LEMMA WindowShowsSame ==
  ASSUME NEW tf \in DOMAIN Plans, NEW f, NEW m, IsTable(f, m, tf), NEW T \in SUBSET (1 .. m),
         \A i \in T : Traded(f[i].at, tf), NEW low \in Int, NEW high \in Int,
         NEW k, NEW s, NEW made, AreBars(made, f, T, tf, k, s),
         NEW l, NEW r, NEW seen, AreBars(seen, f, Window(f, T, low, high), tf, l, r)
  PROVE  Full(seen, low, high, tf) = Full(made, low, high, tf)
<1>0. {made[n] : n \in DOMAIN made} = {OneBar(f, PartOf(f, T, x, tf), x, tf) : x \in Labels(f, T, tf)}
  <2> HIDE DEF OneBar, PartOf, Labels
  <2> QED BY BarSet
<1> DEFINE W == Window(f, T, low, high)
           barT(x) == OneBar(f, PartOf(f, T, x, tf), x, tf)
           barW(x) == OneBar(f, PartOf(f, W, x, tf), x, tf)
           within(x) == low <= Span(x, tf).from /\ Span(x, tf).to <= high
<1>1. W \in SUBSET (1 .. m) /\ W \in SUBSET T /\ \A i \in W : Traded(f[i].at, tf)
  BY DEF Window
<1>2. {made[n] : n \in DOMAIN made} = {barT(x) : x \in Labels(f, T, tf)}
  BY ONLY <1>0
<1>3. {seen[n] : n \in DOMAIN seen} = {barW(x) : x \in Labels(f, W, tf)}
  BY <1>1, BarSet
<1>4. \A x \in Labels(f, T, tf) : Period(barT(x), tf) = Span(x, tf)
  <2> TAKE x \in Labels(f, T, tf)
  <2>1. Tells(barT(x), f, PartOf(f, T, x, tf), x)
    BY OneBarTells
  <2>2. barT(x).at = x
    BY <2>1 DEF Tells
  <2> QED BY <2>2, SpanIs
<1>5. \A x \in Labels(f, W, tf) : Period(barW(x), tf) = Span(x, tf)
  <2> TAKE x \in Labels(f, W, tf)
  <2>1. Tells(barW(x), f, PartOf(f, W, x, tf), x)
    BY <1>1, OneBarTells
  <2>2. barW(x).at = x
    BY <2>1 DEF Tells
  <2> QED BY <2>2, SpanIs
<1>6. \A x \in Labels(f, T, tf) : within(x) => x \in Labels(f, W, tf) /\ barW(x) = barT(x)
  <2> TAKE x \in Labels(f, T, tf)
  <2> QED BY WindowKeepsSpan
<1>7. \A x \in Labels(f, W, tf) : x \in Labels(f, T, tf)
  BY <1>1 DEF Labels
<1> HIDE DEF W, barT, barW, Span
<1>8. Full(made, low, high, tf) = {barT(x) : x \in {y \in Labels(f, T, tf) : within(y)}}
  BY <1>2, <1>4 DEF Full
<1>9. Full(seen, low, high, tf) = {barW(x) : x \in {y \in Labels(f, W, tf) : within(y)}}
  BY <1>3, <1>5 DEF Full
<1> HIDE DEF within
<1>10. {y \in Labels(f, W, tf) : within(y)} = {y \in Labels(f, T, tf) : within(y)}
  BY <1>6, <1>7
<1> QED BY <1>6, <1>8, <1>9, <1>10

LEMMA ShownAlike ==
  ASSUME TableInv, asked # Unsupported, NEW low \in Int, NEW high \in Int
  PROVE  LET seen  == GetCandles(table, asked, low, high)
             whole == Aggregate(table, DOMAIN table, asked)
         IN  /\ Full(seen, low, high, asked) = Full(whole, low, high, asked)
             /\ \A n, m \in DOMAIN seen : n < m => seen[n].at < seen[m].at
<1>1. /\ asked \in DOMAIN Plans /\ DOMAIN table = 1 .. Len(table)
      /\ IsTable(table, Len(table), asked)
  BY AskedTable
<1>2. PICK T : T = Counting(table, DOMAIN table, asked)
  OBVIOUS
<1>3. PICK kept : kept = {i \in DOMAIN table : low <= table[i].at /\ table[i].at <= high}
  OBVIOUS
<1>4. PICK W : W = Window(table, T, low, high)
  OBVIOUS
<1>5. W = Counting(table, kept, asked)
  BY <1>2, <1>3, <1>4 DEF Window, Counting
<1>6. /\ T \in SUBSET (1 .. Len(table)) /\ \A i \in T : Traded(table[i].at, asked)
      /\ W \in SUBSET (1 .. Len(table)) /\ \A i \in W : Traded(table[i].at, asked)
  BY <1>1, <1>2, <1>4 DEF Counting, Window
<1>7. PICK whole : whole = Aggregate(table, DOMAIN table, asked)
  OBVIOUS
<1>8. PICK seen : seen = Aggregate(table, kept, asked) /\ seen = GetCandles(table, asked, low, high)
  BY <1>3 DEF GetCandles
<1>9. PICK k, s : AreBars(whole, table, T, asked, k, s)
  BY <1>1, <1>2, <1>7, AggregateIs
<1>10. PICK l, r : AreBars(seen, table, W, asked, l, r)
  <2>1. kept \in SUBSET (1 .. Len(table))
    BY <1>1, <1>3
  <2> QED BY <1>1, <1>5, <1>8, <2>1, AggregateIs
<1>11. Full(seen, low, high, asked) = Full(whole, low, high, asked)
  BY <1>1, <1>4, <1>6, <1>9, <1>10, WindowShowsSame
<1>12. DOMAIN seen = 1 .. l
  BY <1>10 DEF AreBars
<1>13. ASSUME NEW n \in 1 .. l, NEW m \in 1 .. l, n < m PROVE seen[n].at < seen[m].at
  BY <1>1, <1>6, <1>10, <1>13, BarsApart
<1> QED BY <1>7, <1>8, <1>11, <1>12, <1>13

(* Whatever the timeframe, the candles and the window of a request, the    *)
(* bars whose periods the window holds are those of the whole table        *)
(* (MarketDataService.get_candles aggregates the window it was asked for). *)
THEOREM WindowDoesNotMatter == Spec => []BarsDoNotDependOnTheWindow
<1>1. ASSUME TableInv PROVE BarsDoNotDependOnTheWindow
  <2>1. CASE asked = Unsupported
    BY <2>1 DEF BarsDoNotDependOnTheWindow
  <2>2. CASE asked # Unsupported
    <3>1. /\ asked \in DOMAIN Plans /\ DOMAIN table = 1 .. Len(table)
          /\ IsTable(table, Len(table), asked)
      BY <1>1, <2>2, AskedTable
    <3>2. \A i \in DOMAIN table : table[i].at \in Int /\ table[i].at + 60 \in Int
      BY <3>1, CandleAssumption DEF IsTable
    <3>3. ASSUME NEW i \in DOMAIN table, NEW j \in DOMAIN table,
                 NEW low \in {table[i].at, table[i].at + 60}, NEW high \in {table[j].at, table[j].at + 60}
          PROVE  LET seen  == GetCandles(table, asked, low, high)
                     whole == Aggregate(table, DOMAIN table, asked)
                 IN  /\ Full(seen, low, high, asked) = Full(whole, low, high, asked)
                     /\ \A n, m \in DOMAIN seen : n < m => seen[n].at < seen[m].at
      <4>1. low \in Int /\ high \in Int
        BY <3>2
      <4> QED BY <1>1, <2>2, <4>1, ShownAlike
    <3> QED BY ONLY <3>3, Zenon DEF BarsDoNotDependOnTheWindow, Full
  <2> QED BY <2>1, <2>2
<1> QED BY <1>1, TableInductive, PTL
=============================================================================
