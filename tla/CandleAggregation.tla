--------------------------- MODULE CandleAggregation ---------------------------
(***************************************************************************)
(* From the timeframe a user names to the bars a backtest sees: the name   *)
(* is parsed (twice on the way through BacktestRunService), its plan gives *)
(* a base interval of the broker and a rule, and the base candles of the   *)
(* requested window are aggregated.  Times are minutes, days are counted   *)
(* from a Monday.                                                          *)
(***************************************************************************)
EXTENDS Integers, Ordering, Sequences, SequencesExt

Day == 24 * 60

CONSTANTS Spellings,   \* [count, unit] pairs users may send
          BaseCandles, \* [at, open, high, low, close, volume] candles the broker may have
          MaxCandles,  \* longest frame read
          MonthEnds,   \* last days of the months in reach
          Unsupported  \* a name that is no timeframe; no request yet

\* Prices are whole ticks; every month in reach has its end.
ASSUME CandleAssumption ==
  /\ BaseCandles \subseteq [at : Nat, open : Int, high : Int, low : Int, close : Int, volume : Nat]
  /\ MonthEnds \subseteq Nat
  /\ \A c \in BaseCandles : \E d \in MonthEnds : c.at \div Day <= d /\ d <= (c.at \div Day) + 31

MarketOpen == 9 * 60 + 15

\* The values of the enumeration with their plan: base interval in minutes,
\* how many base candles make a bar, and the calendar rule.
Plain(minutes) == [base |-> minutes, factor |-> 1, rule |-> "none"]
Plans ==
  [ m1  |-> Plain(1),  m3  |-> Plain(3),  m5 |-> Plain(5), m10 |-> Plain(10),
    m15 |-> Plain(15), m30 |-> Plain(30), h1 |-> Plain(60), D1 |-> Plain(Day),
    m45 |-> [base |-> 15, factor |-> 3, rule |-> "none"],
    h2  |-> [base |-> 60, factor |-> 2, rule |-> "none"],
    h4  |-> [base |-> 60, factor |-> 4, rule |-> "none"],
    W1  |-> [base |-> Day, factor |-> 1, rule |-> "W-FRI"],
    M1  |-> [base |-> Day, factor |-> 1, rule |-> "M"] ]

\* The spelling of each value: the text of the enumeration member.
ValueOf(tf) ==
  LET text(count, unit) == [count |-> count, unit |-> unit]
  IN  CASE tf = "m1" -> text(1, "m")   [] tf = "m3"  -> text(3, "m")
        [] tf = "m5" -> text(5, "m")   [] tf = "m10" -> text(10, "m")
        [] tf = "m15" -> text(15, "m") [] tf = "m30" -> text(30, "m")
        [] tf = "m45" -> text(45, "m") [] tf = "h1"  -> text(1, "h")
        [] tf = "h2" -> text(2, "h")   [] tf = "h4"  -> text(4, "h")
        [] tf = "D1" -> text(1, "D")   [] tf = "W1"  -> text(1, "W")
        [] tf = "M1" -> text(1, "M")

\* One letter in either case is normalised first, then the names of a month.
Normalise(v) ==
  LET unit == CASE v.unit \in {"m", "M"} -> "m" [] v.unit \in {"h", "H"} -> "h"
                [] v.unit \in {"d", "D"} -> "D" [] v.unit \in {"w", "W"} -> "W"
                [] OTHER -> v.unit
  IN  IF v.count = 1 /\ unit \in {"mo", "MO", "Month", "MONTH"} THEN [v EXCEPT !.unit = "M"]
      ELSE [v EXCEPT !.unit = unit]

Parse(v) ==
  LET named == {tf \in DOMAIN Plans : ValueOf(tf) = Normalise(v)}
  IN  IF named = {} THEN Unsupported ELSE CHOOSE tf \in named : TRUE

-----------------------------------------------------------------------------
\* What the candles at the positions in part traded.
Volume(frame, part) ==
  FoldLeft(LAMBDA a, v : a + v, 0, [i \in DOMAIN frame |-> IF i \in part THEN frame[i].volume ELSE 0])

(* One bar per label, of the candles of a frame at the positions in kept.  *)
(* label gives the time of the bar of each position.                       *)
Bars(frame, kept, label) ==
  LET starts == InOrder({label[i] : i \in kept})
      bar(s) ==
        LET part == {i \in kept : label[i] = s}
        IN  [at |-> s, open |-> frame[Min(part)].open, close |-> frame[Max(part)].close,
             high   |-> Max({frame[i].high : i \in part}),
             low    |-> Min({frame[i].low : i \in part}),
             volume |-> Volume(frame, part)]
  IN  [n \in DOMAIN starts |-> bar(starts[n])]

Anchor(at) == (at \div Day) * Day + MarketOpen

\* MUTANT: the buckets are counted from midnight.
BucketStartMutMidnight(at, minutes) == (at \div minutes) * minutes

BucketStart(at, minutes) == Anchor(at) + ((at - Anchor(at)) \div minutes) * minutes

\* Candles before the market opens are dropped.
Session(frame, kept) == {i \in kept : frame[i].at >= Anchor(frame[i].at)}

\* MUTANT: the buckets are counted from the first candle of the frame.
FixedFactorMutFirst(frame, kept, minutes) ==
  LET session == Session(frame, kept)
      first   == frame[Min(session)].at
  IN  Bars(frame, session,
           [i \in session |-> first + ((frame[i].at - first) \div minutes) * minutes])

FixedFactor(frame, kept, minutes) ==
  LET session == Session(frame, kept)
  IN  Bars(frame, session, [i \in session |-> BucketStart(frame[i].at, minutes)])

\* resample(rule, label="right", closed="right") on whole days
PeriodEnd(rule, at) ==
  LET closes(d) == IF rule = "W-FRI" THEN d % 7 = 4 ELSE d \in MonthEnds
      ends == {d \in at \div Day .. (at \div Day) + 31 : closes(d)}
  IN  Day * CHOOSE d \in ends : \A e \in ends : d <= e

Aggregate(frame, kept, tf) ==
  LET plan  == Plans[tf]
      order == InOrder(kept)
  IN  IF plan.rule # "none"
      THEN Bars(frame, kept, [i \in kept |-> PeriodEnd(plan.rule, frame[i].at)])
      ELSE IF plan.factor = 1 THEN [n \in DOMAIN order |-> frame[order[n]]]
      ELSE FixedFactor(frame, kept, plan.base * plan.factor)

\* MarketDataService.get_candles over a complete table: the base candles
\* of the window, aggregated.
GetCandles(frame, tf, start, end) ==
  Aggregate(frame, {i \in DOMAIN frame : start <= frame[i].at /\ frame[i].at <= end}, tf)

-----------------------------------------------------------------------------
VARIABLES asked,     \* the timeframe as parsed last
          prepared,  \* parsed again by _prepare_input
          table      \* base candles of the interval of its plan

candleVars == <<asked, prepared, table>>

CandleInit == asked = Unsupported /\ prepared = FALSE /\ table = <<>>

\* The route or BacktestRunService.run parses what the user sent.
AskFor(v) ==
  /\ asked = Unsupported
  /\ asked' = Parse(v)
  /\ UNCHANGED <<prepared, table>>

\* _prepare_input parses the value of the timeframe once more.
Prepare ==
  /\ asked # Unsupported /\ ~prepared /\ table = <<>>
  /\ asked' = Parse(ValueOf(asked))
  /\ prepared' = TRUE
  /\ UNCHANGED table

\* The broker has one more candle of the base interval; times ascend.
ReadCandle(c) ==
  /\ asked # Unsupported /\ Len(table) < MaxCandles
  /\ Plans[asked].base = Day => c.at % Day = 0
  /\ Plans[asked].base < Day => c.at % Day # 0 /\ (c.at - MarketOpen) % Plans[asked].base = 0
  /\ table # <<>> => Last(table).at < c.at
  /\ table' = Append(table, c)
  /\ UNCHANGED <<asked, prepared>>

CandleNext ==
  \/ \E v \in Spellings : AskFor(v)
  \/ Prepare
  \/ \E c \in BaseCandles : ReadCandle(c)

-----------------------------------------------------------------------------
\* The time a bar stands for: from its start, or up to its last day.
Period(b, tf) ==
  LET plan  == Plans[tf]
      prior == {d \in MonthEnds : d * Day < b.at}
  IN  CASE plan.rule = "none"  -> [from |-> b.at, to |-> b.at + plan.base * plan.factor - 1]
        [] plan.rule = "W-FRI" -> [from |-> b.at - 6 * Day, to |-> b.at]
        [] plan.rule = "M"     -> [from |-> IF prior = {} THEN 0 ELSE (Max(prior) + 1) * Day,
                                   to |-> b.at]

(* Aggregation neither loses, repeats nor reorders: bars ascend and do not *)
(* overlap, a bar of the session starts a whole number of bars after the   *)
(* open of its own day, a weekly bar holds Saturday to Friday, a monthly   *)
(* one its month, and price and volume are those of the candles inside it, *)
(* the first and the last of which give open and close.                    *)
BarsPartitionTheTable ==
  asked # Unsupported =>
    LET bars   == Aggregate(table, DOMAIN table, asked)
        traded == {i \in DOMAIN table : Plans[asked].factor > 1 => table[i].at >= Anchor(table[i].at)}
        inside(b) == {i \in traded : Period(b, asked).from <= table[i].at
                                     /\ table[i].at <= Period(b, asked).to}
    IN  /\ \A i, j \in DOMAIN bars : i < j => Period(bars[i], asked).to < Period(bars[j], asked).from
        /\ traded = UNION {inside(bars[i]) : i \in DOMAIN bars}
        /\ \A k \in DOMAIN bars :
             LET b == bars[k]
                 S == inside(b)
             IN  /\ Plans[asked].factor > 1 =>
                      /\ b.at >= Anchor(b.at)
                      /\ (b.at - Anchor(b.at)) % (Plans[asked].base * Plans[asked].factor) = 0
                 /\ \E i \in S : b.open = table[i].open /\ \A j \in S : i <= j
                 /\ \E i \in S : b.close = table[i].close /\ \A j \in S : j <= i
                 /\ \E i, j \in S : b.high = table[i].high /\ b.low = table[j].low
                 /\ \A i \in S : b.low <= table[i].low /\ table[i].high <= b.high
                 /\ b.volume = Volume(table, S)

(* What a bar shows does not depend on the window it was requested with:   *)
(* two requests whose windows hold the whole period of a bar give the same *)
(* bar, so a longer history never changes the bars a shorter one showed.   *)
BarsDoNotDependOnTheWindow ==
  asked # Unsupported /\ Len(table) > 1 =>
    LET whole == Aggregate(table, DOMAIN table, asked)
        within(b, s, e)  == s <= Period(b, asked).from /\ Period(b, asked).to <= e
        full(bars, s, e) == {b \in {bars[n] : n \in DOMAIN bars} : within(b, s, e)}
        edges(at) == {at, at + 60}
    IN  \A i, j \in DOMAIN table : i <= j =>
          \A s \in edges(table[i].at), e \in edges(table[j].at) :
            LET bars == GetCandles(table, asked, s, e)
            IN  /\ full(bars, s, e) = full(whole, s, e)
                /\ \A n, m \in DOMAIN bars : n < m => bars[n].at < bars[m].at
=============================================================================
