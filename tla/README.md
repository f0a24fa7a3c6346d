# SigmaLab in TLA+

SigmaLab is a FastAPI/PostgreSQL backend and a React frontend for backtesting
and optimizing rule-based trading strategies on candles of the Zerodha/Kite
broker. This directory models the parts of it whose correctness depends on the
order of things: what is committed when, who reads in between, what happens
when a step fails.

## 1. Inventory

| Component | State | Operations | Hard behaviour | Correct when |
|---|---|---|---|---|
| Optimization jobs (`services/optimizations.py`, `repos/optimizations.py`, `routes/optimizations.py`) | job row, one backtest run per combination, candidate rows, presets; the runner's local counter, summaries and session | create, run (one commit per repository call), handle an exception, save a preset | readers between commits, crash between commits, a database error that makes the session unusable, ties in the ranking | success means complete; what is visible is never wrong; terminal is final; every job ends |
| Optimization detail page (`OptimizationDetailPage.tsx`) | what is shown, loads under way | mount, poll, refresh, answers, failures | overlapping loads, two requests per load, polling that stops | never ahead of the database; converges |
| Replay engine, metrics (`backtesting/`) | position, ledger, cash, equity curve | one bar at a time: signals, levels, mark; forced close; metrics | order inside a bar, levels hit exactly, last bar | ledger follows the rules; curve and metrics agree with it |
| Timeframes and aggregation (`timeframe.py`, `candle_aggregator.py`) | none | parse, plan, aggregate | buckets that do not divide the session, missing candles, a value that parses as another | bars partition the candles; a bar does not depend on the window |
| Market data (`backend/data`, `services/market_data.py`, `repos/candles.py`) | candles table, per request the plan and the chunk | plan, fetch with paging and retries, upsert, read | partial failure, interleaved requests, gaps | an answer covers the request; failure keeps work; requests end |
| Broker settings (`services/broker_settings.py`, `core/secrets.py`) | one row: encrypted secrets, metadata, status | save, reset, clear, test, exchange; key rotation by the operator | read, call the broker, write back; column-wise updates; key change | connected means tested; metadata agree with secrets; no plain secret |
| Backtest run service (`services/backtests.py`, `repos/backtests.py`, `routes/backtests.py`) | run, trades and metrics rows; what the client is told | one run per request, one commit per repository call | edits of the watchlist and syncs of the instruments between its commits, rows expired by a commit and read again, a failing statement, a restart with other code | success covers the snapshot; the client is told what the row says; a run names the version that computed it |
| Search space, parameter validation | none | build and enumerate a grid | bounds, steps, cut-offs | values in bounds, each once |
| Strategy catalog (`repos/strategy_catalog.py`) | strategy, its current version, its versions | get or create | overlapping creates without a unique constraint on versions | the version found is the deployed one; copies only from overlaps |
| Watchlists (`repos/watchlists.py`) | items | add, remove, delete in two statements | swallowed integrity errors, an add between the statements of a delete | a watchlist with runs stays |
| Instruments (`services/instruments.py`, `repos/instruments.py`) | one row per broker token | sync in batches | rows that lack a field, a row twice in a batch or across batches | a refused sync changes nothing |
| Strategies, indicators, evaluator (`strategies/builtin`, `indicators/ta.py`, `indicator_cache.py`) | indicator cache per job; SuperTrend band and direction | compute indicators, generate signals | look-ahead, NaN warm-up, divisions by zero that raise, cache keys, filtered entries and unfiltered exits | a signal uses only the past; the cache changes nothing; a position ends with its trend |
| Other pages | forms, results, tabs | effects that fetch on change | answers of an earlier selection | shows the selection's data |
| Shell, migrations, scripts, tests | none | wiring | - | - |

How they interact: a page calls routes; a route opens a session and calls a
service; services share the database only. `POST /optimizations` also schedules
a background task with a session of its own, which pulls candles through the
market data service, runs strategy and replay engine per symbol, and commits
after each repository call. Market data reads the broker credentials the
settings service stored. Routes are synchronous functions, so requests run in
parallel threads and the database is what they interleave on.

## 2. Modules

| Module | Models | State and actions |
|---|---|---|
| `JobLifecycle` | what a job promises to a poller | status, progress, a ranking that appears at once |
| `OptimizationJob` | `create_job`, `run_job`, `save_preset_from_candidate` and the database rows | one action per commit; `pc` names the next commit; `RaiseAppError`, `RaiseDbError`, `RaiseConnectionError`, `Crash` can interrupt |
| `OptimizationJobRefinement` | - | maps the rows to `JobLifecycle` |
| `OptimizationPage` | the detail page over `OptimizationJob` | `shown`, `load`; `OpenPage`, `Poll`, `Refresh`, one action per answer (the candidates up to `ListLimit`), `ShowLoad`, `LoadFails` |
| `OptimizationProofs` | - | theorems about `OptimizationJob`, and from them about `OptimizationPage` |
| `Fractions` | exact ratios in place of floats | - |
| `Ordering` | the ascending order of a set of numbers (`sort_values` of the curves, `sorted` of the keys of a grid) | operators |
| `Metrics` | `metrics.py` as operators: returns, drawdown, expectancy, the portfolio curve | - |
| `ReplayEngine` | `ReplayEngine.run`, with `Metrics` applied to the result | `OpenBar`, `CheckLevels`, `MarkToMarket` per bar, `ForceClose` |
| `MetricsProofs` | - | what the folds and fractions of `Metrics` compute, for sequences of any length |
| `ReplayEngineProofs` | - | theorems about `ReplayEngine` and the metrics of its result |
| `MarketData` | `get_candles`, `_compute_missing_ranges`, `HistoricalFetcher`, the candle store | `Ask`, `FetchChunk`, `CallFails`, `StoreRange`, `Answer` per request |
| `BrokerSettings` | `KiteBrokerSettingsService` and its repository | `Load`, then one committing action per operation or `Refuse`; `Rotate` |
| `MarketDataProofs`, `BrokerSettingsProofs` | - | theorems about `MarketData` and `BrokerSettings` |
| `ParameterGrid` | `build_param_grid`, acceptance by `create_job`, enumeration and validation by `run_job` (`search_space.py`, `strategies/params.py`) | `Fill` the form, `CreateJob`, `StartRunner`, then `RunCombination` or `RefuseCombination`, `FinishRunner` |
| `CandleAggregation` | `Timeframe.parse` and `plan`, `CandleAggregator`, the window of `get_candles` | `AskFor` a timeframe, `Prepare` (the second parse of a backtest), `ReadCandle` into the table; `Aggregate` and `GetCandles` are operators |
| `Portfolio` | the equity curves of the symbols of a backtest and their combination | `NextSymbol`, `NextBar` |
| `Indicators` | `indicators/ta.py`: EMA, RSI, ATR, VWAP, DMI/ADX on a candle frame, with pandas' NaN and the conversions that raise | operators |
| `Strategies` | the three built-in strategies: indicators, cache keys, signals (SuperTrend included) | operators |
| `StrategyReplay` | `StrategyEvaluator` and `IndicatorCache`, composed with `ReplayEngine` (an instance of it) | `StartReplay`, `EvaluateBar` or `EvaluationRaises`, `ReplayStep`; `Evaluate` one combination on one instrument through the cache |
| `BacktestRuns` | `BacktestRunService.run`, `get_or_create_version`, watchlist edits, `DELETE /watchlists/{id}`, `POST /instruments/sync` | one action per repository call of each thread; `RaiseAppError`, `RaiseDbError`, `RaiseConnectionError`, `Handle`, `Restart`; the edits in between |
| `BacktestRunsProofs` | - | theorems about `BacktestRuns` |
| `AlgorithmsProofs` | - | theorems about `StrategyReplay`, `Portfolio` and `CandleAggregation`, over `MCAlgorithms` |
| `GridProofs` | - | theorems about `ParameterGrid`, over `MCAlgorithms` |
| `MCReplayEngine`, `MCMarketData`, `MCBrokerSettings`, `MCBacktestRuns`, `MCAlgorithms` | - | the small inputs of the runs; `MCAlgorithms` runs `ParameterGrid`, `CandleAggregation`, `Portfolio` and `StrategyReplay` side by side |

Choices worth knowing:

- **Commits are the grain.** Every repository method ends in `session.commit()`,
  so `OptimizationJob` has one action per repository call. A failing statement
  commits nothing and leaves the session unusable until a rollback
  (SQLAlchemy), which no code of the runner calls: `poisoned` records this and
  decides what the handler can do. A commit also gives the connection back and
  expires the rows, so the next read needs a connection. When there is none the
  read raises and the session stays usable (`RaiseConnectionError`): the handler
  can then store `failed` over a finished ranking, or over a backtest run that
  was already marked successful.
- **Combinations are numbers** in grid order. Parameters, symbols and metrics
  other than the objective are not told apart by the properties. A run that
  produced no trades skips the commit of `add_trades`; its (empty) ledger is
  complete all the same, so the action is the same.
- **Prices are integers and ratios exact fractions.** Rounding is left out;
  order and equality of returns are kept.
- **A candle is its timestamp** in steps of the base interval. `DayLength` is
  the number of steps in a day; 1 is the daily interval, for which the code
  looks for no inner gap.
- **The pure parts grow their input.** Grids, candle tables and curves are built
  one element at a time and the properties compare the operators with reference
  definitions in every state. Parameter values are integers in units of
  `1/Unit`, so that truncation to `int` is visible; names of enumeration values
  are numbers too. Times are minutes and plans are the real ones (60-minute
  candles, 9:15 open); the calendar is reduced to weekdays and the days a month
  ends on.
- **Frames grow, too.** A backtest evaluates its strategy on a complete frame.
  `StrategyReplay` appends a candle, evaluates the frame so far and lets the
  engine take the new bar: `SignalsIgnoreTheFuture` compares the signals kept
  from earlier frames with those of the frame of now, and is the reason why
  growing is the same as evaluating once. Indicators are exact fractions,
  prices whole ticks; a stop is rounded down to a tick.
- **`replace(0.0, pd.NA)` followed by `astype("float64")` raises** as soon as a
  zero occurs, in `vwap` (a day that opens without volume) and `dmi` (bars that
  do not move). `Raises` and `EvaluationRaises` model the failure of the run.
- **One strategy, one watchlist** in `BacktestRuns`: requests for others use
  other rows. Rows have numbers as ids; a version row is found by its version
  string in any order, as `first()` without an order does. The ledger and the
  metrics of a run are the instruments they stand for, each with the symbol it
  was replayed under. A commit expires the rows of the session, so the symbol
  is the one of the time of use, not of the snapshot.
- **A secret is a value under layers of encryption**, each with the key of an
  epoch. An update writes the columns that differ from the loaded row, as
  SQLAlchemy does; the metadata column holds more than is modelled (message,
  profile), so an update that leaves the modelled part equal may or may not
  write it. A mask stands for the value it was made from, whose end it shows;
  different values are taken to have different ends.

## 3. Runs

| Run | Expectation | Shows |
|---|---|---|
| `job` | pass | Four combinations, three objective values (so ties occur), progress every third (a write in the middle and one at the end), summary of two, all faults on. Completeness of success, final visible prefix, honest progress, sequential runs, a ranking that always covers all runs (also of a job that failed late), frozen terminal rows, refinement of `JobLifecycle`. |
| `page` | pass | Two combinations of which the route lists one, two overlapping loads, one failing request, no database errors. The page never runs ahead, converges; the job terminates. |
| `replay` | pass | All frames up to four bars of a twenty-bar market (five shapes with all signal pairs). |
| `market` | pass | Two requests at a time, three in total, over two days of three steps, chunks of two steps, one retry. |
| `broker` | pass | Two processes, four requests, two credential values, one key rotation. No secret is stored in the clear; while requests take turns, connected means tested, and flags, masks and status agree with the secrets. |
| `algorithms` | pass | Selections of up to two of six parameters (one not tunable, one key unknown) over sixteen configurations (one of them a range that ends at a negative half, which `int()` moves up); tables of up to four candles of every plan used, around two opens and over the end of a week and of a month; two curves over four bars; eight settings of the three strategies on frames of up to five of six candles over two days, and on two frames through one cache. Grids are exact, a refused combination is explained by what acceptance does not check, bars partition the table and do not depend on the window, the portfolio returns the mean and declines no more than its worst symbol; signals ignore later candles, positions rest on their trend, the cache changes nothing. |
| `backtests` | pass | Two threads, three requests, two releases, two instruments (one may lack candles), one edit or sync out of three instrument lists, one failing statement or restart. A successful run covers its snapshot, clients are told the truth, runs pin their version, a version is stored twice only by overlapping requests. |
| `page_stale` | violation | The shown pair (job, candidates) can be torn: success with an incomplete table, and polling has stopped. |
| `job_stuck` | violation | After a failing statement the exception handler raises and the job reads running for ever. |
| `market_holes` | violation | Stored candles on both sides of midnight hide a hole that is never fetched. |
| `broker_race` | violation | A save that overlaps a token exchange and commits after it, or that commits while `test_connection` waits for the broker, ends as connected with untested credentials. |
| `broker_resave` | violation | Saving one field encrypts the others twice; their masks, taken from the same mapping, then show the end of ciphertext. |

Each property of a passing run has a mutant: a defect placed in one definition
(the operators named `...Mut...` next to the originals) that the run must catch.

Why the bounds are enough. `job`: 4 > `ProgressEvery` > 1 gives both kinds of
progress writes, and four candidates allow a tie above, below and inside the
summary; runs are handled one after the other, so more of them repeat the same
steps, and the theorems cover every number. `page`: two loads suffice to
overtake each other; a third only repeats. `replay`: four bars hold a signal,
an entry, an exit by each rule, a second trade and the forced close. `market`:
one inner gap, one gap over midnight, a head, a tail, ranges longer than a chunk
and a request that starts while another is half done. `broker`: set-up takes
two requests, the race two more. `algorithms`: a product needs two keys to have an
order, every type and every reason for refusal occurs, the limit of combinations
bites and a float range of nine values is cut at the cap (6 and 7 instead of
10000 and 20000), buckets of three, two and four
base candles are cut at either end, and two curves may start, pause and end
apart; five candles hold the warm-up of every period used, a turn of the
SuperTrend in both directions, an entry, its exit and the change of day, and
settings that differ in one parameter only meet in the cache. `backtests`: two
threads are what it takes to store a version twice, a third request finds the
copies; four version rows are room for both copies of both releases; one edit
between two commits is what can go wrong (all edits commute with each other but
for the delete, whose two statements are two actions). `CHECK_DEADLOCK FALSE` everywhere: jobs end, frames
end, and requests are bounded.

## 4. Fairness

`page` assumes that the background thread runs on and its calls return
(`WF` on `Runner`; never on faults or crashes), that the interval timer fires,
that the server answers or refuses each request and that promises resolve. It
assumes nothing of the user. `JobTerminates` and `PageConverges` hold there
without database errors and crashes: with them the code makes no such promise
(`job_stuck`). `market` assumes that threads are scheduled and that every broker
call returns or raises; failing calls are not assumed to succeed eventually.

## 5. Proofs

`OptimizationProofs` proves, for every grid size, number of symbols,
progress step, summary size, set of objective values and choice of faults
(from `JobAssumption` and `NoneAssumption` only), all safety and action
properties of the `job` run and the refinement of `JobLifecycle`.

None of them is inductive. The invariant `IInv` adds what the runner knows:

- `RunsInv`: runs up to the local counter are successful and filled, the next
  one is as far as `pc` says, the others do not exist;
- `ProgressInv`: the stored counter equals the local one after a progress write
  and is at most `ProgressEvery` behind otherwise;
- `CandInv`: `ranked` is a sorted permutation of the summaries, the candidate
  table is exactly its first `listed` entries, none of them before the counter
  has reached the total, and the objective in memory is the one each run stored;
- `StatusInv`: which job statuses are possible at each `pc`.

`Inductive` combines `Init => IInv` with one step per action. Each property then
follows from `IInv` alone (`SuccessImpliesComplete`, `RankingPrefixIsFinal`, ...)
or from `IInv` and one step (`ClosedJobIsFrozen`, `PublishedRowsStay`).
`JobImplementsLifecycle` shows that the last commit maps to `Publish`, progress
writes that change the counter to `Advance`, and everything else to a stutter or
the step of the same name.

`ReplayEngineProofs` proves, for every set of bars, every length of frame and
both priorities of stop and target (`ReplayAssumption`), every invariant of the
`replay` run:

- The ledger follows the rules and positions do not overlap. Neither is
  inductive: between the steps of a bar the position must be known to have
  survived every bar before. `IInv` adds `PosInv` (the open position was entered
  on the latest signal and no bar since closes it), `Followed` and `Taken` (each
  closed trade was entered and left by the rules) and `Ordered` (trades are
  disjoint and in order).
- The curve agrees with the ledger. The property speaks of a finished frame;
  `EquityInv` says of every point of the curve, at every step, that it is what
  the ledger and the open position say of its bar (`Told`). The engine
  multiplies its capital trade by trade, the property multiplies a whole
  ledger: a fold over one more trade is one more multiplication (`PlusLeft` and
  its siblings in `MetricsProofs`), and a later trade has no say in an earlier
  bar because the ledger is ordered (`IInv`).
- The reported drawdown is the worst decline. `compute_drawdown` takes a running
  maximum and then a minimum; that two folds over the curve give the worst
  decline between any two points needs every point to be positive
  (`PositiveInv`). Prices are positive by `ReplayAssumption`, and a position may
  close at a stop or a target: a stop that is hit lies above the low of a bar,
  and `TargetAssumption` says that a target is a positive price. None of the
  three strategies sets a target, so the code gives it no other value.
- The expectancy never flatters. The mean return is split into gains, losses
  and trades that do neither (`SumOfParts`); the code weighs the mean loss with
  all trades that are not gains, and `WeightedMean` compares the two.

**Induction.** The provers take no induction theorem with an operator
parameter. `MetricsProofs` therefore argues about *sets of numbers*: `Induct`
says that a set that holds 0 and, with `k - 1`, also `k` holds all up to `m`; it
follows from the well-ordering of the naturals, which the library has without
such a parameter. A fold is the last element of its trace, the function that
gives what has been folded up to each position; that a trace exists and is
unique is proved once (`FoldTrace`), and a statement about a fold is then a
statement about each position of its trace. The recursive means of the
indicators are treated alike.

`AlgorithmsProofs` proves, for any settings, candles, frames, curves, timeframes
and windows, what the `algorithms` run checks of strategies, portfolios and
aggregation:

- `CachedEvaluationIsFresh`: `KeyDeterminesSeries` says that the key of an
  indicator names all that its series depends on, for any two strategies;
  `CacheInv`, that each cached series is the one a strategy that asks for its
  key would compute.
- `SignalsIgnoreTheFuture`: one lemma per indicator (`EwmPrefix` under all
  exponential means, `SuperTrendPrefix`, `VwapPrefix`, ...) says that the series
  of a longer frame begins like that of a shorter one; `SignalInv`, that the bars
  the engine has seen carry the signals the frame of now would give them.
- `HeldOnlyWithTheTrend`: `HoldInv` ties positions and ledger to stretches of the
  frame between an entry signal and the first exit signal, from the ledger
  invariant above (as an instance of `ReplayEngine`), from `SignalInv`, and from
  what each strategy's signals say of prices and levels.
- `PortfolioReturnIsMean` and `PortfolioDrawdownBounded`: `CurvesInv` says that
  each curve starts at 1, stays positive and rises in time. The timestamps of
  all curves have exactly one ascending order (`OrderExists`), the value carried
  forward at the last of them is the last of each curve, and between two points
  of the portfolio some symbol grows no more than the mean does (`MeanGrowth`),
  so that the worst symbol declines at least as much.
- `BarsPartitionTheTable`: the plans are of four kinds (the candles themselves,
  buckets of the session, weeks, months). For each, `SpansSplit` says that the
  span of a bar holds exactly the candles labelled with it and that spans of
  different labels do not overlap; `AggregateIs` then gives one bar per label in
  ascending order, and `BarTells` what it says of its candles. `TableInv` is the
  invariant they need: the table is an ascending series of base candles on the
  grid of the timeframe asked.
- `BarsDoNotDependOnTheWindow`: a window that holds the whole span of a bar keeps
  all candles of that span (`WindowKeepsSpan`), so the bar has the same candles
  (`WindowShowsSame`).

They rest on `StrategyAssumption` (the catalog's three strategies; a candle has
positive prices with its open and close between low and high; frames the cached
evaluation is given do not raise), on `SchemaAssumption` (the bounds of the
strategies' parameter schemas), on `NaNAssumption` (NaN is no number), on
`PortfolioAssumption` (equity is positive, which `PositiveInv` shows of the
engine) and on `CandleAssumption` (prices in whole ticks; a month ends within 31
days of every candle).

`GridProofs` proves, for any schema, form, limits and cap, what the same run
checks of the search space:

- `GridIsExact`: `Extend` lists the combinations found so far in blocks, one
  value of the new key after the other. `PlaceOf` and `PlaceIs` say that block
  and place determine the position and are determined by it, so that every
  choice for one more key is listed and no other (`ExtendFinds`), each once and
  in order when the values ascend (`ExtendOrders`). `ProductIs` carries this
  along the traces of two folds at once, the list and the count, which therefore
  agree. `RangeIs` says that a range lists every value of its set once,
  ascending, unless it was cut at the cap. A cut list alone exceeds the limit of
  combinations, because each list multiplies the total (`ListsAreShort`), so no
  accepted selection has one. The invariant `GridInv` adds what ties the runner to the form: the
  selection of the job is the one it was accepted with, acceptance means that
  every key has a list, and `done` is a position of it.
- `RefusalIsExplained`: a value of a range is within the bounds of the schema
  because its ends are, and when both the distance of its start from the lower
  bound and its step divide by the step of the schema, so does every value
  (`SumDivides`, `RangeUnseen`). What is converted once is not changed by the
  second conversion of `validate_params` (`CoerceTwice`), and parameters that
  are not selected keep a default that is accepted.

They rest on `GridAssumption` (schemas and configurations have the fields and
types of `ParameterSpec` and of the form, with whole numbers for integers; the
limits are positive, the cap on float ranges above that of combinations as
20000 is above 10000; an unreadable value is no number) and `DefaultsAreValid`.

Three definitions changed because of these proofs. The mean of the indicators was
a `CHOOSE` that more than one function satisfied outside its positions; it now
chooses the unique series. The reference set of a range of integers ended at the
upper end as it was typed; the code converts it first, which matters for a
negative fraction (`int(-0.5)` is 0), and the set now does the same. And
operators that were written with `SelectSeq`, `SetToSortSeq`, `FlattenSeq` and
`@@`, which the provers know nothing of, are now index sets, the ascending
sequence and records field by field.

For the page, `OptimizationProofs` builds on the job's invariant and its action
properties: `PageInv` says that every answer under way and everything shown was
true of the job when it was read. Because the job only moves forward
(`TerminalIsFinal`, `PublishedRowsAreFrozen`, progress never decreases), what
was true once is never ahead of now; this holds for any number of loads in any
order.

`BacktestRunsProofs` proves all properties of the `backtests` run for any number
of threads, requests, instruments, releases, edits and faults. From
`BacktestAssumption` it uses that the threads are finitely many, that ids and
version strings are positive numbers, and that `None` is no value; from
`NoRowAssumption`, that `None` is no row either. Its invariant says what ties the
threads to the rows:

- `CatalogInv`: what a request has seen of the catalog stays true until a
  restart; once one request has passed `SetCurrent`, or has seen the deployed
  version as the current one, it is the current one;
- `OwnerInv`: a run whose client waits belongs to exactly one thread;
- `StageInv`: how far each request is with its row (what is still to be prepared
  and what is prepared never share an instrument; the metrics stored so far have
  one row for each symbol done);
- `RowsInv`: what holds of a row for good, whatever happens to its request;
- `CopiesInv`: once a version is stored, its copies and the requests still about
  to add one are together no more than the threads. This is what makes
  `TwinsOnlyFromOverlap` hold: a request that looks later finds a copy.

`MovesOfStep` first restates each action field by field (`Moves`); every lemma
about requests rests on that and not on the actions.

`MarketDataProofs` proves the three invariants of the `market` run for any
market, day length, requests, chunk size, retries and processes, from
`MarketAssumption`. `PlanCovers` is the heart: every instant a first read did not
see lies in a planned range or strictly inside a gap over midnight; it follows
from `RawIsPlanned` (a proper raw range lies inside one of the merged ones) and
the well-ordering of the naturals. The invariant then says of every candle of a
request where it is (`PlanInv`: stored, in a range still to fetch, or in such a
gap), that the rows in hand are all candles the fetch has passed (`FetchInv`),
and the same of the answer (`AnswerInv`). Since the table only grows, what other
requests store can never make it false (`StoreGrows`).

`BrokerSettingsProofs` proves the three invariants of the `broker` run for any
processes, credentials, forms, requests and key rotations, from
`BrokerAssumption` and `NoneAssumption` (`None` is no stored secret and no test
result). `InTurn` adds that, until two requests overlap, there is at most one
and the row it loaded is the row of now. `CommitInTurn` shows that the
column-wise `UPDATE` then writes exactly the row the operation means; without
that hypothesis it is false, which is what `broker_race` shows. That masks stay
those of the secrets rests on `EncryptFacts`: decryption undoes encryption, so
what is encrypted again after a clear is what the masks were made from.

Every invariant and action property of the passing runs is proved. Only
model-checked is liveness (`JobTerminates`, `PageConverges`, `RequestEnds`): the
prover does not handle fairness. The violations are counterexamples and need no
proof.

## 6. Not modelled

- Floating-point rounding, candle contents and formation, rate limiting, HTTP
  and JSON encoding, configuration, migrations.
- A candle request is for one instrument and one base interval; requests for
  others touch other rows. Broker rows are created once: creation races end in a
  unique-constraint error before anything is written.
- Routes that only read: lists, CSV exports, and the chart of a backtest, which
  evaluates the strategy again on the chart's window. A window that starts later
  gives a SuperTrend of its own, so the overlay need not show the signals the
  run traded on; nothing is stored and no document promises it.
- `WatchlistRepository.create` and `rename`, which change nothing a run reads.
- Indicators no strategy uses (`sma`, `rolling_high`, `rolling_low`, `adx`), and
  signals for short positions, which the engine ignores.
- The candle cache within a run: it memoises one call with the same arguments.
- The other pages: forms and rendering, and effects that fetch when a selection
  changes.

## 7. Plan

Done first, because everything a user sees depends on it: the job, its page,
and their proofs; then the engine that produces the numbers, the data it reads
and the credentials it needs; then the service, the catalog and the strategies.
Next, in this order:

1. The month that a backtest reads as a minute (`Prepare` models it) as a run of
   its own.
2. The pages of a backtest and of a watchlist, composed with `BacktestRuns`.

The runs are kept few: the pure parts share one, the service, the catalog, the
watchlist and the instruments another.
