----------------------------- MODULE BacktestRuns -----------------------------
(***************************************************************************)
(* Backtests on request: POST /backtests works through the strategy        *)
(* catalog, the watchlist and the instruments, creates a run, replays it   *)
(* and answers, all in one thread and one session (BacktestRunService.run),*)
(* while other requests edit the rows it reads.  One action per repository *)
(* call, as in OptimizationJob: each ends in a commit, and the commit also *)
(* expires the loaded rows, which are read again when they are next used.  *)
(*                                                                         *)
(* One strategy and one watchlist; requests for others use other rows.     *)
(***************************************************************************)
EXTENDS Integers, FiniteSets, Sequences

CONSTANTS Threads,      \* worker threads of the server
          Instruments,  \* (broker token, exchange) pairs the broker knows
          Sparse,       \* instruments that may lack candles in the range
          Symbols,      \* trading symbols
          Listed,       \* the symbols at first, after an earlier sync
          Codes,        \* version strings of the strategy code, in release order
          VersionIds,   \* ids for rows of strategy_versions
          RunIds,       \* ids for rows of backtest_runs
          Dumps,        \* instrument lists the broker may return
          BatchSize,    \* rows per upsert statement (2000)
          MaxRequests,  \* requests that use the catalog
          MaxEdits,     \* watchlist edits and instrument syncs
          MaxFaults,    \* database failures and restarts of the server
          None          \* no row, no value

ASSUME BacktestAssumption ==
  /\ IsFiniteSet(Threads) /\ Threads # {}
  /\ {BatchSize, MaxRequests, MaxEdits, MaxFaults} \subseteq Nat /\ BatchSize > 0
  /\ \A X \in {Codes, VersionIds, RunIds} : X \subseteq Nat \ {0}
  /\ None \notin Symbols \cup Codes \cup VersionIds \cup RunIds \cup {0}
  /\ Sparse \subseteq Instruments /\ Listed \in [Instruments -> Symbols]
  /\ Dumps \subseteq Seq([instrument : Instruments, symbol : Symbols \cup {None}])

VARIABLES symbol,     \* instruments: the symbol of each row, None for no row
          watchlist,  \* its items; None once it is deleted
          doomed,     \* the items a DELETE of the watchlist has loaded
          strategy,   \* strategies: None for no row, else current_version_id (0: null)
          version,    \* strategy_versions: the version string of each row
          run,        \* backtest_runs with their trades and metrics
          release,    \* the version string of the deployed strategy code
          req,        \* what each thread is doing
          told,       \* what the client of each run has been answered
          requests, edits, faults  \* how many there have been

tables == <<symbol, watchlist, doomed, strategy, version, run>>
counts == <<requests, edits, faults>>
vars   == <<tables, release, req, told, counts>>

Used == Instruments \X Symbols  \* an instrument under the symbol it was replayed as

RunRows == [status : {"pending", "running", "success", "failed"}, version : VersionIds,
            code : Codes, snapshot : SUBSET Used, ledger : SUBSET Used,
            metrics : SUBSET Used, portfolio : SUBSET Instruments]

ASSUME NoRowAssumption ==
  /\ None \notin RunRows /\ None \notin {"waiting", "ok", "error"}
  /\ \A X \in SUBSET Instruments : X # None

Catalog == {"strategy", "addStrategy", "version", "addVersion", "reread", "current"}
InTry   == {"prepare", "metrics", "finish", "answer"}

\* The local variables of a request; 0 stands for "not assigned yet".
Idle == [pc |-> "idle", backtest |-> FALSE, seen |-> 0, version |-> 0, run |-> 0,
         list |-> {}, inputs |-> {}, poisoned |-> FALSE]

Init ==
  /\ symbol = Listed
  /\ watchlist = Instruments /\ doomed = None
  /\ strategy = None
  /\ version = [v \in VersionIds |-> None]
  /\ run = [k \in RunIds |-> None]
  /\ release \in Codes /\ \A c \in Codes : release <= c
  /\ req = [t \in Threads |-> Idle]
  /\ told = [k \in RunIds |-> None]
  /\ requests = 0 /\ edits = 0 /\ faults = 0

\* A new row takes the next unused id.
NextFree(table, id) ==
  table[id] = None /\ \A other \in DOMAIN table : other < id => table[other] # None

Goto(t, pc) == req' = [req EXCEPT ![t].pc = pc]

\* The exception leaves the route as HTTP 400 (and closes the session).
Refuse(t) ==
  /\ req' = [req EXCEPT ![t] = Idle]
  /\ told' = IF req[t].run = 0 THEN told ELSE [told EXCEPT ![req[t].run] = "error"]

-----------------------------------------------------------------------------
(* Timeframe, strategy and parameters are valid.  backtest is FALSE for the*)
(* preset routes of a strategy, which use the catalog in the same way.     *)
Receive(t, backtest) ==
  /\ req[t].pc = "idle" /\ requests < MaxRequests
  /\ requests' = requests + 1
  /\ req' = [req EXCEPT ![t] = [Idle EXCEPT !.pc = "strategy", !.backtest = backtest]]
  /\ UNCHANGED <<tables, release, told, edits, faults>>

(* get_or_create_version: a known strategy gets its metadata refreshed. *)
FindStrategy(t) ==
  /\ req[t].pc = "strategy"
  /\ Goto(t, IF strategy = None THEN "addStrategy" ELSE "version")
  /\ UNCHANGED <<tables, release, told, counts>>

\* The slug is unique: the second of two inserts raises IntegrityError.
AddStrategy(t) ==
  /\ req[t].pc = "addStrategy"
  /\ IF strategy = None
     THEN strategy' = 0 /\ Goto(t, "version") /\ UNCHANGED told
     ELSE Refuse(t) /\ UNCHANGED strategy
  /\ UNCHANGED <<symbol, watchlist, doomed, version, run, release, counts>>

\* MUTANT: the latest version is taken, whatever its version string.
FindVersionMutAny(t) ==
  /\ req[t].pc = "version"
  /\ \/ \E v \in VersionIds :
          /\ version[v] # None
          /\ req' = [req EXCEPT ![t].version = v, ![t].seen = strategy, ![t].pc = "current"]
     \/ (\A v \in VersionIds : version[v] = None) /\ Goto(t, "addVersion")
  /\ UNCHANGED <<tables, release, told, counts>>

\* MUTANT: only the current version of the strategy is looked at.
FindVersionMutCurrent(t) ==
  /\ req[t].pc = "version"
  /\ IF strategy # 0 /\ version[strategy] = release
     THEN req' = [req EXCEPT ![t].version = strategy, ![t].seen = strategy, ![t].pc = "current"]
     ELSE Goto(t, "addVersion")
  /\ UNCHANGED <<tables, release, told, counts>>

\* Versions have no unique constraint and first() has no order.
FindVersion(t) ==
  /\ req[t].pc = "version"
  /\ \/ \E v \in VersionIds :
          /\ version[v] = release
          /\ req' = [req EXCEPT ![t].version = v, ![t].seen = strategy, ![t].pc = "current"]
     \/ (\A v \in VersionIds : version[v] # release) /\ Goto(t, "addVersion")
  /\ UNCHANGED <<tables, release, told, counts>>

AddVersion(t) ==
  /\ req[t].pc = "addVersion"
  /\ \E v \in VersionIds :
       /\ NextFree(version, v)
       /\ version' = [version EXCEPT ![v] = release]
       /\ req' = [req EXCEPT ![t].version = v, ![t].pc = "reread"]
  /\ UNCHANGED <<symbol, watchlist, doomed, strategy, run, release, told, counts>>

\* The commit of the new version expired the strategy, too.
ReadCurrent(t) ==
  /\ req[t].pc = "reread"
  /\ req' = [req EXCEPT ![t].seen = strategy, ![t].pc = "current"]
  /\ UNCHANGED <<tables, release, told, counts>>

SetCurrent(t) ==
  /\ req[t].pc = "current"
  /\ strategy' = IF req[t].seen # req[t].version THEN req[t].version ELSE strategy
  /\ IF req[t].backtest THEN Goto(t, "list") ELSE req' = [req EXCEPT ![t] = Idle]
  /\ UNCHANGED <<symbol, watchlist, doomed, version, run, release, told, counts>>

(* list_instruments; a watchlist that is gone has none. *)
ListInstruments(t) ==
  /\ req[t].pc = "list"
  /\ req' = [req EXCEPT ![t].pc = "create",
               ![t].list = {<<i, symbol[i]>> : i \in IF watchlist = None THEN {} ELSE watchlist}]
  /\ UNCHANGED <<tables, release, told, counts>>

\* The foreign key refuses a run of a watchlist that is gone.
CreateRun(t) ==
  /\ req[t].pc = "create"
  /\ \/ /\ watchlist # None
        /\ \E k \in RunIds :
             /\ NextFree(run, k)
             /\ run' = [run EXCEPT ![k] =
                  [status |-> "pending", version |-> req[t].version, code |-> release,
                   snapshot |-> req[t].list, ledger |-> {}, metrics |-> {}, portfolio |-> {}]]
             /\ told' = [told EXCEPT ![k] = "waiting"]
             /\ req' = [req EXCEPT ![t].run = k, ![t].pc = "mark"]
     \/ watchlist = None /\ Refuse(t) /\ UNCHANGED run
  /\ UNCHANGED <<symbol, watchlist, doomed, strategy, version, release, counts>>

MarkRunning(t) ==
  /\ req[t].pc = "mark"
  /\ run' = [run EXCEPT ![req[t].run].status = "running"]
  /\ Goto(t, "prepare")
  /\ UNCHANGED <<symbol, watchlist, doomed, strategy, version, release, told, counts>>

(* _prepare_input, one instrument: its row was expired by the last commit, *)
(* so its symbol is the one of now.  Without candles it is skipped.        *)
PrepareInstrument(t) ==
  /\ req[t].pc = "prepare"
  /\ \E p \in req[t].list : \E candles \in {TRUE, p[1] \notin Sparse} :
       req' = [req EXCEPT ![t].list = @ \ {p},
                 ![t].inputs = IF candles THEN @ \cup {<<p[1], symbol[p[1]]>>} ELSE @]
  /\ UNCHANGED <<tables, release, told, counts>>

\* Every symbol is replayed; add_trades stores the ledger of all of them.
StoreTrades(t) ==
  /\ req[t].pc = "prepare" /\ req[t].list = {}
  /\ run' = [run EXCEPT ![req[t].run].ledger = req[t].inputs]
  /\ req' = [req EXCEPT ![t].list = req[t].inputs, ![t].pc = "metrics"]
  /\ UNCHANGED <<symbol, watchlist, doomed, strategy, version, release, told, counts>>

\* MUTANT: the row is found by run alone.
StoreSymbolMetricsMutKey(t) ==
  /\ req[t].pc = "metrics"
  /\ \E p \in req[t].list :
       /\ run' = [run EXCEPT ![req[t].run].metrics = {p}]
       /\ req' = [req EXCEPT ![t].list = @ \ {p}]
  /\ UNCHANGED <<symbol, watchlist, doomed, strategy, version, release, told, counts>>

(* upsert_metrics finds its row by run and symbol: a later instrument with *)
(* the same symbol replaces the earlier one.                               *)
StoreSymbolMetrics(t) ==
  /\ req[t].pc = "metrics"
  /\ \E p \in req[t].list :
       /\ run' = [run EXCEPT ![req[t].run].metrics = {q \in @ : q[2] # p[2]} \cup {p}]
       /\ req' = [req EXCEPT ![t].list = @ \ {p}]
  /\ UNCHANGED <<symbol, watchlist, doomed, strategy, version, release, told, counts>>

StorePortfolioMetrics(t) ==
  /\ req[t].pc = "metrics" /\ req[t].list = {}
  /\ run' = [run EXCEPT ![req[t].run].portfolio = {p[1] : p \in req[t].inputs}]
  /\ Goto(t, "finish")
  /\ UNCHANGED <<symbol, watchlist, doomed, strategy, version, release, told, counts>>

MarkSuccess(t) ==
  /\ req[t].pc = "finish"
  /\ run' = [run EXCEPT ![req[t].run].status = "success"]
  /\ Goto(t, "answer")
  /\ UNCHANGED <<symbol, watchlist, doomed, strategy, version, release, told, counts>>

\* The result is built inside the try block and reads the run's id again.
Answer(t) ==
  /\ req[t].pc = "answer"
  /\ told' = [told EXCEPT ![req[t].run] = "ok"]
  /\ req' = [req EXCEPT ![t] = Idle]
  /\ UNCHANGED <<tables, release, counts>>

-----------------------------------------------------------------------------
(* A candle request, the strategy or the replay raises. *)
RaiseAppError(t) ==
  /\ req[t].pc = "prepare"
  /\ Goto(t, "handler")
  /\ UNCHANGED <<tables, release, told, counts>>

(* A statement or a connection fails: outside the try block the request is *)
(* over.  Inside it, a statement that fails leaves the handler a session   *)
(* that needs a rollback.                                                  *)
RaiseDbError(t) ==
  /\ req[t].pc # "idle" /\ faults < MaxFaults
  /\ faults' = faults + 1
  /\ IF req[t].pc \in InTry
     THEN req' = [req EXCEPT ![t].pc = "handler", ![t].poisoned = TRUE] /\ UNCHANGED told
     ELSE Refuse(t)
  /\ UNCHANGED <<tables, release, requests, edits>>

(* Each commit inside the try block gives the connection back; the read    *)
(* that follows raises when the pool has none, and leaves the session      *)
(* usable: the handler closes the run, even one that was marked "success". *)
RaiseConnectionError(t) ==
  /\ req[t].pc \in InTry /\ faults < MaxFaults
  /\ faults' = faults + 1
  /\ Goto(t, "handler")
  /\ UNCHANGED <<tables, release, told, requests, edits>>

\* MUTANT: the exception is passed on without closing the run.
HandleMutNoStatus(t) ==
  /\ req[t].pc = "handler"
  /\ Refuse(t)
  /\ UNCHANGED <<tables, release, counts>>

(* except Exception: set_status(FAILED); raise *)
Handle(t) ==
  /\ req[t].pc = "handler"
  /\ run' = IF req[t].poisoned THEN run ELSE [run EXCEPT ![req[t].run].status = "failed"]
  /\ Refuse(t)
  /\ UNCHANGED <<symbol, watchlist, doomed, strategy, version, release, counts>>

(* The server goes down and comes up, with the same code or the next. *)
Restart ==
  /\ faults < MaxFaults
  /\ faults' = faults + 1
  /\ release' \in {c \in Codes : c \in {release, release + 1}}
  /\ req' = [t \in Threads |-> Idle]
  /\ told' = [k \in RunIds |-> IF told[k] = "waiting" THEN "error" ELSE told[k]]
  /\ doomed' = None
  /\ UNCHANGED <<symbol, watchlist, strategy, version, run, requests, edits>>

-----------------------------------------------------------------------------
Edit == edits < MaxEdits /\ edits' = edits + 1 /\ UNCHANGED <<requests, faults>>

(* POST /watchlists/{id}/items: any IntegrityError is swallowed, for an    *)
(* item that is there and for a watchlist or instrument that is not.       *)
AddInstrument(i) ==
  /\ Edit
  /\ watchlist' = IF watchlist # None /\ symbol[i] # None THEN watchlist \cup {i} ELSE watchlist
  /\ UNCHANGED <<symbol, doomed, strategy, version, run, release, req, told>>

RemoveInstrument(i) ==
  /\ Edit
  /\ watchlist' = IF watchlist # None THEN watchlist \ {i} ELSE watchlist
  /\ UNCHANGED <<symbol, doomed, strategy, version, run, release, req, told>>

(* DELETE /watchlists/{id} loads the items it has to cascade to. *)
LoadForDelete ==
  /\ Edit
  /\ watchlist # None /\ doomed = None
  /\ doomed' = watchlist
  /\ UNCHANGED <<symbol, watchlist, strategy, version, run, release, req, told>>

(* It deletes those and the watchlist; an item added since, or a run, still*)
(* refers to it, and then nothing is deleted.                              *)
DeleteWatchlist ==
  /\ doomed # None
  /\ LET referenced == ~(watchlist \subseteq doomed) \/ \E k \in RunIds : run[k] # None
     IN  watchlist' = IF referenced THEN watchlist ELSE None
  /\ doomed' = None
  /\ UNCHANGED <<symbol, strategy, version, run, release, req, told, counts>>

\* MUTANT: rows that lack a field are stored as well.
SyncInstrumentsMutNoSkip(dump) ==
  LET of(i)   == {n \in DOMAIN dump : dump[n].instrument = i}
      last(i) == CHOOSE n \in of(i) : \A m \in of(i) : m <= n
  IN  /\ Edit
      /\ symbol' = [i \in Instruments |-> IF of(i) = {} THEN symbol[i]
                                          ELSE dump[last(i)].symbol]
      /\ UNCHANGED <<watchlist, doomed, strategy, version, run, release, req, told>>

(* POST /instruments/sync: rows that lack a field are skipped, the others  *)
(* are upserted in batches within one transaction.  A statement that meets *)
(* the same row twice is refused by the database, and with it the sync.    *)
SyncInstruments(dump) ==
  LET kept     == {n \in DOMAIN dump : dump[n].symbol # None}
      batch(n) == Cardinality({m \in kept : m < n}) \div BatchSize
      of(i)    == {n \in kept : dump[n].instrument = i}
      last(i)  == CHOOSE n \in of(i) : \A m \in of(i) : m <= n
      twice    == \E i \in Instruments : \E m, n \in of(i) : m # n /\ batch(m) = batch(n)
  IN  /\ Edit
      /\ symbol' = [i \in Instruments |-> IF twice \/ of(i) = {} THEN symbol[i]
                                          ELSE dump[last(i)].symbol]
      /\ UNCHANGED <<watchlist, doomed, strategy, version, run, release, req, told>>

Step(t) ==
  \/ \E backtest \in BOOLEAN : Receive(t, backtest)
  \/ FindStrategy(t) \/ AddStrategy(t) \/ FindVersion(t) \/ AddVersion(t) \/ ReadCurrent(t)
  \/ SetCurrent(t) \/ ListInstruments(t) \/ CreateRun(t) \/ MarkRunning(t)
  \/ PrepareInstrument(t) \/ StoreTrades(t) \/ StoreSymbolMetrics(t) \/ StorePortfolioMetrics(t)
  \/ MarkSuccess(t) \/ Answer(t)
  \/ RaiseAppError(t) \/ RaiseDbError(t) \/ RaiseConnectionError(t) \/ Handle(t)

Next ==
  \/ \E t \in Threads : Step(t)
  \/ Restart
  \/ \E i \in Instruments : AddInstrument(i) \/ RemoveInstrument(i)
  \/ LoadForDelete \/ DeleteWatchlist
  \/ \E dump \in Dumps : SyncInstruments(dump)

Spec == Init /\ [][Next]_vars

-----------------------------------------------------------------------------
(* Every row and every local variable holds a value of its type. *)
TypeOK ==
  /\ symbol \in [Instruments -> Symbols \cup {None}]
  /\ watchlist \in (SUBSET Instruments) \cup {None} /\ doomed \in (SUBSET Instruments) \cup {None}
  /\ strategy \in VersionIds \cup {0, None}
  /\ version \in [VersionIds -> Codes \cup {None}]
  /\ run \in [RunIds -> RunRows \cup {None}]
  /\ release \in Codes
  /\ req \in [Threads -> [pc : {"idle", "list", "create", "mark", "handler"} \cup Catalog \cup InTry,
                          backtest : BOOLEAN, seen : VersionIds \cup {0},
                          version : VersionIds \cup {0}, run : RunIds \cup {0},
                          list : SUBSET Used, inputs : SUBSET Used, poisoned : BOOLEAN]]
  /\ told \in [RunIds -> {None, "waiting", "ok", "error"}]
  /\ requests \in 0 .. MaxRequests /\ edits \in 0 .. MaxEdits /\ faults \in 0 .. MaxFaults

Rows   == {k \in RunIds : run[k] # None}
Of(us) == {p[1] : p \in us}

(* Whatever happens to the watchlist and the instruments meanwhile, a      *)
(* successful run has replayed instruments of its snapshot only, its ledger*)
(* and its portfolio cover the same ones, and each has its own metrics row *)
(* unless another one was replayed under the same symbol.                  *)
SuccessCoversSnapshot ==
  \A k \in Rows : run[k].status = "success" =>
    LET r == run[k]
        namesakes(p) == {q \in r.ledger : q[2] = p[2]}
    IN  /\ Of(r.ledger) = r.portfolio /\ r.portfolio \subseteq Of(r.snapshot)
        /\ r.metrics \subseteq r.ledger
        /\ \A p \in r.ledger : /\ Cardinality(namesakes(p) \cap r.metrics) = 1
                               /\ \A q \in r.ledger : p[1] = q[1] => p = q

(* What the client is told is what the database says.  "ok" means success; *)
(* and as long as no statement fails and the server stays up, a run is     *)
(* open exactly while its request is under way and failed exactly when its *)
(* client was told so.                                                     *)
RequestsTellTheTruth ==
  \A k \in Rows :
    /\ told[k] = "ok" => run[k].status = "success"
    /\ run[k].status = "failed" => told[k] = "error"
    /\ faults = 0 => /\ run[k].status \in {"pending", "running"} => told[k] = "waiting"
                     /\ told[k] = "error" => run[k].status = "failed"
                     /\ told[k] = "waiting" => \E t \in Threads : req[t].run = k

(* A run stays reproducible: the rows it refers to exist for good, with the*)
(* version of the code that computed it; and the strategy's current version*)
(* is that of the deployed code from its first run on.                     *)
RunsPinTheirVersion ==
  \A k \in Rows :
    /\ watchlist # None
    /\ version[run[k].version] = run[k].code
    /\ run[k].code = release => strategy \in VersionIds /\ version[strategy] = release

(* The same version string is only stored twice by requests that overlap:  *)
(* there are never more copies than threads, however many requests follow. *)
TwinsOnlyFromOverlap ==
  \A c \in Codes : Cardinality({v \in VersionIds : version[v] = c}) <= Cardinality(Threads)
=============================================================================
