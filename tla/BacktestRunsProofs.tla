-------------------------- MODULE BacktestRunsProofs --------------------------
(***************************************************************************)
(* What BacktestRuns promises of runs, of answers and of versions, for any *)
(* number of threads, instruments, releases, edits and faults.  None of it *)
(* is inductive: a row is only right because of what the thread that owns  *)
(* it has read before, and the current version of the strategy because of  *)
(* what every thread has seen since the server came up.                    *)
(***************************************************************************)
EXTENDS BacktestRuns, FiniteSetTheorems, SequenceTheorems, WellFoundedInduction, TLAPS

OpenRun      == {"mark", "handler"} \cup InTry
AfterCatalog == {"list", "create"} \cup OpenRun
HasVersion   == {"reread", "current"} \cup AfterCatalog

Requests == [pc : {"idle"} \cup Catalog \cup AfterCatalog,
             backtest : BOOLEAN, seen : VersionIds \cup {0},
             version : VersionIds \cup {0}, run : RunIds \cup {0},
             list : SUBSET Used, inputs : SUBSET Used, poisoned : BOOLEAN]

\* A symbol is never taken away again.
Types ==
  /\ symbol \in [Instruments -> Symbols]
  /\ watchlist \in (SUBSET Instruments) \cup {None} /\ doomed \in (SUBSET Instruments) \cup {None}
  /\ strategy \in VersionIds \cup {0, None}
  /\ version \in [VersionIds -> Codes \cup {None}]
  /\ run \in [RunIds -> RunRows \cup {None}]
  /\ release \in Codes
  /\ req \in [Threads -> Requests]
  /\ told \in [RunIds -> {None, "waiting", "ok", "error"}]
  /\ requests \in 0 .. MaxRequests /\ edits \in 0 .. MaxEdits /\ faults \in 0 .. MaxFaults

\* v is a row of the code that is deployed; Current: so is the current version.
Deployed(v) == v \in VersionIds /\ version[v] = release
Current     == Deployed(strategy)

CatalogInv ==
  /\ \A v \in VersionIds : version[v] # None => version[v] <= release
  /\ strategy \in VersionIds => version[strategy] # None
  /\ \A t \in Threads :
       /\ req[t].seen \in VersionIds => version[req[t].seen] # None
       /\ req[t].pc \in {"version", "addVersion"} \cup HasVersion => strategy # None
       /\ req[t].pc \in HasVersion => Deployed(req[t].version)
       /\ Deployed(req[t].seen) => Current
       /\ req[t].pc \in AfterCatalog => Current

\* A run whose client waits has exactly one thread that works on it.
OwnerInv ==
  /\ \A t \in Threads : req[t].run # 0 <=> req[t].pc \in OpenRun
  /\ \A t \in Threads : req[t].run # 0 => /\ run[req[t].run] # None
                                          /\ told[req[t].run] = "waiting"
  /\ \A t, u \in Threads : req[t].run # 0 /\ req[t].run = req[u].run => t = u
  /\ \A k \in Rows : told[k] = "waiting" => \E t \in Threads : req[t].run = k
  /\ \A k \in Rows : told[k] # None

Functional(us) == \A p, q \in us : p[1] = q[1] => p = q

\* Among the metrics ms, p has one row, which may be that of a namesake.
OneRow(p, ms) ==
  /\ \E q \in ms : q[2] = p[2]
  /\ \A q1, q2 \in ms : q1[2] = q2[2] => q1 = q2

\* How far a request is with the row of its run.
Preparing(r, row) ==
  /\ row.status = "running" /\ row.metrics = {}
  /\ Functional(r.list) /\ Functional(r.inputs)
  /\ \A p \in r.list : p[1] \in Of(row.snapshot)
  /\ \A p \in r.inputs : p[1] \in Of(row.snapshot)
  /\ \A p \in r.list, q \in r.inputs : p[1] # q[1]

Replayed(r, row) ==
  /\ Functional(r.inputs) /\ row.ledger = r.inputs /\ row.metrics \subseteq r.inputs
  /\ \A p \in r.inputs : p[1] \in Of(row.snapshot)

Measured(r, row, done) ==
  /\ \A p \in done : OneRow(p, row.metrics)
  /\ \A q1, q2 \in row.metrics : q1[2] = q2[2] => q1 = q2

Stage(r, row) ==
  /\ r.pc = "mark" => /\ row.status = "pending" /\ row.metrics = {}
                      /\ row.snapshot = r.list /\ r.inputs = {} /\ Functional(r.list)
  /\ r.pc = "prepare" => Preparing(r, row)
  /\ r.pc = "metrics" => /\ row.status = "running" /\ Replayed(r, row) /\ r.list \subseteq r.inputs
                         /\ Measured(r, row, r.inputs \ r.list)
  /\ r.pc \in {"finish", "answer"} =>
       /\ row.status = IF r.pc = "finish" THEN "running" ELSE "success"
       /\ Replayed(r, row) /\ Measured(r, row, r.inputs)
       /\ row.portfolio = Of(r.inputs)
  /\ r.pc = "handler" => row.status \in {"running", "success"}

OutOfRun(r) ==
  /\ r.pc \notin OpenRun => r.inputs = {}
  /\ r.pc = "create" => Functional(r.list)

OnStage(t) ==
  /\ OutOfRun(req[t])
  /\ req[t].pc \in OpenRun => Stage(req[t], run[req[t].run])
  /\ req[t].poisoned => faults > 0

StageInv == \A t \in Threads : OnStage(t)

\* What SuccessCoversSnapshot says of one run.
Covers(r) ==
  /\ Of(r.ledger) = r.portfolio /\ r.portfolio \subseteq Of(r.snapshot)
  /\ r.metrics \subseteq r.ledger /\ Functional(r.ledger)
  /\ \A p \in r.ledger : OneRow(p, r.metrics)

RowsInv ==
  \A k \in Rows :
    /\ watchlist # None
    /\ version[run[k].version] = run[k].code /\ run[k].code <= release
    /\ run[k].code = release => Current
    /\ run[k].status = "success" => Covers(run[k])
    /\ run[k].status = "failed" => told[k] = "error"
    /\ told[k] = "ok" => run[k].status = "success"
    /\ told[k] = "error" /\ faults = 0 => run[k].status = "failed"

\* Whoever is about to add a version has seen none: while there is one, the
\* copies and those threads together are no more than the threads.
Copies(c) == {v \in VersionIds : version[v] = c}
Adders    == {t \in Threads : req[t].pc = "addVersion"}

CopiesInv ==
  /\ \A c \in Codes : IsFiniteSet(Copies(c)) /\ Cardinality(Copies(c)) <= Cardinality(Threads)
  /\ Copies(release) # {} =>
       Cardinality(Copies(release)) + Cardinality(Adders) <= Cardinality(Threads)

IInv == Types /\ CatalogInv /\ OwnerInv /\ StageInv /\ RowsInv /\ CopiesInv

-----------------------------------------------------------------------------
(* What the assumptions say of ids, codes and the bounds. *)
LEMMA Constants ==
  /\ VersionIds \subseteq Nat \ {0} /\ RunIds \subseteq Nat \ {0} /\ Codes \subseteq Nat \ {0}
  /\ 0 \notin VersionIds /\ 0 \notin RunIds
  /\ None \notin Codes /\ None \notin VersionIds /\ None # 0 /\ None \notin Symbols
  /\ None \notin RunRows /\ None \notin SUBSET Instruments
  /\ MaxRequests \in Nat /\ MaxEdits \in Nat /\ MaxFaults \in Nat
<1>1. VersionIds \subseteq Nat \ {0} /\ RunIds \subseteq Nat \ {0} /\ Codes \subseteq Nat \ {0}
  BY BacktestAssumption
<1>2. None \notin Codes /\ None \notin VersionIds /\ None # 0 /\ None \notin Symbols
  BY BacktestAssumption
<1>3. MaxRequests \in Nat /\ MaxEdits \in Nat /\ MaxFaults \in Nat
  BY BacktestAssumption
<1>4. None \notin RunRows /\ None \notin SUBSET Instruments
  BY NoRowAssumption
<1> QED BY <1>1, <1>2, <1>3, <1>4

(* A finite set of positions that is not empty has a last one.             *)
LEMMA Greatest ==
  ASSUME NEW N \in Nat, NEW S \in SUBSET (1 .. N), S # {}
  PROVE  \E n \in S : \A m \in S : m <= n
<1> DEFINE T == {d \in Nat : \E n \in S : d = N - n}
<1>1. \A n \in S : N - n \in T
  OBVIOUS
<1>2. T \subseteq Nat /\ T # {}
  BY <1>1
<1>3. PICK d \in T : \A e \in T : <<e, d>> \notin OpToRel(<, Nat)
  BY <1>2, WFMin, NatLessThanWellFounded
<1>4. \A e \in T : ~(e < d)
  BY <1>2, <1>3 DEF OpToRel
<1>5. PICK n \in S : d = N - n
  OBVIOUS
<1>6. \A m \in S : ~(N - m < d)
  BY <1>1, <1>4
<1> QED BY <1>5, <1>6

(* A thread without a request. *)
LEMMA IdleType == Idle \in Requests
  BY DEF Idle, Requests

(* The server starts without runs, versions or requests.                   *)
LEMMA InitInv == Init => IInv
<1> SUFFICES ASSUME Init PROVE IInv
  OBVIOUS
<1> USE Constants DEF Init
<1>1. Types
  BY IdleType, BacktestAssumption DEF Types
<1>2. CatalogInv
  BY DEF CatalogInv, Idle, HasVersion, AfterCatalog, OpenRun, InTry, Deployed
<1>3. OwnerInv
  BY DEF OwnerInv, Idle, OpenRun, InTry, Rows
<1>4. StageInv
  BY DEF StageInv, OnStage, OutOfRun, Idle, OpenRun, InTry
<1>5. RowsInv
  BY DEF RowsInv, Rows
<1>6. CopiesInv
  <2>1. \A c \in Codes : Copies(c) = {}
    BY DEF Copies
  <2>2. Cardinality(Threads) \in Nat
    BY BacktestAssumption, FS_CardinalityType
  <2>3. IsFiniteSet({}) /\ Cardinality({}) = 0
    BY FS_EmptySet
  <2>4. Copies(release) = {}
    BY <2>1
  <2> QED BY <2>1, <2>2, <2>3, <2>4 DEF CopiesInv
<1> QED BY <1>1, <1>2, <1>3, <1>4, <1>5, <1>6 DEF IInv

-----------------------------------------------------------------------------
(***************************************************************************)
(* What each step of a request changes, field by field: Moves says of the  *)
(* actions all that the lemmas need, without the records they update, and  *)
(* MovesOfStep that it is what they do.                                    *)
(***************************************************************************)
Moved(t, pc, list, inputs) ==
  /\ req'[t].pc = pc /\ req'[t].list = list /\ req'[t].inputs = inputs
  /\ req'[t].seen = req[t].seen /\ req'[t].version = req[t].version
  /\ req'[t].run = req[t].run /\ req'[t].poisoned = req[t].poisoned

GoesTo(t, pc) == Moved(t, pc, req[t].list, req[t].inputs)

Chose(t, v) ==
  /\ req'[t].pc = "current" /\ req'[t].version = v /\ req'[t].seen = strategy
  /\ req'[t].run = req[t].run /\ req'[t].poisoned = req[t].poisoned
  /\ req'[t].list = req[t].list /\ req'[t].inputs = req[t].inputs

Added(t, v) ==
  /\ req'[t].pc = "reread" /\ req'[t].version = v /\ req'[t].seen = req[t].seen
  /\ req'[t].run = req[t].run /\ req'[t].poisoned = req[t].poisoned
  /\ req'[t].list = req[t].list /\ req'[t].inputs = req[t].inputs

Wrote(t, status, ledger, metrics, portfolio) ==
  LET k == req[t].run
  IN  /\ run'[k] # None /\ run'[k].status = status /\ run'[k].ledger = ledger
      /\ run'[k].metrics = metrics /\ run'[k].portfolio = portfolio
      /\ run'[k].version = run[k].version /\ run'[k].code = run[k].code
      /\ run'[k].snapshot = run[k].snapshot
      /\ \A other \in RunIds \ {k} : run'[other] = run[other]

SameCatalog == UNCHANGED <<strategy, version>>
SameRuns    == UNCHANGED <<run, told>>

Enters(t) ==
  /\ req[t].pc = "idle"
  /\ req'[t].pc = "strategy" /\ req'[t].seen = 0 /\ req'[t].version = 0 /\ req'[t].run = 0
  /\ req'[t].list = {} /\ req'[t].inputs = {} /\ req'[t].poisoned = FALSE
  /\ SameCatalog /\ SameRuns /\ faults' = faults

LooksUp(t) ==
  /\ \/ req[t].pc = "strategy" /\ strategy = None /\ GoesTo(t, "addStrategy")
     \/ req[t].pc = "strategy" /\ strategy # None /\ GoesTo(t, "version")
     \/ /\ req[t].pc = "version" /\ GoesTo(t, "addVersion")
        /\ \A v \in VersionIds : version[v] # release
     \/ req[t].pc = "version" /\ \E v \in VersionIds : version[v] = release /\ Chose(t, v)
     \/ req[t].pc = "reread" /\ \E v \in VersionIds : version[v] = release /\ Chose(t, v)
  /\ SameCatalog /\ SameRuns /\ faults' = faults

AddsStrategy(t) ==
  /\ req[t].pc = "addStrategy" /\ strategy = None /\ strategy' = 0 /\ GoesTo(t, "version")
  /\ version' = version /\ SameRuns /\ faults' = faults

AddsVersion(t) ==
  /\ req[t].pc = "addVersion"
  /\ \E v \in VersionIds :
       /\ version[v] = None /\ version'[v] = release
       /\ \A w \in VersionIds \ {v} : version'[w] = version[w]
       /\ Added(t, v)
  /\ strategy' = strategy /\ SameRuns /\ faults' = faults

SetsCurrent(t) ==
  /\ req[t].pc = "current"
  /\ strategy' = IF req[t].seen # req[t].version THEN req[t].version ELSE strategy
  /\ GoesTo(t, "list") \/ req'[t] = Idle
  /\ version' = version /\ SameRuns /\ faults' = faults

Lists(t) ==
  /\ req[t].pc = "list" /\ \E us : Moved(t, "create", us, req[t].inputs) /\ Functional(us)
  /\ SameCatalog /\ SameRuns /\ faults' = faults

Creates(t) ==
  /\ req[t].pc = "create" /\ watchlist # None
  /\ \E k \in RunIds :
       /\ run[k] = None /\ run'[k] # None
       /\ run'[k].status = "pending" /\ run'[k].snapshot = req[t].list
       /\ run'[k].metrics = {} /\ run'[k].version = req[t].version /\ run'[k].code = release
       /\ \A other \in RunIds \ {k} : run'[other] = run[other] /\ told'[other] = told[other]
       /\ told'[k] = "waiting"
       /\ req'[t].pc = "mark" /\ req'[t].run = k /\ req'[t].list = req[t].list
       /\ req'[t].inputs = req[t].inputs /\ req'[t].poisoned = req[t].poisoned
       /\ req'[t].seen = req[t].seen /\ req'[t].version = req[t].version
  /\ SameCatalog /\ faults' = faults

Prepares(t) ==
  /\ req[t].pc = "prepare"
  /\ \E p \in req[t].list, s \in Symbols : \E new \in {{}, {<<p[1], s>>}} :
       Moved(t, "prepare", req[t].list \ {p}, req[t].inputs \cup new)
  /\ SameCatalog /\ SameRuns /\ faults' = faults

Stores(t) ==
  LET r == req[t]
      row == run[r.run]
  IN  /\ \/ /\ r.pc = "mark" /\ GoesTo(t, "prepare")
            /\ Wrote(t, "running", row.ledger, row.metrics, row.portfolio)
         \/ /\ r.pc = "prepare" /\ r.list = {} /\ Moved(t, "metrics", r.inputs, r.inputs)
            /\ Wrote(t, row.status, r.inputs, row.metrics, row.portfolio)
         \/ /\ r.pc = "metrics"
            /\ \E p \in r.list :
                 /\ Moved(t, "metrics", r.list \ {p}, r.inputs)
                 /\ Wrote(t, row.status, row.ledger,
                          {q \in row.metrics : q[2] # p[2]} \cup {p}, row.portfolio)
         \/ /\ r.pc = "metrics" /\ r.list = {} /\ GoesTo(t, "finish")
            /\ Wrote(t, row.status, row.ledger, row.metrics, Of(r.inputs))
         \/ /\ r.pc = "finish" /\ GoesTo(t, "answer")
            /\ Wrote(t, "success", row.ledger, row.metrics, row.portfolio)
      /\ SameCatalog /\ told' = told /\ faults' = faults

Fails(t) ==
  /\ \/ req[t].pc = "prepare" /\ GoesTo(t, "handler") /\ faults' = faults
     \/ /\ req[t].pc \in InTry /\ faults' = faults + 1
        /\ req'[t].pc = "handler" /\ req'[t].run = req[t].run
        /\ req'[t].seen = req[t].seen /\ req'[t].version = req[t].version
  /\ SameCatalog /\ SameRuns

\* Told(t, answer): the client of the run of t, if there is one, is answered.
Told(t, answer) ==
  /\ req[t].run # 0 => told'[req[t].run] = answer
  /\ \A other \in RunIds \ {req[t].run} : told'[other] = told[other]

Ends(t) ==
  /\ req'[t] = Idle
  /\ \/ req[t].pc = "answer" /\ Told(t, "ok") /\ run' = run /\ faults' = faults
     \/ /\ req[t].pc \in {"addStrategy", "create"} /\ Told(t, "error") /\ run' = run
        /\ faults' = faults
     \/ Told(t, "error") /\ run' = run /\ faults' = faults + 1
     \/ /\ req[t].pc = "handler" /\ Told(t, "error") /\ faults' = faults
        /\ \/ req[t].poisoned /\ run' = run
           \/ ~req[t].poisoned /\ Wrote(t, "failed", run[req[t].run].ledger,
                                        run[req[t].run].metrics, run[req[t].run].portfolio)
  /\ SameCatalog

Moves(t) == \/ Enters(t) \/ LooksUp(t) \/ AddsStrategy(t) \/ AddsVersion(t) \/ SetsCurrent(t)
            \/ Lists(t) \/ Creates(t) \/ Prepares(t) \/ Stores(t) \/ Fails(t) \/ Ends(t)

(* No step of a request touches the watchlist, the code or other requests. *)
Apart(t) == /\ UNCHANGED <<symbol, watchlist, doomed, release, edits>>
            /\ \A u \in Threads \ {t} : req'[u] = req[u]

\* The steps that are no request's.
Other == \/ Restart
         \/ \E i \in Instruments : AddInstrument(i) \/ RemoveInstrument(i)
         \/ LoadForDelete \/ DeleteWatchlist
         \/ \E dump \in Dumps : SyncInstruments(dump)

(* Every step of a request keeps the types. *)
LEMMA TypesStep ==
  ASSUME IInv, NEW t \in Threads, Step(t)
  PROVE  Types'
<1> DEFINE k == req[t].run
<1> USE DEF Types, tables, counts
<1>1. Types /\ req[t] \in Requests
  BY DEF IInv
<1>2. ASSUME NEW backtest \in BOOLEAN, Receive(t, backtest) PROVE Types'
  <2>1. [Idle EXCEPT !.pc = "strategy", !.backtest = backtest] \in Requests
    BY IdleType DEF Requests, Catalog
  <2>2. req' \in [Threads -> Requests]
    BY <1>1, <1>2, <2>1 DEF Receive
  <2>3. requests' \in 0 .. MaxRequests
    BY <1>1, <1>2, Constants DEF Receive
  <2> QED BY <1>1, <1>2, <2>2, <2>3 DEF Receive
<1>3. CASE FindStrategy(t)
  BY <1>1, <1>3 DEF FindStrategy, Goto, Requests, Catalog
<1>4. CASE AddStrategy(t)
  BY <1>1, <1>4, IdleType DEF AddStrategy, Goto, Refuse, Requests, Catalog
<1>5. CASE FindVersion(t)
  <2>1. CASE Goto(t, "addVersion")
    BY <1>1, <1>5, <2>1 DEF FindVersion, Goto, Requests, Catalog
  <2>2. ASSUME NEW v \in VersionIds,
               req' = [req EXCEPT ![t].version = v, ![t].seen = strategy, ![t].pc = "current"]
        PROVE  Types'
    <3>1. strategy \in VersionIds \cup {0}
      BY <1>1, <1>5 DEF IInv, CatalogInv, FindVersion
    <3>2. req' \in [Threads -> Requests]
      BY <1>1, <2>2, <3>1 DEF Requests, Catalog
    <3> QED BY <1>1, <1>5, <3>2 DEF FindVersion
  <2> QED BY <1>5, <2>1, <2>2 DEF FindVersion
<1>6. CASE AddVersion(t)
  BY <1>1, <1>6 DEF IInv, CatalogInv, AddVersion, Requests, Catalog
<1>21. CASE ReadCurrent(t)
  <2>1. strategy \in VersionIds \cup {0}
    BY <1>1, <1>21 DEF IInv, CatalogInv, HasVersion, ReadCurrent
  <2> QED BY <1>1, <1>21, <2>1 DEF ReadCurrent, Requests, Catalog
<1>7. CASE SetCurrent(t)
  BY <1>1, <1>7, IdleType
     DEF IInv, CatalogInv, HasVersion, Deployed, SetCurrent, Goto, Requests, AfterCatalog
<1>8. CASE ListInstruments(t)
  <2> DEFINE us == {<<i, symbol[i]>> : i \in IF watchlist = None THEN {} ELSE watchlist}
  <2>1. us \in SUBSET Used
    BY <1>1 DEF Used
  <2>2. req' = [req EXCEPT ![t].pc = "create", ![t].list = us]
    BY <1>8 DEF ListInstruments
  <2>3. req' \in [Threads -> Requests]
    BY <1>1, <2>1, <2>2 DEF Requests, AfterCatalog
  <2> QED BY <1>1, <1>8, <2>3 DEF ListInstruments
<1>9. CASE CreateRun(t)
  <2>1. CASE Refuse(t) /\ UNCHANGED run
    BY <1>1, <1>9, <2>1, IdleType DEF CreateRun, Refuse
  <2>2. ASSUME NEW m \in RunIds,
               run' = [run EXCEPT ![m] =
                 [status |-> "pending", version |-> req[t].version, code |-> release,
                  snapshot |-> req[t].list, ledger |-> {}, metrics |-> {}, portfolio |-> {}]],
               told' = [told EXCEPT ![m] = "waiting"],
               req' = [req EXCEPT ![t].run = m, ![t].pc = "mark"]
        PROVE  Types'
    <3>1. req[t].version \in VersionIds
      BY <1>9 DEF CreateRun, IInv, CatalogInv, HasVersion, AfterCatalog, Deployed
    <3>2. [status |-> "pending", version |-> req[t].version, code |-> release,
           snapshot |-> req[t].list, ledger |-> {}, metrics |-> {}, portfolio |-> {}] \in RunRows
      BY <1>1, <3>1 DEF Requests, RunRows
    <3>3. run' \in [RunIds -> RunRows \cup {None}]
      BY <1>1, <2>2, <3>2
    <3>4. req' \in [Threads -> Requests]
      BY <1>1, <2>2 DEF Requests, AfterCatalog, OpenRun
    <3> QED BY <1>1, <1>9, <2>2, <3>3, <3>4 DEF CreateRun
  <2> QED BY <1>9, <2>1, <2>2 DEF CreateRun
<1>10. req[t].pc \in OpenRun => k \in RunIds /\ run[k] \in RunRows
  <2>1. k # 0 <=> req[t].pc \in OpenRun
    BY DEF IInv, OwnerInv
  <2>2. k # 0 => run[k] # None
    BY DEF IInv, OwnerInv
  <2>3. k \in RunIds \cup {0}
    BY <1>1 DEF Requests
  <2> QED BY <1>1, <2>1, <2>2, <2>3
<1>11. CASE MarkRunning(t)
  BY <1>1, <1>10, <1>11
     DEF MarkRunning, Goto, Requests, AfterCatalog, OpenRun, InTry, RunRows
<1>12. CASE PrepareInstrument(t)
  <2>1. PICK p \in req[t].list : \E candles \in {TRUE, p[1] \notin Sparse} :
          req' = [req EXCEPT ![t].list = @ \ {p},
                    ![t].inputs = IF candles THEN @ \cup {<<p[1], symbol[p[1]]>>} ELSE @]
    BY <1>12 DEF PrepareInstrument
  <2>2. <<p[1], symbol[p[1]]>> \in Used
    BY <1>1, <2>1 DEF Requests, Used
  <2>3. PICK new \in SUBSET Used :
          req' = [req EXCEPT ![t] = [@ EXCEPT !.list = req[t].list \ {p}, !.inputs = new]]
    <3>1. PICK candles \in {TRUE, p[1] \notin Sparse} :
            req' = [req EXCEPT ![t].list = @ \ {p},
                      ![t].inputs = IF candles THEN @ \cup {<<p[1], symbol[p[1]]>>} ELSE @]
      BY <2>1
    <3>2. CASE candles
      <4>1. req[t].inputs \cup {<<p[1], symbol[p[1]]>>} \in SUBSET Used
        BY <1>1, <2>2 DEF Requests
      <4> QED BY <1>1, <3>1, <3>2, <4>1 DEF Requests
    <3>3. CASE ~candles
      BY <1>1, <3>1, <3>3 DEF Requests
    <3> QED BY <3>2, <3>3
  <2>4. req' \in [Threads -> Requests]
    BY <1>1, <2>3 DEF Requests
  <2> QED BY <1>1, <1>12, <2>4 DEF PrepareInstrument
<1>13. CASE StoreTrades(t)
  BY <1>1, <1>10, <1>13
     DEF StoreTrades, Requests, AfterCatalog, OpenRun, InTry, RunRows
<1>14. CASE StoreSymbolMetrics(t)
  <2>1. PICK p \in req[t].list :
          /\ run' = [run EXCEPT ![k].metrics = {q \in @ : q[2] # p[2]} \cup {p}]
          /\ req' = [req EXCEPT ![t].list = @ \ {p}]
    BY <1>14 DEF StoreSymbolMetrics
  <2>2. k \in RunIds /\ run[k] \in RunRows
    BY <1>10, <1>14 DEF StoreSymbolMetrics, OpenRun, InTry
  <2>3. {q \in run[k].metrics : q[2] # p[2]} \cup {p} \in SUBSET Used
    BY <1>1, <2>1, <2>2 DEF Requests, RunRows
  <2>4. run' \in [RunIds -> RunRows \cup {None}]
    BY <1>1, <2>1, <2>2, <2>3 DEF RunRows
  <2>5. req' \in [Threads -> Requests]
    BY <1>1, <2>1 DEF Requests
  <2> QED BY <1>1, <1>14, <2>4, <2>5 DEF StoreSymbolMetrics
<1>15. CASE StorePortfolioMetrics(t)
  <2>1. {p[1] : p \in req[t].inputs} \in SUBSET Instruments
    BY <1>1 DEF Requests, Used
  <2> QED
    BY <1>1, <1>10, <1>15, <2>1
       DEF StorePortfolioMetrics, Goto, Requests, AfterCatalog, OpenRun, InTry, RunRows
<1>16. CASE MarkSuccess(t)
  BY <1>1, <1>10, <1>16
     DEF MarkSuccess, Goto, Requests, AfterCatalog, OpenRun, InTry, RunRows
<1>17. CASE Answer(t)
  BY <1>1, <1>10, <1>17, IdleType DEF Answer, OpenRun, InTry
<1>18. CASE RaiseAppError(t)
  BY <1>1, <1>18 DEF RaiseAppError, Goto, Requests, AfterCatalog, OpenRun
<1>19. CASE RaiseDbError(t)
  <2>1. faults' \in 0 .. MaxFaults
    BY <1>1, <1>19, Constants DEF RaiseDbError
  <2>2. CASE req[t].pc \in InTry
    BY <1>1, <1>19, <2>1, <2>2 DEF RaiseDbError, Requests, AfterCatalog, OpenRun
  <2>3. CASE req[t].pc \notin InTry
    BY <1>1, <1>19, <2>1, <2>3, IdleType DEF RaiseDbError, Refuse
  <2> QED BY <2>2, <2>3
<1>20. CASE Handle(t)
  BY <1>1, <1>10, <1>20, IdleType DEF Handle, Refuse, OpenRun, RunRows
<1>22. CASE RaiseConnectionError(t)
  <2>1. faults' \in 0 .. MaxFaults
    BY <1>1, <1>22, Constants DEF RaiseConnectionError
  <2> QED BY <1>1, <1>22, <2>1 DEF RaiseConnectionError, Goto, Requests, AfterCatalog, OpenRun
<1> QED BY <1>2, <1>3, <1>4, <1>5, <1>6, <1>7, <1>8, <1>9, <1>11, <1>12, <1>13, <1>14,
           <1>15, <1>16, <1>17, <1>18, <1>19, <1>20, <1>21, <1>22, Step(t) DEF Step

(* Each action changes what Moves says and nothing else.                   *)
LEMMA MovesOfStep ==
  ASSUME IInv, Types', NEW t \in Threads, Step(t)
  PROVE  Moves(t) /\ Apart(t)
<1> DEFINE k == req[t].run
<1>1. /\ req \in [Threads -> Requests] /\ req[t] \in Requests
      /\ run \in [RunIds -> RunRows \cup {None}]
      /\ told \in [RunIds -> {None, "waiting", "ok", "error"}]
      /\ version \in [VersionIds -> Codes \cup {None}]
      /\ symbol \in [Instruments -> Symbols]
  BY DEF IInv, Types
<1>2. /\ k # 0 <=> req[t].pc \in OpenRun
      /\ k # 0 => k \in RunIds /\ run[k] # None
  BY <1>1 DEF IInv, OwnerInv, Requests
<1>3. req[t].pc \in OpenRun => k \in RunIds /\ run[k] \in RunRows
  BY <1>1, <1>2
<1> USE DEF tables, counts, Apart, SameCatalog, SameRuns, GoesTo, Moved
<1>4. ASSUME NEW backtest \in BOOLEAN, Receive(t, backtest) PROVE Enters(t) /\ Apart(t)
  BY <1>1, <1>4 DEF Receive, Enters, Idle
<1>5. CASE FindStrategy(t)
  <2>1. LooksUp(t)
    BY <1>1, <1>5 DEF FindStrategy, Goto, LooksUp, Requests
  <2>2. Apart(t)
    BY <1>1, <1>5 DEF FindStrategy, Goto
  <2> QED BY <2>1, <2>2 DEF Moves
<1>6. CASE AddStrategy(t)
  <2>1. CASE strategy = None
    BY <1>1, <1>6, <2>1 DEF AddStrategy, Goto, AddsStrategy, Requests, Moves
  <2>2. CASE strategy # None
    <3>1. /\ req[t].pc = "addStrategy" /\ Refuse(t) /\ faults' = faults
          /\ UNCHANGED <<symbol, watchlist, doomed, strategy, version, run, release, edits>>
      BY <1>6, <2>2 DEF AddStrategy
    <3>2. Told(t, "error") /\ req'[t] = Idle /\ \A u \in Threads \ {t} : req'[u] = req[u]
      BY <1>1, <1>2, <3>1 DEF Refuse, Told
    <3> QED BY <3>1, <3>2 DEF Ends, Moves
  <2> QED BY <2>1, <2>2
<1>7. CASE FindVersion(t)
  <2>1. ASSUME NEW v \in VersionIds, version[v] = release,
               req' = [req EXCEPT ![t].version = v, ![t].seen = strategy, ![t].pc = "current"]
        PROVE  Moves(t) /\ Apart(t)
    <3>1. Chose(t, v) /\ \A u \in Threads \ {t} : req'[u] = req[u]
      BY <1>1, <2>1 DEF Chose, Requests
    <3>2. LooksUp(t)
      BY <1>7, <2>1, <3>1 DEF FindVersion, LooksUp
    <3> QED BY <1>7, <3>1, <3>2 DEF FindVersion, Moves
  <2>2. CASE (\A v \in VersionIds : version[v] # release) /\ Goto(t, "addVersion")
    BY <1>1, <1>7, <2>2 DEF FindVersion, Goto, LooksUp, Requests, Moves
  <2> QED BY <1>7, <2>1, <2>2 DEF FindVersion
<1>8. CASE AddVersion(t)
  <2>1. PICK v \in VersionIds :
          /\ version[v] = None /\ version' = [version EXCEPT ![v] = release]
          /\ req' = [req EXCEPT ![t].version = v, ![t].pc = "reread"]
    BY <1>8 DEF AddVersion, NextFree
  <2>2. Added(t, v) /\ \A u \in Threads \ {t} : req'[u] = req[u]
    BY <1>1, <2>1 DEF Added, Requests
  <2>3. version'[v] = release /\ \A w \in VersionIds \ {v} : version'[w] = version[w]
    BY <1>1, <2>1
  <2> QED BY <1>8, <2>1, <2>2, <2>3 DEF AddVersion, AddsVersion, Moves
<1>22. CASE ReadCurrent(t)
  <2>1. /\ req[t].pc = "reread" /\ req[t].version \in VersionIds
        /\ version[req[t].version] = release
    BY <1>22 DEF ReadCurrent, IInv, CatalogInv, HasVersion, Deployed
  <2>2. Chose(t, req[t].version) /\ \A u \in Threads \ {t} : req'[u] = req[u]
    BY <1>1, <1>22 DEF ReadCurrent, Chose, Requests
  <2>3. LooksUp(t)
    BY <1>22, <2>1, <2>2 DEF ReadCurrent, LooksUp
  <2> QED BY <1>22, <2>2, <2>3 DEF ReadCurrent, Moves
<1>9. CASE SetCurrent(t)
  <2>1. GoesTo(t, "list") \/ req'[t] = Idle
    BY <1>1, <1>9 DEF SetCurrent, Goto, Requests
  <2>2. \A u \in Threads \ {t} : req'[u] = req[u]
    BY <1>1, <1>9 DEF SetCurrent, Goto
  <2> QED BY <1>9, <2>1, <2>2 DEF SetCurrent, SetsCurrent, Moves
<1>10. CASE ListInstruments(t)
  <2> DEFINE us == {<<i, symbol[i]>> : i \in IF watchlist = None THEN {} ELSE watchlist}
  <2>1. Moved(t, "create", us, req[t].inputs) /\ \A u \in Threads \ {t} : req'[u] = req[u]
    BY <1>1, <1>10 DEF ListInstruments, Requests
  <2>2. Functional(us)
    BY DEF Functional
  <2> QED BY <1>10, <2>1, <2>2 DEF ListInstruments, Lists, Moves
<1>11. CASE CreateRun(t)
  <2>1. CASE watchlist = None
    <3>1. /\ req[t].pc = "create" /\ Refuse(t) /\ faults' = faults
          /\ UNCHANGED <<symbol, watchlist, doomed, strategy, version, run, release, edits>>
      BY <1>11, <2>1 DEF CreateRun
    <3>2. Told(t, "error") /\ req'[t] = Idle /\ \A u \in Threads \ {t} : req'[u] = req[u]
      BY <1>1, <1>2, <3>1 DEF Refuse, Told
    <3> QED BY <3>1, <3>2 DEF Ends, Moves
  <2>2. CASE watchlist # None
    <3>1. PICK m \in RunIds :
            /\ run[m] = None
            /\ run' = [run EXCEPT ![m] =
                 [status |-> "pending", version |-> req[t].version, code |-> release,
                  snapshot |-> req[t].list, ledger |-> {}, metrics |-> {}, portfolio |-> {}]]
            /\ told' = [told EXCEPT ![m] = "waiting"]
            /\ req' = [req EXCEPT ![t].run = m, ![t].pc = "mark"]
      BY <1>11, <2>2 DEF CreateRun, NextFree
    <3>2. run'[m] = [status |-> "pending", version |-> req[t].version, code |-> release,
                     snapshot |-> req[t].list, ledger |-> {}, metrics |-> {}, portfolio |-> {}]
      BY <1>1, <3>1
    <3>3. run'[m] # None
      <4>1. req[t].version \in VersionIds /\ release \in Codes /\ req[t].list \in SUBSET Used
        BY <1>1, <1>11 DEF CreateRun, IInv, Types, CatalogInv, HasVersion, AfterCatalog, Deployed,
                           Requests
      <4>2. run'[m] \in RunRows
        BY <3>2, <4>1 DEF RunRows
      <4> QED BY <4>2, NoRowAssumption
    <3>4. /\ \A other \in RunIds \ {m} : run'[other] = run[other] /\ told'[other] = told[other]
          /\ told'[m] = "waiting"
      BY <1>1, <3>1
    <3>5. /\ req'[t].pc = "mark" /\ req'[t].run = m /\ req'[t].list = req[t].list
          /\ req'[t].inputs = req[t].inputs /\ req'[t].poisoned = req[t].poisoned
          /\ req'[t].seen = req[t].seen /\ req'[t].version = req[t].version
          /\ \A u \in Threads \ {t} : req'[u] = req[u]
      BY <1>1, <3>1 DEF Requests
    <3>6. /\ req[t].pc = "create" /\ faults' = faults /\ UNCHANGED <<strategy, version>>
          /\ UNCHANGED <<symbol, watchlist, doomed, release, edits>>
      BY <1>11 DEF CreateRun
    <3>7. Creates(t)
      BY <2>2, <3>1, <3>2, <3>3, <3>4, <3>5, <3>6 DEF Creates
    <3> QED BY <3>5, <3>6, <3>7 DEF Moves
  <2> QED BY <2>1, <2>2
<1>12. CASE MarkRunning(t)
  <2>1. k \in RunIds /\ run[k] \in RunRows /\ req[t].pc = "mark"
    BY <1>3, <1>12 DEF MarkRunning, OpenRun
  <2>2. GoesTo(t, "prepare") /\ \A u \in Threads \ {t} : req'[u] = req[u]
    BY <1>1, <1>12 DEF MarkRunning, Goto, Requests
  <2>3. run'[k] = [run[k] EXCEPT !.status = "running"] /\ \A m \in RunIds \ {k} : run'[m] = run[m]
    BY <1>1, <1>12, <2>1 DEF MarkRunning
  <2>4. Wrote(t, "running", run[k].ledger, run[k].metrics, run[k].portfolio)
    BY <2>1, <2>3, NoRowAssumption DEF Wrote, RunRows
  <2> QED BY <1>12, <2>1, <2>2, <2>4 DEF MarkRunning, Stores, Moves
<1>13. CASE PrepareInstrument(t)
  <2>1. PICK p \in req[t].list : \E candles \in {TRUE, p[1] \notin Sparse} :
          req' = [req EXCEPT ![t].list = @ \ {p},
                    ![t].inputs = IF candles THEN @ \cup {<<p[1], symbol[p[1]]>>} ELSE @]
    BY <1>13 DEF PrepareInstrument
  <2>2. p[1] \in Instruments /\ symbol[p[1]] \in Symbols
    BY <1>1, <2>1 DEF Requests, Used
  <2>3. \/ Moved(t, "prepare", req[t].list \ {p}, req[t].inputs \cup {})
        \/ Moved(t, "prepare", req[t].list \ {p}, req[t].inputs \cup {<<p[1], symbol[p[1]]>>})
    BY <1>1, <1>13, <2>1 DEF PrepareInstrument, Requests
  <2>4. \A u \in Threads \ {t} : req'[u] = req[u]
    BY <1>1, <2>1
  <2>5. Prepares(t)
    BY <1>13, <2>2, <2>3 DEF PrepareInstrument, Prepares
  <2> QED BY <1>13, <2>4, <2>5 DEF PrepareInstrument, Moves
<1>14. CASE StoreTrades(t)
  <2>1. k \in RunIds /\ run[k] \in RunRows /\ req[t].pc = "prepare" /\ req[t].list = {}
    BY <1>3, <1>14 DEF StoreTrades, OpenRun, InTry
  <2>2. /\ Moved(t, "metrics", req[t].inputs, req[t].inputs)
        /\ \A u \in Threads \ {t} : req'[u] = req[u]
    BY <1>1, <1>14 DEF StoreTrades, Requests
  <2>3. /\ run'[k] = [run[k] EXCEPT !.ledger = req[t].inputs]
        /\ \A m \in RunIds \ {k} : run'[m] = run[m]
    BY <1>1, <1>14, <2>1 DEF StoreTrades
  <2>4. Wrote(t, run[k].status, req[t].inputs, run[k].metrics, run[k].portfolio)
    BY <1>1, <2>1, <2>3, NoRowAssumption DEF Wrote, RunRows, Requests
  <2> QED BY <1>14, <2>1, <2>2, <2>4 DEF StoreTrades, Stores, Moves
<1>15. CASE StoreSymbolMetrics(t)
  <2>1. k \in RunIds /\ run[k] \in RunRows /\ req[t].pc = "metrics"
    BY <1>3, <1>15 DEF StoreSymbolMetrics, OpenRun, InTry
  <2>2. PICK p \in req[t].list :
          /\ run' = [run EXCEPT ![k].metrics = {q \in @ : q[2] # p[2]} \cup {p}]
          /\ req' = [req EXCEPT ![t].list = @ \ {p}]
    BY <1>15 DEF StoreSymbolMetrics
  <2>3. /\ Moved(t, "metrics", req[t].list \ {p}, req[t].inputs)
        /\ \A u \in Threads \ {t} : req'[u] = req[u]
    BY <1>1, <2>1, <2>2 DEF Requests
  <2>4. /\ run'[k] = [run[k] EXCEPT !.metrics = {q \in run[k].metrics : q[2] # p[2]} \cup {p}]
        /\ \A m \in RunIds \ {k} : run'[m] = run[m]
    BY <1>1, <2>1, <2>2
  <2>5. p \in Used /\ {q \in run[k].metrics : q[2] # p[2]} \cup {p} \in SUBSET Used
    BY <1>1, <2>1 DEF Requests, RunRows
  <2>6. Wrote(t, run[k].status, run[k].ledger, {q \in run[k].metrics : q[2] # p[2]} \cup {p},
              run[k].portfolio)
    BY <2>1, <2>4, <2>5, NoRowAssumption DEF Wrote, RunRows
  <2> QED BY <1>15, <2>1, <2>3, <2>6 DEF StoreSymbolMetrics, Stores, Moves
<1>16. CASE StorePortfolioMetrics(t)
  <2>1. k \in RunIds /\ run[k] \in RunRows /\ req[t].pc = "metrics" /\ req[t].list = {}
    BY <1>3, <1>16 DEF StorePortfolioMetrics, OpenRun, InTry
  <2>2. GoesTo(t, "finish") /\ \A u \in Threads \ {t} : req'[u] = req[u]
    BY <1>1, <1>16 DEF StorePortfolioMetrics, Goto, Requests
  <2>3. /\ run'[k] = [run[k] EXCEPT !.portfolio = Of(req[t].inputs)]
        /\ \A m \in RunIds \ {k} : run'[m] = run[m]
    BY <1>1, <1>16, <2>1 DEF StorePortfolioMetrics, Of
  <2>4. Of(req[t].inputs) \in SUBSET Instruments
    BY <1>1 DEF Of, Requests, Used
  <2>5. Wrote(t, run[k].status, run[k].ledger, run[k].metrics, Of(req[t].inputs))
    BY <2>1, <2>3, <2>4, NoRowAssumption DEF Wrote, RunRows
  <2> QED BY <1>16, <2>1, <2>2, <2>5 DEF StorePortfolioMetrics, Stores, Moves
<1>17. CASE MarkSuccess(t)
  <2>1. k \in RunIds /\ run[k] \in RunRows /\ req[t].pc = "finish"
    BY <1>3, <1>17 DEF MarkSuccess, OpenRun, InTry
  <2>2. GoesTo(t, "answer") /\ \A u \in Threads \ {t} : req'[u] = req[u]
    BY <1>1, <1>17 DEF MarkSuccess, Goto, Requests
  <2>3. run'[k] = [run[k] EXCEPT !.status = "success"] /\ \A m \in RunIds \ {k} : run'[m] = run[m]
    BY <1>1, <1>17, <2>1 DEF MarkSuccess
  <2>4. Wrote(t, "success", run[k].ledger, run[k].metrics, run[k].portfolio)
    BY <2>1, <2>3, NoRowAssumption DEF Wrote, RunRows
  <2> QED BY <1>17, <2>1, <2>2, <2>4 DEF MarkSuccess, Stores, Moves
<1>18. CASE Answer(t)
  <2>1. req'[t] = Idle /\ (\A u \in Threads \ {t} : req'[u] = req[u]) /\ req[t].pc = "answer"
    BY <1>1, <1>18 DEF Answer
  <2>2. Told(t, "ok")
    BY <1>1, <1>2, <1>18 DEF Answer, Told
  <2> QED BY <1>18, <2>1, <2>2 DEF Answer, Ends, Moves
<1>19. CASE RaiseAppError(t)
  <2>1. GoesTo(t, "handler") /\ req[t].pc = "prepare" /\ \A u \in Threads \ {t} : req'[u] = req[u]
    BY <1>1, <1>19 DEF RaiseAppError, Goto, Requests
  <2> QED BY <1>19, <2>1 DEF RaiseAppError, Fails, Moves
<1>20. CASE RaiseDbError(t)
  <2>1. CASE req[t].pc \in InTry
    <3>1. req' = [req EXCEPT ![t].pc = "handler", ![t].poisoned = TRUE] /\ told' = told
      BY <1>20, <2>1 DEF RaiseDbError
    <3>2. /\ req'[t].pc = "handler" /\ req'[t].run = req[t].run
          /\ req'[t].seen = req[t].seen /\ req'[t].version = req[t].version
          /\ \A u \in Threads \ {t} : req'[u] = req[u]
      BY <1>1, <3>1 DEF Requests
    <3> QED BY <1>20, <2>1, <3>1, <3>2 DEF RaiseDbError, Fails, Moves
  <2>2. CASE req[t].pc \notin InTry
    <3>1. /\ Refuse(t) /\ faults' = faults + 1
          /\ UNCHANGED <<symbol, watchlist, doomed, strategy, version, run, release, edits>>
      BY <1>20, <2>2 DEF RaiseDbError
    <3>2. Told(t, "error") /\ req'[t] = Idle /\ \A u \in Threads \ {t} : req'[u] = req[u]
      BY <1>1, <1>2, <3>1 DEF Refuse, Told
    <3> QED BY <3>1, <3>2 DEF Ends, Moves
  <2> QED BY <2>1, <2>2
<1>21. CASE Handle(t)
  <2>1. k \in RunIds /\ run[k] \in RunRows /\ req[t].pc = "handler" /\ Refuse(t)
        /\ UNCHANGED <<symbol, watchlist, doomed, strategy, version, release, edits, faults>>
    BY <1>3, <1>21 DEF Handle, OpenRun
  <2>2. Told(t, "error") /\ req'[t] = Idle /\ \A u \in Threads \ {t} : req'[u] = req[u]
    BY <1>1, <1>2, <2>1 DEF Refuse, Told
  <2>3. CASE req[t].poisoned
    BY <1>21, <2>1, <2>2, <2>3 DEF Handle, Ends, Moves
  <2>4. CASE ~req[t].poisoned
    <3>1. run'[k] = [run[k] EXCEPT !.status = "failed"] /\ \A m \in RunIds \ {k} : run'[m] = run[m]
      BY <1>1, <1>21, <2>1, <2>4 DEF Handle
    <3>2. Wrote(t, "failed", run[k].ledger, run[k].metrics, run[k].portfolio)
      BY <2>1, <3>1, NoRowAssumption DEF Wrote, RunRows
    <3> QED BY <2>1, <2>2, <2>4, <3>2 DEF Ends, Moves
  <2> QED BY <2>3, <2>4
<1>23. CASE RaiseConnectionError(t)
  <2>1. /\ req[t].pc \in InTry /\ req'[t].pc = "handler" /\ req'[t].run = req[t].run
        /\ req'[t].seen = req[t].seen /\ req'[t].version = req[t].version
        /\ \A u \in Threads \ {t} : req'[u] = req[u]
    BY <1>1, <1>23 DEF RaiseConnectionError, Goto, Requests
  <2> QED BY <1>23, <2>1 DEF RaiseConnectionError, Fails, Moves
<1> QED BY <1>4, <1>5, <1>6, <1>7, <1>8, <1>9, <1>10, <1>11, <1>12, <1>13, <1>14, <1>15, <1>16,
           <1>17, <1>18, <1>19, <1>20, <1>21, <1>22, <1>23, Step(t) DEF Step, Moves

(* Every other step does, too: a sync only stores symbols that are there. *)
LEMMA TypesEdit ==
  ASSUME IInv, Other
  PROVE  Types'
<1> USE DEF Types, tables, counts
<1>1. Types
  BY DEF IInv
<1>2. CASE Restart
  BY <1>1, <1>2, IdleType, Constants DEF Restart
<1>3. ASSUME NEW i \in Instruments, AddInstrument(i) PROVE Types'
  BY <1>1, <1>3, Constants DEF AddInstrument, Edit
<1>4. ASSUME NEW i \in Instruments, RemoveInstrument(i) PROVE Types'
  BY <1>1, <1>4, Constants DEF RemoveInstrument, Edit
<1>5. CASE LoadForDelete
  BY <1>1, <1>5, Constants DEF LoadForDelete, Edit
<1>6. CASE DeleteWatchlist
  BY <1>1, <1>6 DEF DeleteWatchlist
<1>7. ASSUME NEW dump \in Dumps, SyncInstruments(dump) PROVE Types'
  <2> DEFINE kept  == {n \in DOMAIN dump : dump[n].symbol # None}
             of(i) == {n \in kept : dump[n].instrument = i}
             last(i) == CHOOSE n \in of(i) : \A m \in of(i) : m <= n
  <2>1. dump \in Seq([instrument : Instruments, symbol : Symbols \cup {None}])
    BY BacktestAssumption
  <2>2. ASSUME NEW i \in Instruments, of(i) # {} PROVE dump[last(i)].symbol \in Symbols
    <3>1. of(i) \subseteq 1 .. Len(dump) /\ Len(dump) \in Nat
      BY <2>1
    <3>2. last(i) \in of(i)
      BY <2>2, <3>1, Greatest
    <3> HIDE DEF last
    <3>3. last(i) \in 1 .. Len(dump) /\ dump[last(i)].symbol # None
      BY <2>1, <3>2
    <3>4. \A n \in 1 .. Len(dump) :
            dump[n] \in [instrument : Instruments, symbol : Symbols \cup {None}]
      BY <2>1, ElementOfSeq
    <3> QED BY <3>3, <3>4
  <2> DEFINE twice == \E i \in Instruments : \E m, n \in of(i) :
                        /\ m # n
                        /\ Cardinality({l \in kept : l < m}) \div BatchSize
                             = Cardinality({l \in kept : l < n}) \div BatchSize
  <2>3. symbol' = [i \in Instruments |-> IF twice \/ of(i) = {} THEN symbol[i]
                                         ELSE dump[last(i)].symbol]
    BY <1>7 DEF SyncInstruments
  <2>4. symbol' \in [Instruments -> Symbols]
    <3> HIDE DEF twice, of, last
    <3> QED BY <1>1, <2>2, <2>3
  <2>5. /\ edits' \in 0 .. MaxEdits
        /\ UNCHANGED <<watchlist, doomed, strategy, version, run, release, req, told, requests,
                       faults>>
    BY <1>1, <1>7, Constants DEF SyncInstruments, Edit
  <2> QED BY <1>1, <2>4, <2>5
<1> QED BY <1>2, <1>3, <1>4, <1>5, <1>6, <1>7, Other DEF Other

-----------------------------------------------------------------------------
(* What a request has seen of the catalog stays true while the server is up*)
LEMMA CatalogStep ==
  ASSUME IInv, Types', NEW t \in Threads, Step(t)
  PROVE  CatalogInv'
<1> DEFINE Rows2 == \A v \in VersionIds : version[v] # None => version[v] <= release
           Mine(u) == /\ req[u].seen \in VersionIds => version[req[u].seen] # None
                      /\ req[u].pc \in {"version", "addVersion"} \cup HasVersion => strategy # None
                      /\ req[u].pc \in HasVersion => Deployed(req[u].version)
                      /\ Deployed(req[u].seen) => Current
                      /\ req[u].pc \in AfterCatalog => Current
<1>1. Types /\ CatalogInv /\ req[t] \in Requests /\ Apart(t) /\ Moves(t)
  BY MovesOfStep DEF IInv, Types
<1>2. release \in Nat /\ release' = release /\ \A u \in Threads \ {t} : req'[u] = req[u]
  BY <1>1, Constants DEF Apart, Types
<1>3. CASE /\ SameCatalog
           /\ req'[t].seen = req[t].seen /\ req'[t].version = req[t].version
           /\ \/ req[t].pc \in AfterCatalog /\ req'[t].pc \in AfterCatalog
              \/ /\ req'[t].pc \in {"addStrategy", "version", "addVersion"}
                 /\ req'[t].pc # "addStrategy" => strategy # None
  BY <1>1, <1>2, <1>3
     DEF CatalogInv, Deployed, Current, HasVersion, AfterCatalog, OpenRun, InTry, SameCatalog
<1>4. CASE SameCatalog /\ req'[t].seen = 0 /\ req'[t].pc \in {"idle", "strategy"}
  BY <1>1, <1>2, <1>4, Constants
     DEF CatalogInv, Deployed, Current, HasVersion, AfterCatalog, OpenRun, InTry, SameCatalog
<1>5. CASE Enters(t) \/ Ends(t)
  BY <1>4, <1>5 DEF Enters, Ends, Idle
<1>6. CASE LooksUp(t)
  <2>1. CASE GoesTo(t, "addStrategy") \/ GoesTo(t, "version") \/ GoesTo(t, "addVersion")
    BY <1>1, <1>3, <1>6, <2>1
       DEF LooksUp, GoesTo, Moved, Chose, CatalogInv, HasVersion, AfterCatalog, OpenRun, InTry
  <2>2. ASSUME NEW v \in VersionIds, version[v] = release, Chose(t, v),
               req[t].pc \in {"version", "reread"}
        PROVE  CatalogInv'
    BY <1>1, <1>2, <1>6, <2>2
       DEF LooksUp, Chose, SameCatalog, CatalogInv, Deployed, Current, HasVersion, AfterCatalog,
           OpenRun, InTry
  <2> QED BY <1>6, <2>1, <2>2 DEF LooksUp
<1>7. CASE AddsStrategy(t)
  <2>1. /\ strategy = None /\ strategy' = 0 /\ version' = version /\ req'[t].pc = "version"
        /\ req'[t].seen = req[t].seen /\ req[t].pc = "addStrategy"
    BY <1>7 DEF AddsStrategy, GoesTo, Moved
  <2> QED BY <1>1, <1>2, <2>1, Constants
       DEF CatalogInv, Deployed, Current, HasVersion, AfterCatalog, OpenRun, InTry
<1>8. CASE AddsVersion(t)
  <2>1. PICK v \in VersionIds :
               /\ version[v] = None /\ version'[v] = release
               /\ \A w \in VersionIds \ {v} : version'[w] = version[w]
               /\ Added(t, v)
    BY <1>8 DEF AddsVersion
  <2>2. strategy' = strategy /\ strategy # None
    BY <1>1, <1>8 DEF AddsVersion, CatalogInv
  <2>3. release # None
    BY <1>1, Constants DEF Types
  <2>4. \A w \in VersionIds : version[w] # None => w # v /\ version'[w] = version[w]
    BY <2>1
  <2>5. \A w \in VersionIds : version'[w] # None => version'[w] <= release
    BY <1>1, <1>2, <2>1 DEF CatalogInv
  <2>6. Current => Current'
    BY <1>2, <2>1, <2>2, <2>3 DEF Current, Deployed
  <2>7. strategy' \in VersionIds => version'[strategy'] # None
    BY <1>1, <2>2, <2>4 DEF CatalogInv
  <2>8. \A w : w # v => (Deployed(w) <=> Deployed(w)')
    BY <1>2, <2>1 DEF Deployed
  <2>9. ASSUME NEW u \in Threads \ {t}
        PROVE  Mine(u)'
    <3>1. Mine(u) /\ req'[u] = req[u]
      BY <1>1, <1>2 DEF CatalogInv
    <3>2. req[u].seen # v
      BY <2>1, <3>1
    <3>3. Deployed(req[u].version) => Deployed(req[u].version)'
      BY <1>2, <2>1, <2>3 DEF Deployed
    <3> QED BY <2>2, <2>4, <2>6, <2>8, <3>1, <3>2, <3>3
  <2>10. Mine(t)'
    <3>1. req'[t].pc = "reread" /\ req'[t].version = v /\ req'[t].seen = req[t].seen
      BY <2>1 DEF Added
    <3>2. Deployed(v)'
      BY <1>2, <2>1 DEF Deployed
    <3>3. Mine(t)
      BY <1>1 DEF CatalogInv
    <3>4. req[t].seen # v
      BY <2>1, <3>3
    <3> QED BY <2>2, <2>4, <2>6, <2>8, <3>1, <3>2, <3>3, <3>4 DEF HasVersion, AfterCatalog, OpenRun, InTry
  <2> QED BY <1>2, <2>5, <2>7, <2>9, <2>10 DEF CatalogInv
<1>9. CASE SetsCurrent(t)
  <2>1. Deployed(req[t].version) /\ (Deployed(req[t].seen) => Current) /\ strategy # None
    BY <1>1, <1>9 DEF SetsCurrent, CatalogInv, HasVersion
  <2>2. strategy' = req[t].version \/ (strategy' = strategy /\ req[t].seen = req[t].version)
    BY <1>9 DEF SetsCurrent
  <2>3. Deployed(strategy') /\ version' = version
    BY <1>9, <2>1, <2>2 DEF Current, SetsCurrent
  <2>4. Current' /\ strategy' # None /\ strategy' \in VersionIds /\ version'[strategy'] # None
    BY <1>1, <1>2, <2>3, Constants DEF Current, Deployed, Types
  <2>5. CASE req'[t] = Idle
    BY <1>1, <1>2, <2>3, <2>4, <2>5, Constants
       DEF CatalogInv, Deployed, Idle, HasVersion, AfterCatalog, OpenRun, InTry
  <2>6. CASE GoesTo(t, "list")
    BY <1>1, <1>2, <2>1, <2>3, <2>4, <2>6 DEF CatalogInv, Deployed, GoesTo, Moved
  <2> QED BY <1>9, <2>5, <2>6 DEF SetsCurrent
<1>10. CASE Lists(t) \/ Creates(t) \/ Prepares(t) \/ Stores(t) \/ Fails(t)
  <2>1. /\ SameCatalog /\ req'[t].seen = req[t].seen /\ req'[t].version = req[t].version
        /\ req[t].pc \in AfterCatalog /\ req'[t].pc \in AfterCatalog
    BY <1>10 DEF Lists, Creates, Prepares, Stores, Fails, GoesTo, Moved, AfterCatalog, OpenRun, InTry
  <2> QED BY <1>3, <2>1
<1> QED BY <1>1, <1>5, <1>6, <1>7, <1>8, <1>9, <1>10 DEF Moves

(* The edits leave the catalog alone; a restart forgets what was seen. *)
LEMMA CatalogEdit ==
  ASSUME IInv, Types', Other
  PROVE  CatalogInv'
<1> USE DEF CatalogInv, Deployed, Current, HasVersion, AfterCatalog, OpenRun, InTry
<1>1. Types /\ CatalogInv
  BY DEF IInv
<1>2. CASE Restart
  <2>1. release' \in {release, release + 1} /\ UNCHANGED <<strategy, version>>
    BY <1>2 DEF Restart
  <2>2. \A u \in Threads : req'[u].pc = "idle" /\ req'[u].seen = 0
    BY <1>2 DEF Restart, Idle
  <2>3. \A v \in VersionIds : version[v] # None => version[v] \in Nat
    BY <1>1, Constants DEF Types
  <2>4. release \in Nat /\ release' \in Nat
    BY <1>1, Constants DEF Types
  <2> QED BY <1>1, <2>1, <2>2, <2>3, <2>4, Constants
<1>3. CASE UNCHANGED <<strategy, version, release, req>>
  BY <1>1, <1>3
<1> QED BY <1>2, <1>3, Other DEF Other, AddInstrument, RemoveInstrument, LoadForDelete,
                          DeleteWatchlist, SyncInstruments

-----------------------------------------------------------------------------
(* A step of a request keeps its run, or takes a new one, or is over; rows *)
(* that are not its own it leaves alone.                                   *)
Keeps(t)  == /\ req'[t].run = req[t].run /\ (req[t].pc \in OpenRun <=> req'[t].pc \in OpenRun)
             /\ told' = told
Begins(t) == Creates(t)
Stops(t)  == /\ req'[t].run = 0 /\ req'[t].pc \notin OpenRun
             /\ req[t].run # 0 => told'[req[t].run] \in {"ok", "error"}

(* What that means for the rows: no other run changes and none disappears. *)
LEMMA StepOfRequest ==
  ASSUME IInv, Types', NEW t \in Threads, Step(t)
  PROVE  /\ Keeps(t) \/ Begins(t) \/ Stops(t)
         /\ \A m \in RunIds \ {req[t].run} : \/ run'[m] = run[m] /\ told'[m] = told[m]
                                             \/ run[m] = None /\ m = req'[t].run
         /\ \A m \in Rows : run'[m] # None
         /\ faults \in Nat /\ faults' \in Nat /\ faults' >= faults
<1> DEFINE k == req[t].run
           Others == \A m \in RunIds \ {k} : \/ run'[m] = run[m] /\ told'[m] = told[m]
                                             \/ run[m] = None /\ m = req'[t].run
           Stay   == \A m \in Rows : run'[m] # None
           Faults == faults' = faults \/ faults' = faults + 1
<1>1. /\ Moves(t) /\ Types /\ faults \in Nat
      /\ k # 0 <=> req[t].pc \in OpenRun
  BY MovesOfStep, Constants DEF IInv, Types, OwnerInv
<1>2. CASE Enters(t)
  <2>1. Keeps(t) /\ run' = run /\ told' = told /\ Faults
    BY <1>1, <1>2 DEF Enters, Keeps, OpenRun, InTry, SameRuns
  <2> QED BY <1>1, <2>1 DEF Rows
<1>3. CASE LooksUp(t)
  <2>1. Keeps(t) /\ run' = run /\ told' = told /\ Faults
    BY <1>3 DEF LooksUp, GoesTo, Moved, Chose, Keeps, OpenRun, InTry, SameRuns
  <2> QED BY <1>1, <2>1 DEF Rows
<1>4. CASE AddsStrategy(t) \/ AddsVersion(t)
  <2>1. Keeps(t) /\ run' = run /\ told' = told /\ Faults
    BY <1>4 DEF AddsStrategy, AddsVersion, GoesTo, Moved, Added, Keeps, OpenRun, InTry, SameRuns
  <2> QED BY <1>1, <2>1 DEF Rows
<1>5. CASE SetsCurrent(t)
  <2>1. (Keeps(t) \/ Stops(t)) /\ run' = run /\ told' = told /\ Faults
    BY <1>1, <1>5 DEF SetsCurrent, GoesTo, Moved, Keeps, Stops, Idle, OpenRun, InTry, SameRuns
  <2> QED BY <1>1, <2>1 DEF Rows
<1>6. CASE Lists(t) \/ Prepares(t) \/ Fails(t)
  <2>1. Keeps(t) /\ run' = run /\ told' = told /\ Faults
    BY <1>6 DEF Lists, Prepares, Fails, GoesTo, Moved, Keeps, OpenRun, InTry, SameRuns
  <2> QED BY <1>1, <2>1 DEF Rows
<1>7. CASE Creates(t)
  <2>1. Others /\ Stay /\ Faults
    BY <1>7 DEF Creates, Rows
  <2> QED BY <1>1, <1>7, <2>1 DEF Begins
<1>8. CASE Stores(t)
  <2>1. PICK status, ledger, metrics, portfolio : Wrote(t, status, ledger, metrics, portfolio)
    BY <1>8 DEF Stores
  <2>2. /\ req'[t].run = k /\ told' = told /\ Faults
        /\ req[t].pc \in OpenRun /\ req'[t].pc \in OpenRun
    BY <1>8 DEF Stores, GoesTo, Moved, OpenRun, InTry
  <2>3. run'[k] # None /\ \A m \in RunIds \ {k} : run'[m] = run[m]
    BY <2>1 DEF Wrote
  <2> QED BY <1>1, <2>2, <2>3 DEF Keeps, Rows
<1>9. CASE Ends(t)
  <2>1. req'[t].run = 0 /\ req'[t].pc \notin OpenRun
    BY <1>9 DEF Ends, Idle, OpenRun, InTry
  <2>2. /\ k # 0 => told'[k] \in {"ok", "error"}
        /\ \A m \in RunIds \ {k} : told'[m] = told[m]
        /\ Faults
    BY <1>9 DEF Ends, Told
  <2>3. (\A m \in RunIds \ {k} : run'[m] = run[m]) /\ (run'[k] # None \/ run' = run)
    BY <1>9 DEF Ends, Wrote
  <2>4. Stay
    BY <2>3 DEF Rows
  <2> QED BY <1>1, <2>1, <2>2, <2>3, <2>4 DEF Stops
<1> QED BY <1>1, <1>2, <1>3, <1>4, <1>5, <1>6, <1>7, <1>8, <1>9 DEF Moves

(* Runs, their threads and what their clients know stay together. *)
LEMMA OwnerStep ==
  ASSUME IInv, Types', NEW t \in Threads, Step(t)
  PROVE  OwnerInv'
<1> DEFINE Own(u) == /\ req[u].run # 0 <=> req[u].pc \in OpenRun
                     /\ req[u].run # 0 => /\ run[req[u].run] # None
                                          /\ told[req[u].run] = "waiting"
           Known(k) == /\ told[k] = "waiting" => \E u \in Threads : req[u].run = k
                       /\ told[k] # None
<1>1. /\ OwnerInv /\ Types /\ 0 \notin RunIds
      /\ \A u \in Threads \ {t} : req'[u] = req[u]
      /\ \A u \in Threads : req[u].run \in RunIds \cup {0} /\ req'[u].run \in RunIds \cup {0}
  <2>1. \A u \in Threads : req[u] \in Requests /\ req'[u] \in Requests
    BY DEF IInv, Types
  <2>2. \A r \in Requests : r.run \in RunIds \cup {0}
    BY DEF Requests
  <2> QED BY <2>1, <2>2, MovesOfStep, Constants DEF IInv, Apart
<1>2. \A u \in Threads : Own(u)
  BY <1>1 DEF OwnerInv
<1>3. \A u, w \in Threads : req[u].run # 0 /\ req[u].run = req[w].run => u = w
  BY <1>1 DEF OwnerInv
<1>4. \A k \in Rows : Known(k)
  BY <1>1 DEF OwnerInv
<1>5. /\ \A k \in RunIds \ {req[t].run} : \/ run'[k] = run[k] /\ told'[k] = told[k]
                                          \/ run[k] = None /\ k = req'[t].run
      /\ \A k \in Rows : run'[k] # None
  BY StepOfRequest
<1>6. CASE Keeps(t)
  <2>1. \A u \in Threads : Own(u)'
    BY <1>1, <1>2, <1>5, <1>6 DEF Keeps, Rows
  <2>2. \A u, w \in Threads : req'[u].run # 0 /\ req'[u].run = req'[w].run => u = w
    BY <1>1, <1>3, <1>6 DEF Keeps
  <2>3. \A k \in Rows' : k \in Rows
    BY <1>1, <1>2, <1>5, <1>6 DEF Keeps, Rows
  <2>4. \A k \in Rows' : Known(k)'
    BY <1>1, <1>4, <1>6, <2>3 DEF Keeps
  <2> QED BY <2>1, <2>2, <2>4 DEF OwnerInv, Rows
<1>7. CASE Begins(t)
  <2>1. PICK m \in RunIds :
          /\ run[m] = None /\ run'[m] # None /\ told'[m] = "waiting"
          /\ \A other \in RunIds \ {m} : run'[other] = run[other] /\ told'[other] = told[other]
          /\ req'[t].pc = "mark" /\ req'[t].run = m
    BY <1>7 DEF Begins, Creates
  <2>2. \A u \in Threads : req[u].run # m
    BY <1>1, <1>2, <2>1
  <2>3. \A u \in Threads : Own(u)'
    BY <1>1, <1>2, <2>1, <2>2 DEF OpenRun
  <2>4. \A u, w \in Threads : req'[u].run # 0 /\ req'[u].run = req'[w].run => u = w
    BY <1>1, <1>3, <2>1, <2>2
  <2>5. ASSUME NEW k \in Rows' PROVE Known(k)'
    <3>1. CASE k = m
      BY <1>1, <2>1, <3>1, NoRowAssumption
    <3>2. CASE k # m
      <4>1. k \in Rows /\ told'[k] = told[k]
        BY <2>1, <3>2 DEF Rows
      <4>2. req[t].run = 0
        BY <1>2, <1>7 DEF Begins, Creates, OpenRun, InTry
      <4>3. \A u \in Threads : req[u].run = k => u # t /\ req'[u].run = k
        BY <1>1, <4>1, <4>2 DEF Rows
      <4> QED BY <1>4, <4>1, <4>3
    <3> QED BY <3>1, <3>2
  <2> QED BY <2>3, <2>4, <2>5 DEF OwnerInv, Rows
<1>8. CASE Stops(t)
  <2>1. /\ req'[t].run = 0 /\ req'[t].pc \notin OpenRun
        /\ req[t].run # 0 => told'[req[t].run] \in {"ok", "error"}
    BY <1>8 DEF Stops
  <2>2. \A k \in RunIds \ {req[t].run} : run'[k] = run[k] /\ told'[k] = told[k]
    BY <1>1, <1>5, <2>1
  <2>3. \A u \in Threads : Own(u)'
    BY <1>1, <1>2, <1>3, <2>1, <2>2
  <2>4. \A u, w \in Threads : req'[u].run # 0 /\ req'[u].run = req'[w].run => u = w
    BY <1>1, <1>3, <2>1
  <2>5. ASSUME NEW k \in Rows' PROVE Known(k)'
    <3>1. CASE k = req[t].run
      <4>1. told'[k] \in {"ok", "error"}
        BY <1>1, <2>1, <3>1 DEF Rows
      <4> QED BY <4>1, NoRowAssumption
    <3>2. CASE k # req[t].run
      <4>1. k \in Rows /\ told'[k] = told[k]
        BY <2>2, <3>2 DEF Rows
      <4>2. \A u \in Threads : req[u].run = k => req'[u].run = k
        BY <1>1, <3>2
      <4> QED BY <1>4, <4>1, <4>2
    <3> QED BY <3>1, <3>2
  <2> QED BY <2>3, <2>4, <2>5 DEF OwnerInv, Rows
<1> QED BY <1>6, <1>7, <1>8, StepOfRequest

(* An edit concerns no run; a restart ends every request and tells its client. *)
LEMMA OwnerEdit ==
  ASSUME IInv, Types', Other
  PROVE  OwnerInv'
<1> USE DEF Rows, OwnerInv
<1>1. OwnerInv /\ Types
  BY DEF IInv
<1>2. CASE Restart
  <2>1. /\ \A u \in Threads : req'[u].run = 0 /\ req'[u].pc = "idle"
        /\ run' = run
    BY <1>2 DEF Restart, Idle
  <2>2. \A k \in RunIds : told'[k] = IF told[k] = "waiting" THEN "error" ELSE told[k]
    BY <1>2 DEF Restart
  <2>3. \A k \in RunIds : told'[k] # "waiting"
    BY <2>2
  <2>4. \A k \in Rows : told'[k] # None
    BY <1>1, <2>2, NoRowAssumption
  <2> QED BY <2>1, <2>3, <2>4 DEF OpenRun, InTry
<1>3. CASE UNCHANGED <<run, req, told>>
  BY <1>1, <1>3
<1> QED BY <1>2, <1>3, Other DEF Other, AddInstrument, RemoveInstrument, LoadForDelete,
                          DeleteWatchlist, SyncInstruments

-----------------------------------------------------------------------------
(* The threads that do not step stay where they were with their rows. *)
LEMMA OtherStages ==
  ASSUME IInv, Types', NEW t \in Threads, Step(t), NEW u \in Threads \ {t}
  PROVE  OnStage(u)'
<1>1. OwnerInv /\ OnStage(u) /\ Types /\ req'[u] = req[u] /\ req[u] \in Requests
  BY MovesOfStep DEF IInv, Types, Apart, StageInv
<1>2. faults' >= faults /\ faults \in Nat /\ faults' \in Nat
  BY StepOfRequest
<1>3. req[u].pc \in OpenRun => /\ req[u].run \in RunIds \ {req[t].run}
                               /\ run[req[u].run] # None
  <2>1. req[u].run \in RunIds \cup {0}
    BY <1>1 DEF Requests
  <2>2. req[u].run # 0 => req[u].run # req[t].run
    BY <1>1 DEF OwnerInv
  <2> QED BY <1>1, <2>1, <2>2 DEF OwnerInv
<1>4. req[u].pc \in OpenRun => run'[req[u].run] = run[req[u].run]
  BY <1>3, StepOfRequest
<1> QED BY <1>1, <1>2, <1>4 DEF OnStage

(* A request moves through the stages of its run in order. *)
LEMMA OwnStage ==
  ASSUME IInv, Types', NEW t \in Threads, Step(t)
  PROVE  OnStage(t)'
<1> DEFINE r   == req[t]
           k   == req[t].run
           row == run[req[t].run]
<1>1. Moves(t) /\ OnStage(t)
  BY MovesOfStep DEF IInv, StageInv
<1>2. /\ r.pc \notin OpenRun => r.inputs = {}
      /\ r.pc = "create" => Functional(r.list)
      /\ r.poisoned => faults > 0
  BY <1>1 DEF OnStage, OutOfRun
<1>3. r.pc \in OpenRun => Stage(r, row)
  BY <1>1 DEF OnStage
<1>4. faults' >= faults /\ faults \in Nat /\ faults' \in Nat
  BY StepOfRequest
<1>5. CASE Enters(t) \/ LooksUp(t) \/ AddsStrategy(t) \/ AddsVersion(t) \/ SetsCurrent(t) \/ Ends(t)
  <2>1. CASE req'[t] = Idle
    BY <2>1 DEF OnStage, OutOfRun, Idle, OpenRun, InTry
  <2>2. CASE req'[t] # Idle
    <3>1. /\ req'[t].pc \in {"strategy", "addStrategy", "version", "addVersion", "reread", "current",
                          "list"}
          /\ req'[t].inputs = {} \/ req'[t].inputs = r.inputs
          /\ req'[t].poisoned = FALSE \/ req'[t].poisoned = r.poisoned
          /\ r.pc \notin OpenRun
      BY <1>5, <2>2 DEF Enters, LooksUp, AddsStrategy, AddsVersion, SetsCurrent, Ends, GoesTo, Moved,
                        Chose, Added, OpenRun, InTry
    <3> QED BY <1>2, <1>4, <3>1 DEF OnStage, OutOfRun, OpenRun, InTry
  <2> QED BY <2>1, <2>2
<1>6. CASE Lists(t)
  BY <1>2, <1>4, <1>6 DEF Lists, Moved, OnStage, OutOfRun, OpenRun, InTry
<1>7. CASE Creates(t)
  <2>1. PICK m \in RunIds :
          /\ run'[m].status = "pending" /\ run'[m].snapshot = r.list /\ run'[m].metrics = {}
          /\ req'[t].pc = "mark" /\ req'[t].run = m /\ req'[t].list = r.list
          /\ req'[t].inputs = r.inputs /\ req'[t].poisoned = r.poisoned
    BY <1>7 DEF Creates
  <2>2. r.pc = "create"
    BY <1>7 DEF Creates
  <2>3. Stage(req'[t], run'[m])
    BY <1>2, <2>1, <2>2 DEF Stage, OpenRun, InTry
  <2> QED BY <1>2, <1>4, <2>1, <2>3 DEF OnStage, OutOfRun, OpenRun
<1>8. CASE Prepares(t)
  <2>1. PICK p \in r.list, s \in Symbols : \E new \in {{}, {<<p[1], s>>}} :
               Moved(t, "prepare", r.list \ {p}, r.inputs \cup new)
    BY <1>8 DEF Prepares
  <2>2. PICK new \in {{}, {<<p[1], s>>}} : Moved(t, "prepare", r.list \ {p}, r.inputs \cup new)
    BY <2>1
  <2>3. /\ req'[t].pc = "prepare" /\ req'[t].list = r.list \ {p} /\ req'[t].inputs = r.inputs \cup new
        /\ req'[t].run = k /\ req'[t].poisoned = r.poisoned
    BY <2>2 DEF Moved
  <2>4. r.pc = "prepare" /\ run' = run
    BY <1>8 DEF Prepares, SameRuns
  <2>5. Preparing(r, row)
    BY <1>3, <2>4 DEF Stage, OpenRun, InTry
  <2>6. Functional(r.inputs \cup new)
    BY <2>5 DEF Preparing, Functional
  <2>7. Preparing(req'[t], row)
    BY <2>3, <2>5, <2>6 DEF Preparing, Functional
  <2>8. Stage(req'[t], row)
    BY <2>3, <2>7 DEF Stage
  <2> QED BY <1>2, <1>4, <2>3, <2>4, <2>8 DEF OnStage, OutOfRun, OpenRun, InTry
<1>9. CASE Stores(t)
  <2>1. /\ req'[t].run = k /\ req'[t].poisoned = r.poisoned /\ req'[t].pc \in OpenRun
        /\ r.pc \in OpenRun /\ req'[t].inputs = r.inputs /\ req'[t].pc # "create"
    BY <1>9 DEF Stores, GoesTo, Moved, OpenRun, InTry
  <2>2. SUFFICES Stage(req'[t], run'[k])
    BY <1>2, <1>4, <2>1 DEF OnStage, OutOfRun
  <2>3. run'[k].snapshot = row.snapshot
    BY <1>9 DEF Stores, Wrote
  <2>4. Stage(r, row)
    BY <1>3, <2>1
  <2>5. CASE r.pc = "mark"
    <3>1. /\ req'[t].pc = "prepare" /\ req'[t].list = r.list
          /\ run'[k].status = "running" /\ run'[k].metrics = row.metrics
      BY <1>9, <2>5 DEF Stores, GoesTo, Moved, Wrote
    <3>2. Preparing(req'[t], run'[k])
      BY <2>1, <2>3, <2>4, <2>5, <3>1 DEF Stage, Preparing, Functional, Of
    <3> QED BY <3>1, <3>2 DEF Stage
  <2>6. CASE r.pc = "prepare"
    <3>1. /\ req'[t].pc = "metrics" /\ req'[t].list = r.inputs
          /\ run'[k].status = row.status /\ run'[k].metrics = row.metrics
          /\ run'[k].ledger = r.inputs
      BY <1>9, <2>6 DEF Stores, GoesTo, Moved, Wrote
    <3>2. Preparing(r, row)
      BY <2>4, <2>6 DEF Stage
    <3>3. Replayed(req'[t], run'[k]) /\ Measured(req'[t], run'[k], {}) /\ run'[k].status = "running"
      BY <2>1, <2>3, <3>1, <3>2 DEF Preparing, Replayed, Measured
    <3>4. req'[t].inputs \ req'[t].list = {}
      BY <2>1, <3>1
    <3> QED BY <2>1, <3>1, <3>3, <3>4 DEF Stage
  <2>7. ASSUME r.pc = "metrics", NEW p \in r.list, Moved(t, "metrics", r.list \ {p}, r.inputs),
               Wrote(t, row.status, row.ledger, {q \in row.metrics : q[2] # p[2]} \cup {p},
                     row.portfolio)
        PROVE  Stage(req'[t], run'[k])
    <3>1. /\ req'[t].pc = "metrics" /\ req'[t].list = r.list \ {p}
          /\ run'[k].status = row.status /\ run'[k].ledger = row.ledger
          /\ run'[k].metrics = {q \in row.metrics : q[2] # p[2]} \cup {p}
      BY <2>7 DEF Moved, Wrote
    <3>2. /\ Replayed(r, row) /\ r.list \subseteq r.inputs /\ Measured(r, row, r.inputs \ r.list)
          /\ row.status = "running"
      BY <2>4, <2>7 DEF Stage
    <3>3. Replayed(req'[t], run'[k])
      BY <2>1, <2>3, <3>1, <3>2 DEF Replayed
    <3>4. \A q1, q2 \in run'[k].metrics : q1[2] = q2[2] => q1 = q2
      BY <3>1, <3>2 DEF Measured
    <3>5. ASSUME NEW o \in r.inputs \ (r.list \ {p}) PROVE OneRow(o, run'[k].metrics)
      <4>1. CASE o[2] = p[2]
        <5>1. p \in run'[k].metrics
          BY <3>1
        <5> QED BY <3>4, <4>1, <5>1 DEF OneRow
      <4>2. CASE o[2] # p[2]
        <5>1. OneRow(o, row.metrics)
          BY <3>2, <3>5, <4>2 DEF Measured
        <5>2. PICK q \in row.metrics : q[2] = o[2]
          BY <5>1 DEF OneRow
        <5>3. q \in run'[k].metrics
          BY <3>1, <4>2, <5>2
        <5> QED BY <3>4, <5>2, <5>3 DEF OneRow
      <4> QED BY <4>1, <4>2
    <3>6. Measured(req'[t], run'[k], req'[t].inputs \ req'[t].list)
      BY <2>1, <3>1, <3>4, <3>5 DEF Measured
    <3> QED BY <2>1, <3>1, <3>2, <3>3, <3>6 DEF Stage
  <2>8. CASE r.pc = "metrics" /\ req'[t].pc = "finish"
    <3>1. /\ r.list = {} /\ run'[k].status = row.status /\ run'[k].ledger = row.ledger
          /\ run'[k].metrics = row.metrics /\ run'[k].portfolio = Of(r.inputs)
      BY <1>9, <2>8 DEF Stores, GoesTo, Moved, Wrote
    <3>2. Replayed(r, row) /\ Measured(r, row, r.inputs \ r.list) /\ row.status = "running"
      BY <2>4, <2>8 DEF Stage
    <3>3. r.inputs \ r.list = r.inputs
      BY <3>1
    <3>4. Replayed(req'[t], run'[k]) /\ Measured(req'[t], run'[k], req'[t].inputs)
      BY <2>1, <2>3, <3>1, <3>2, <3>3 DEF Replayed, Measured
    <3> QED BY <2>1, <2>8, <3>1, <3>2, <3>4 DEF Stage
  <2>9. CASE r.pc = "finish"
    <3>1. /\ req'[t].pc = "answer" /\ run'[k].status = "success" /\ run'[k].ledger = row.ledger
          /\ run'[k].metrics = row.metrics /\ run'[k].portfolio = row.portfolio
      BY <1>9, <2>9 DEF Stores, GoesTo, Moved, Wrote
    <3>2. Replayed(r, row) /\ Measured(r, row, r.inputs) /\ row.portfolio = Of(r.inputs)
      BY <2>4, <2>9 DEF Stage
    <3>3. Replayed(req'[t], run'[k]) /\ Measured(req'[t], run'[k], req'[t].inputs)
      BY <2>1, <2>3, <3>1, <3>2 DEF Replayed, Measured
    <3> QED BY <2>1, <3>1, <3>2, <3>3 DEF Stage
  <2> QED BY <1>9, <2>5, <2>6, <2>7, <2>8, <2>9 DEF Stores, GoesTo, Moved
<1>10. CASE Fails(t)
  <2>1. req'[t].pc = "handler" /\ req'[t].run = k /\ run' = run /\ r.pc \in OpenRun
    BY <1>10 DEF Fails, GoesTo, Moved, SameRuns, OpenRun, InTry
  <2>2. Stage(r, row)
    BY <1>3, <2>1
  <2>3. CASE r.pc = "prepare" /\ GoesTo(t, "handler")
    <3>1. row.status = "running" /\ req'[t].poisoned = r.poisoned
      BY <2>2, <2>3 DEF Stage, Preparing, GoesTo, Moved
    <3> QED BY <1>2, <1>4, <2>1, <3>1 DEF OnStage, OutOfRun, Stage, OpenRun
  <2>4. CASE r.pc \in InTry /\ faults' = faults + 1
    <3>1. faults' > 0
      BY <1>4, <2>4
    <3>2. row.status \in {"running", "success"}
      <4>1. CASE r.pc = "prepare"
        BY <2>2, <4>1 DEF Stage, Preparing
      <4>2. CASE r.pc = "metrics"
        BY <2>2, <4>2 DEF Stage
      <4>3. CASE r.pc \in {"finish", "answer"}
        BY <2>2, <4>3 DEF Stage
      <4> QED BY <2>4, <4>1, <4>2, <4>3 DEF InTry
    <3> QED BY <2>1, <2>4, <3>1, <3>2 DEF OnStage, OutOfRun, Stage, OpenRun
  <2> QED BY <1>10, <2>3, <2>4 DEF Fails
<1> QED BY <1>1, <1>5, <1>6, <1>7, <1>8, <1>9, <1>10 DEF Moves

(* A step keeps every request on its stage.                                *)
LEMMA StageStep ==
  ASSUME IInv, Types', NEW t \in Threads, Step(t)
  PROVE  StageInv'
  BY OwnStage, OtherStages DEF StageInv

(* An edit touches no run and no request; after a restart there are none.  *)
LEMMA StageEdit ==
  ASSUME IInv, Types', Other
  PROVE  StageInv'
<1>1. StageInv /\ Types
  BY DEF IInv
<1>2. CASE Restart
  <2>1. \A u \in Threads : req'[u] = Idle
    BY <1>2 DEF Restart
  <2> QED BY <2>1 DEF StageInv, OnStage, OutOfRun, Idle, OpenRun, InTry
<1>3. CASE UNCHANGED <<run, req, faults>>
  BY <1>1, <1>3 DEF StageInv, OnStage
<1> QED BY <1>2, <1>3, Other DEF Other, AddInstrument, RemoveInstrument, LoadForDelete,
                          DeleteWatchlist, SyncInstruments, Edit, counts

-----------------------------------------------------------------------------
(* Deployed versions stay, and a run keeps the version it was created with.*)
LEMMA PinsStay ==
  ASSUME IInv, Types', NEW t \in Threads, Step(t)
  PROVE  /\ \A v \in VersionIds : version[v] # None => version'[v] = version[v]
         /\ Current => Current'
         /\ \A k \in Rows : run'[k].version = run[k].version /\ run'[k].code = run[k].code
<1>1. /\ Types /\ CatalogInv /\ Moves(t) /\ release' = release /\ release # None
      /\ None \notin VersionIds /\ 0 \notin VersionIds
  BY MovesOfStep, Constants DEF IInv, Types, Apart
<1>2. CASE Enters(t) \/ LooksUp(t) \/ Lists(t) \/ Prepares(t) \/ Fails(t)
  <2>1. UNCHANGED <<strategy, version, run>>
    BY <1>2 DEF Enters, LooksUp, Lists, Prepares, Fails, SameCatalog, SameRuns
  <2> QED BY <1>1, <2>1 DEF Current, Deployed
<1>3. CASE AddsStrategy(t)
  <2>1. UNCHANGED <<version, run>> /\ strategy = None
    BY <1>3 DEF AddsStrategy, SameRuns
  <2> QED BY <1>1, <2>1 DEF Current, Deployed
<1>4. CASE AddsVersion(t)
  <2>1. PICK v \in VersionIds : /\ version[v] = None
                                /\ \A w \in VersionIds \ {v} : version'[w] = version[w]
    BY <1>4 DEF AddsVersion
  <2>2. UNCHANGED <<strategy, run>>
    BY <1>4 DEF AddsVersion, SameRuns
  <2> QED BY <1>1, <2>1, <2>2 DEF Current, Deployed
<1>5. CASE SetsCurrent(t)
  <2>1. UNCHANGED <<version, run>> /\ Deployed(req[t].version)
    BY <1>1, <1>5 DEF SetsCurrent, SameRuns, CatalogInv, HasVersion
  <2>2. strategy' = req[t].version \/ strategy' = strategy
    BY <1>5 DEF SetsCurrent
  <2> QED BY <1>1, <2>1, <2>2 DEF Current, Deployed
<1>6. CASE Creates(t)
  <2>1. SameCatalog /\ \A k \in Rows : run'[k] = run[k]
    BY <1>6 DEF Creates, Rows
  <2> QED BY <1>1, <2>1 DEF Current, Deployed, SameCatalog
<1>7. CASE Stores(t) \/ Ends(t)
  <2>1. SameCatalog
    BY <1>7 DEF Stores, Ends
  <2>2. \A k \in RunIds : run'[k].version = run[k].version /\ run'[k].code = run[k].code
    BY <1>7 DEF Stores, Ends, Wrote
  <2> QED BY <1>1, <2>1, <2>2 DEF Current, Deployed, SameCatalog, Rows
<1> QED BY <1>1, <1>2, <1>3, <1>4, <1>5, <1>6, <1>7 DEF Moves

\* What RowsInv says of the results of a run and the answer to its client.
Agrees(k) ==
  /\ run[k].status = "success" => Covers(run[k])
  /\ run[k].status = "failed" => told[k] = "error"
  /\ told[k] = "ok" => run[k].status = "success"
  /\ told[k] = "error" /\ faults = 0 => run[k].status = "failed"

(* A step that ends a request leaves its row and its client agreeing. *)
LEMMA EndAgrees ==
  ASSUME IInv, Types', NEW t \in Threads, Step(t), Ends(t), NEW k \in RunIds, k = req[t].run
  PROVE  Agrees(k)'
<1>1. /\ k # 0 /\ k \in Rows /\ req[t].pc \in OpenRun /\ Stage(req[t], run[k]) /\ RowsInv
      /\ req[t].poisoned => faults > 0
      /\ faults \in Nat /\ faults' >= faults
  <2>1. k # 0
    BY Constants
  <2> QED BY <2>1, StepOfRequest DEF IInv, OwnerInv, StageInv, OnStage, Rows
<1>2. run[k].status = "success" => Covers(run[k])
  BY <1>1 DEF RowsInv
<1>3. told[k] = "waiting" /\ run[k].status # "failed"
  BY <1>1 DEF IInv, OwnerInv, RowsInv
<1>4. CASE req[t].pc = "answer" /\ Told(t, "ok") /\ run' = run
  <2>1. told'[k] = "ok" /\ run[k].status = "success"
    BY <1>1, <1>4 DEF Told, Stage
  <2> QED BY <1>2, <1>4, <2>1 DEF Agrees
<1>5. CASE Told(t, "error") /\ run' = run /\ faults' > 0
  <2>1. told'[k] = "error"
    BY <1>1, <1>5 DEF Told
  <2> QED BY <1>2, <1>3, <1>5, <2>1 DEF Agrees
<1>6. CASE Told(t, "error") /\ Wrote(t, "failed", run[k].ledger, run[k].metrics, run[k].portfolio)
  <2>1. told'[k] = "error" /\ run'[k].status = "failed"
    BY <1>1, <1>6 DEF Told, Wrote
  <2> QED BY <2>1 DEF Agrees
<1>7. req[t].pc \notin {"addStrategy", "create"}
  BY <1>1 DEF OpenRun, InTry
<1> QED BY <1>1, <1>4, <1>5, <1>6, <1>7, Ends(t) DEF Ends

(* A step that goes on with a run leaves it open or complete. *)
LEMMA KeepAgrees ==
  ASSUME IInv, Types', StageInv', OwnerInv', NEW t \in Threads, Step(t), Keeps(t),
         NEW k \in RunIds, k = req[t].run
  PROVE  Agrees(k)'
<1>1. k # 0
  BY Constants
<1>2. /\ req[t].pc \in OpenRun /\ req'[t].pc \in OpenRun /\ req'[t].run = k
      /\ Stage(req'[t], run'[k]) /\ told'[k] = "waiting"
  <2>1. req[t].pc \in OpenRun
    BY <1>1 DEF IInv, OwnerInv
  <2>2. req'[t].pc \in OpenRun /\ req'[t].run = k
    BY <2>1, Keeps(t) DEF Keeps
  <2> QED BY <1>1, <2>1, <2>2 DEF OwnerInv, StageInv, OnStage
<1>3. CASE req'[t].pc = "answer"
  <2>1. /\ run'[k].status = "success" /\ Replayed(req'[t], run'[k])
        /\ Measured(req'[t], run'[k], req'[t].inputs) /\ run'[k].portfolio = Of(req'[t].inputs)
    BY <1>2, <1>3 DEF Stage
  <2>2. Of(run'[k].ledger) \subseteq Of(run'[k].snapshot) /\ run'[k].ledger = req'[t].inputs
    BY <2>1 DEF Replayed, Of
  <2>3. Covers(run'[k])
    BY <2>1, <2>2 DEF Covers, Replayed, Measured
  <2> QED BY <1>2, <2>1, <2>3 DEF Agrees
<1>4. CASE req'[t].pc = "handler"
  <2>1. SameRuns
    <3>1. Moves(t)
      BY MovesOfStep
    <3>2. Fails(t)
      BY <1>2, <1>4, <3>1
         DEF Moves, Enters, LooksUp, AddsStrategy, AddsVersion, SetsCurrent, Lists, Creates, Prepares,
             Stores, Ends, GoesTo, Moved, Chose, Added, Idle
    <3> QED BY <3>2 DEF Fails
  <2>2. k \in Rows
    BY <1>1 DEF IInv, OwnerInv, Rows
  <2>3. run[k].status = "success" => Covers(run[k])
    BY <2>2 DEF IInv, RowsInv
  <2>4. run'[k].status # "failed"
    BY <1>2, <1>4 DEF Stage
  <2> QED BY <1>2, <2>1, <2>3, <2>4 DEF Agrees, SameRuns
<1>5. CASE req'[t].pc \in {"mark", "prepare", "metrics", "finish"}
  <2>1. run'[k].status \in {"pending", "running"}
    BY <1>2, <1>5 DEF Stage, Preparing
  <2> QED BY <1>2, <2>1 DEF Agrees
<1> QED BY <1>2, <1>3, <1>4, <1>5 DEF OpenRun, InTry

(* A run is created with the deployed version, and ends as its client is told. *)
LEMMA RowsStep ==
  ASSUME IInv, Types', StageInv', OwnerInv', NEW t \in Threads, Step(t)
  PROVE  RowsInv'
<1>1. /\ release' = release /\ watchlist' = watchlist
      /\ faults \in Nat /\ faults' \in Nat /\ faults' >= faults
  BY MovesOfStep, StepOfRequest DEF Apart
<1>2. /\ Types /\ Moves(t) /\ release \in Nat /\ None \notin Codes
  BY MovesOfStep, Constants DEF IInv, Types
<1>3. ASSUME NEW k \in Rows
      PROVE  /\ watchlist' # None
             /\ version'[run'[k].version] = run'[k].code /\ run'[k].code <= release'
             /\ run'[k].code = release' => Current'
  <2>1. run[k] \in RunRows
    BY <1>2 DEF Types, Rows
  <2>2. run[k].version \in VersionIds /\ run[k].code \in Codes
    BY <2>1 DEF RunRows
  <2>3. /\ watchlist # None /\ version[run[k].version] = run[k].code
        /\ run[k].code <= release /\ (run[k].code = release => Current)
    BY DEF IInv, RowsInv
  <2>4. version[run[k].version] # None
    BY <1>2, <2>2, <2>3
  <2> QED BY <1>1, <2>2, <2>3, <2>4, PinsStay
<1>4. ASSUME NEW k \in Rows PROVE Agrees(k)'
  <2>1. Agrees(k)
    BY DEF IInv, RowsInv, Agrees
  <2>2. CASE k # req[t].run
    <3>1. run'[k] = run[k] /\ told'[k] = told[k]
      BY <2>2, StepOfRequest DEF Rows
    <3>2. faults' = 0 => faults = 0
      BY <1>1
    <3> QED BY <2>1, <3>1, <3>2 DEF Agrees
  <2>3. CASE k = req[t].run
    <3>1. k # 0 /\ k \in RunIds
      BY Constants DEF Rows
    <3>2. req[t].pc \in OpenRun
      BY <2>3, <3>1 DEF IInv, OwnerInv
    <3>3. CASE Keeps(t)
      BY <2>3, <3>1, <3>3, KeepAgrees
    <3>4. CASE Ends(t)
      BY <2>3, <3>1, <3>4, EndAgrees
    <3>5. Keeps(t) \/ Ends(t)
      <4>1. ~Begins(t)
        BY <3>2 DEF Begins, Creates, OpenRun, InTry
      <4>2. CASE Stops(t)
        <5>1. req'[t].pc \notin OpenRun
          BY <4>2 DEF Stops
        <5> QED BY <1>2, <3>2, <5>1
                DEF Moves, Enters, LooksUp, AddsStrategy, AddsVersion, SetsCurrent, Lists, Creates,
                    Prepares, Stores, Fails, GoesTo, Moved, OpenRun, InTry
      <4> QED BY <4>1, <4>2, StepOfRequest
    <3> QED BY <3>3, <3>4, <3>5
  <2> QED BY <2>2, <2>3
<1>5. ASSUME NEW k \in RunIds, run[k] = None, run'[k] # None
      PROVE  /\ watchlist' # None
             /\ version'[run'[k].version] = run'[k].code /\ run'[k].code <= release'
             /\ run'[k].code = release' => Current'
             /\ Agrees(k)'
  <2>1. Creates(t)
    <3>1. \A m \in RunIds : run'[m] = run[m] \/ run[m] # None \/ Creates(t)
      <4>1. CASE Stores(t) \/ Ends(t)
        <5>1. \A m \in RunIds \ {req[t].run} : run'[m] = run[m]
          BY <4>1 DEF Stores, Ends, Wrote
        <5>2. req[t].run # 0 => run[req[t].run] # None
          BY DEF IInv, OwnerInv
        <5> QED BY <5>1, <5>2, Constants
      <4> QED BY <1>2, <4>1 DEF Moves, Enters, LooksUp, AddsStrategy, AddsVersion, SetsCurrent, Lists,
                                Prepares, Fails, SameRuns
    <3> QED BY <1>5, <3>1
  <2>2. PICK m \in RunIds :
          /\ run'[m].status = "pending" /\ run'[m].version = req[t].version
          /\ run'[m].code = release /\ told'[m] = "waiting"
          /\ \A other \in RunIds \ {m} : run'[other] = run[other]
    BY <2>1 DEF Creates
  <2>3. k = m
    BY <1>5, <2>2
  <2>4. watchlist # None /\ req[t].pc = "create" /\ UNCHANGED <<strategy, version>>
    BY <2>1 DEF Creates, SameCatalog
  <2>5. Deployed(req[t].version) /\ Current
    BY <2>4 DEF IInv, CatalogInv, HasVersion, AfterCatalog
  <2>6. Agrees(k)'
    BY <2>2, <2>3 DEF Agrees
  <2> QED BY <1>1, <1>2, <2>2, <2>3, <2>4, <2>5, <2>6 DEF Deployed, Current
<1> QED BY <1>3, <1>4, <1>5 DEF RowsInv, Rows, Agrees

(* While there is a run its watchlist stays; a restart only moves on to later *)
(* code, which no run was computed with.                                   *)
LEMMA RowsEdit ==
  ASSUME IInv, Types', Other
  PROVE  RowsInv'
<1>1. RowsInv /\ Types
  BY DEF IInv
<1>2. CASE Restart
  <2>1. /\ UNCHANGED <<watchlist, strategy, version, run>>
        /\ release' \in {release, release + 1} /\ faults' = faults + 1
        /\ \A k \in RunIds : told'[k] = IF told[k] = "waiting" THEN "error" ELSE told[k]
    BY <1>2 DEF Restart
  <2>2. release \in Nat /\ faults \in Nat
    BY <1>1, Constants DEF Types
  <2>3. release' = release => (Current => Current')
    BY <2>1 DEF Current, Deployed
  <2>4. ASSUME NEW k \in Rows
        PROVE  run[k].code <= release' /\ (run[k].code = release' => Current')
    <3>1. run[k].code \in Nat /\ run[k].code <= release /\ (run[k].code = release => Current)
      BY <1>1, Constants DEF Types, RowsInv, Rows, RunRows
    <3> QED BY <2>1, <2>2, <2>3, <3>1
  <2>5. ASSUME NEW k \in Rows PROVE Agrees(k)'
    <3>1. Agrees(k)
      BY <1>1 DEF RowsInv, Agrees
    <3> QED BY <2>1, <2>2, <3>1 DEF Agrees, Rows
  <2> QED BY <1>1, <2>1, <2>4, <2>5 DEF RowsInv, Rows, Agrees
<1>3. CASE /\ UNCHANGED <<strategy, version, run, release, told, faults>>
           /\ Rows # {} => watchlist' # None
  BY <1>1, <1>3 DEF Current, Deployed, RowsInv, Rows
<1>4. Rows # {} => watchlist # None /\ watchlist \in SUBSET Instruments
  BY <1>1 DEF Types, RowsInv
<1>5. ASSUME NEW i \in Instruments, AddInstrument(i) \/ RemoveInstrument(i) PROVE RowsInv'
  <2>1. UNCHANGED <<strategy, version, run, release, told, faults>>
    BY <1>5 DEF AddInstrument, RemoveInstrument, Edit
  <2>2. watchlist' \in SUBSET Instruments \/ watchlist' = watchlist
    BY <1>1, <1>5 DEF AddInstrument, RemoveInstrument, Types
  <2>3. watchlist' # None \/ Rows = {}
    BY <1>4, <2>2, NoRowAssumption
  <2> QED BY <1>3, <2>1, <2>3
<1>6. CASE DeleteWatchlist
  <2>1. /\ UNCHANGED <<strategy, version, run, release, told, faults>>
        /\ (\E k \in RunIds : run[k] # None) => watchlist' = watchlist
    BY <1>6 DEF DeleteWatchlist, counts
  <2> QED BY <1>3, <1>4, <2>1 DEF Rows
<1>7. CASE LoadForDelete \/ \E dump \in Dumps : SyncInstruments(dump)
  <2>1. UNCHANGED <<strategy, version, run, release, told, faults, watchlist>>
    BY <1>7 DEF LoadForDelete, SyncInstruments, Edit
  <2> QED BY <1>3, <1>4, <2>1
<1> QED BY <1>2, <1>5, <1>6, <1>7, Other DEF Other

-----------------------------------------------------------------------------
(* A copy is only added by a thread that saw none, in the place it held.   *)
LEMMA CopiesStep ==
  ASSUME IInv, Types', NEW t \in Threads, Step(t)
  PROVE  CopiesInv'
<1>1. /\ Types /\ CopiesInv /\ IsFiniteSet(Threads) /\ Moves(t)
      /\ release' = release /\ release \in Codes /\ None \notin Codes
      /\ \A u \in Threads \ {t} : req'[u] = req[u]
  BY MovesOfStep, BacktestAssumption, Constants DEF IInv, Types, Apart
<1>2. IsFiniteSet(Adders) /\ Adders \subseteq Threads
      /\ Cardinality(Adders) \in Nat /\ Cardinality(Adders) <= Cardinality(Threads)
      /\ Cardinality(Threads) \in Nat
  BY <1>1, FS_Subset, FS_CardinalityType DEF Adders
<1>3. CASE AddsVersion(t)
  <2>1. PICK v \in VersionIds : /\ version[v] = None /\ version'[v] = release
                                /\ \A w \in VersionIds \ {v} : version'[w] = version[w]
                                /\ Added(t, v)
    BY <1>3 DEF AddsVersion
  <2>2. t \in Adders /\ Adders' = Adders \ {t}
    BY <1>1, <1>3, <2>1 DEF AddsVersion, Added, Adders
  <2>3. Cardinality(Adders') = Cardinality(Adders) - 1
    BY <1>2, <2>2, FS_RemoveElement
  <2>4. v \notin Copies(release) /\ Copies(release)' = Copies(release) \cup {v}
    BY <1>1, <2>1 DEF Copies
  <2>5. IsFiniteSet(Copies(release)) /\ Cardinality(Copies(release)) \in Nat
    BY <1>1, FS_CardinalityType DEF CopiesInv
  <2>6. /\ IsFiniteSet(Copies(release)')
        /\ Cardinality(Copies(release)') = Cardinality(Copies(release)) + 1
    BY <2>4, <2>5, FS_AddElement
  <2>7. Cardinality(Copies(release)) + Cardinality(Adders) <= Cardinality(Threads)
    <3>1. CASE Copies(release) = {}
      BY <1>2, <3>1, FS_EmptySet
    <3>2. CASE Copies(release) # {}
      BY <1>1, <3>2 DEF CopiesInv
    <3> QED BY <3>1, <3>2
  <2>8. Cardinality(Copies(release)') + Cardinality(Adders') <= Cardinality(Threads)
    BY <1>2, <2>3, <2>5, <2>6, <2>7
  <2>9. Cardinality(Adders') \in Nat
    BY <1>2, <2>2, FS_RemoveElement, FS_CardinalityType
  <2>10. Cardinality(Copies(release)') <= Cardinality(Threads)
    BY <1>2, <2>5, <2>6, <2>8, <2>9
  <2>11. \A c \in Codes \ {release} : Copies(c)' = Copies(c)
    BY <1>1, <2>1 DEF Copies
  <2> QED BY <1>1, <2>6, <2>8, <2>10, <2>11 DEF CopiesInv
<1>4. CASE version' = version /\ (req'[t].pc = "addVersion" => Copies(release) = {})
  <2>1. \A c : Copies(c)' = Copies(c)
    BY <1>4 DEF Copies
  <2>2. Copies(release) # {} => Adders' \subseteq Adders
    BY <1>1, <1>4 DEF Adders
  <2>3. Copies(release) # {} => /\ Cardinality(Adders') <= Cardinality(Adders)
                                /\ Cardinality(Adders') \in Nat
    BY <1>2, <2>2, FS_Subset, FS_CardinalityType
  <2>4. Cardinality(Copies(release)) \in Nat
    BY <1>1, FS_CardinalityType DEF CopiesInv
  <2> QED BY <1>1, <1>2, <2>1, <2>3, <2>4 DEF CopiesInv
<1>5. CASE ~AddsVersion(t)
  <2>1. version' = version
    BY <1>1, <1>5 DEF Moves, Enters, LooksUp, AddsStrategy, SetsCurrent, Lists, Creates, Prepares,
                      Stores, Fails, Ends, SameCatalog
  <2>2. req'[t].pc = "addVersion" => \A v \in VersionIds : version[v] # release
    BY <1>1, <1>5 DEF Moves, Enters, LooksUp, AddsStrategy, SetsCurrent, Lists, Creates, Prepares,
                      Stores, Fails, Ends, GoesTo, Moved, Chose, Idle
  <2> QED BY <1>4, <2>1, <2>2 DEF Copies
<1> QED BY <1>3, <1>5

(* After an upgrade nobody is about to add a version.                      *)
LEMMA CopiesEdit ==
  ASSUME IInv, Types', Other
  PROVE  CopiesInv'
<1>1. CopiesInv /\ Types /\ CatalogInv
  BY DEF IInv
<1>2. CASE Restart
  <2>1. version' = version /\ Adders' = {} /\ release \in Codes /\ release' \in Codes
    BY <1>1, <1>2 DEF Restart, Adders, Idle, Types
  <2>2. \A c : Copies(c)' = Copies(c)
    BY <2>1 DEF Copies
  <2>3. \A c \in Codes : Cardinality(Copies(c)) \in Nat
    BY <1>1, FS_CardinalityType DEF CopiesInv
  <2>4. Cardinality(Adders') = 0 /\ Cardinality(Threads) \in Nat
    BY <2>1, FS_EmptySet, FS_CardinalityType, BacktestAssumption
  <2>5. \A c \in Codes : IsFiniteSet(Copies(c)') /\ Cardinality(Copies(c)') <= Cardinality(Threads)
    BY <1>1, <2>2 DEF CopiesInv
  <2>6. Cardinality(Copies(release)') + Cardinality(Adders') <= Cardinality(Threads)
    <3>1. {v \in VersionIds : version'[v] = release'} = {v \in VersionIds : version[v] = release'}
      BY <2>1
    <3>2. PICK c \in Codes : c = release'
      BY <2>1
    <3>3. Copies(release)' = Copies(c)
      BY <3>1, <3>2 DEF Copies
    <3>4. Cardinality(Copies(c)) \in Nat /\ Cardinality(Copies(c)) <= Cardinality(Threads)
      BY <1>1, <2>3 DEF CopiesInv
    <3> QED BY <2>4, <3>3, <3>4
  <2> QED BY <2>5, <2>6 DEF CopiesInv
<1>3. CASE UNCHANGED <<version, release, req>>
  <2>1. Adders' = Adders /\ Copies(release)' = Copies(release) /\ \A c : Copies(c)' = Copies(c)
    BY <1>3 DEF Adders, Copies
  <2> QED BY <1>1, <1>3, <2>1 DEF CopiesInv
<1> QED BY <1>2, <1>3, Other DEF Other, AddInstrument, RemoveInstrument, LoadForDelete,
                          DeleteWatchlist, SyncInstruments

-----------------------------------------------------------------------------
(* The conjunction is an invariant. *)
THEOREM Inductive == Spec => []IInv
<1>1. Init => IInv
  BY InitInv
<1>2. IInv /\ [Next]_vars => IInv'
  <2> SUFFICES ASSUME IInv, [Next]_vars PROVE IInv'
    OBVIOUS
  <2>1. ASSUME NEW t \in Threads, Step(t) PROVE IInv'
    <3>1. Types'
      BY <2>1, TypesStep
    <3>2. CatalogInv' /\ OwnerInv' /\ CopiesInv'
      BY <2>1, <3>1, CatalogStep, OwnerStep, CopiesStep
    <3>3. StageInv'
      BY <2>1, <3>1, StageStep
    <3>4. RowsInv'
      BY <2>1, <3>1, <3>2, <3>3, RowsStep
    <3> QED BY <3>1, <3>2, <3>3, <3>4 DEF IInv
  <2>2. CASE Other
    <3>1. Types'
      BY <2>2, TypesEdit
    <3> QED BY <2>2, <3>1, CatalogEdit, OwnerEdit, StageEdit, RowsEdit, CopiesEdit DEF IInv
  <2>3. CASE UNCHANGED vars
    <3>1. UNCHANGED <<symbol, watchlist, doomed, strategy, version, run, release, req, told, requests,
                      edits, faults>>
      BY <2>3 DEF vars, tables, counts
    <3>2. Types'
      BY <3>1 DEF IInv, Types
    <3>3. CatalogInv'
      BY <3>1 DEF IInv, CatalogInv, Deployed, Current
    <3>4. OwnerInv' /\ StageInv'
      BY <3>1 DEF IInv, OwnerInv, Rows, StageInv, OnStage
    <3>5. RowsInv'
      BY <3>1 DEF IInv, RowsInv, Rows, Deployed, Current
    <3>6. CopiesInv'
      BY <3>1 DEF IInv, CopiesInv, Copies, Adders
    <3> QED BY <3>2, <3>3, <3>4, <3>5, <3>6 DEF IInv
  <2> QED BY <2>1, <2>2, <2>3 DEF Next, Other
<1> QED BY <1>1, <1>2, PTL DEF Spec

(* Every row and every local variable holds a value of its type: the ids   *)
(* and counters stay in range whatever threads, edits and faults there are.*)
THEOREM TypeCorrect == Spec => []TypeOK
<1>1. IInv => TypeOK
  BY DEF IInv, Types, TypeOK, Requests, AfterCatalog, OpenRun
<1> QED BY <1>1, Inductive, PTL

(* A successful run covers what it says: for any watchlist edits, syncs and*)
(* faults, its ledger, its portfolio and its metrics name the same         *)
(* instruments of its snapshot, one metrics row for each symbol.           *)
THEOREM SuccessCovers == Spec => []SuccessCoversSnapshot
<1>1. ASSUME IInv PROVE SuccessCoversSnapshot
  <2> SUFFICES ASSUME NEW k \in Rows, run[k].status = "success"
               PROVE  LET r == run[k]
                          namesakes(p) == {q \in r.ledger : q[2] = p[2]}
                      IN  /\ Of(r.ledger) = r.portfolio /\ r.portfolio \subseteq Of(r.snapshot)
                          /\ r.metrics \subseteq r.ledger
                          /\ \A p \in r.ledger : /\ Cardinality(namesakes(p) \cap r.metrics) = 1
                                                 /\ \A q \in r.ledger : p[1] = q[1] => p = q
    BY DEF SuccessCoversSnapshot
  <2> DEFINE r == run[k]
             namesakes(p) == {q \in r.ledger : q[2] = p[2]}
  <2>1. Covers(r)
    BY <1>1 DEF IInv, RowsInv
  <2>2. ASSUME NEW p \in r.ledger PROVE Cardinality(namesakes(p) \cap r.metrics) = 1
    <3>1. OneRow(p, r.metrics) /\ r.metrics \subseteq r.ledger
      BY <2>1 DEF Covers
    <3>2. PICK q \in r.metrics : q[2] = p[2]
      BY <3>1 DEF OneRow
    <3>3. namesakes(p) \cap r.metrics = {q}
      BY <3>1, <3>2 DEF OneRow
    <3> QED BY <3>3, FS_Singleton
  <2>3. \A p \in r.ledger : \A q \in r.ledger : p[1] = q[1] => p = q
    BY <2>1 DEF Covers, Functional
  <2> QED BY <2>1, <2>2, <2>3 DEF Covers
<1> QED BY <1>1, Inductive, PTL

(* What a client is told is what the database says of its run; without     *)
(* faults also the other way round.                                        *)
THEOREM TruthTold == Spec => []RequestsTellTheTruth
<1>1. ASSUME IInv PROVE RequestsTellTheTruth
  <2> SUFFICES ASSUME NEW k \in Rows
               PROVE  /\ told[k] = "ok" => run[k].status = "success"
                      /\ run[k].status = "failed" => told[k] = "error"
                      /\ faults = 0 =>
                           /\ run[k].status \in {"pending", "running"} => told[k] = "waiting"
                           /\ told[k] = "error" => run[k].status = "failed"
                           /\ told[k] = "waiting" => \E t \in Threads : req[t].run = k
    BY DEF RequestsTellTheTruth
  <2>1. Agrees(k)
    BY <1>1 DEF IInv, RowsInv, Agrees
  <2>2. /\ told[k] = "waiting" => \E t \in Threads : req[t].run = k
        /\ told[k] # None
    BY <1>1 DEF IInv, OwnerInv
  <2>3. told[k] \in {None, "waiting", "ok", "error"}
    BY <1>1 DEF IInv, Types, Rows
  <2> QED BY <2>1, <2>2, <2>3 DEF Agrees
<1> QED BY <1>1, Inductive, PTL

(* A run refers to rows that exist for good and to the version of the code *)
(* that computed it, in spite of upgrades, twin versions and deletes.      *)
THEOREM VersionsPinned == Spec => []RunsPinTheirVersion
<1>1. IInv => RunsPinTheirVersion
  BY DEF IInv, RowsInv, RunsPinTheirVersion, Current, Deployed
<1> QED BY <1>1, Inductive, PTL

(* A version string is stored at most once per thread of the server, for   *)
(* any number of requests, releases and restarts.                          *)
THEOREM FewTwins == Spec => []TwinsOnlyFromOverlap
<1>1. IInv => TwinsOnlyFromOverlap
  BY DEF IInv, CopiesInv, Copies, TwinsOnlyFromOverlap
<1> QED BY <1>1, Inductive, PTL
=============================================================================
