--------------------------- MODULE OptimizationJob ---------------------------
(***************************************************************************)
(* One grid-search optimization job: the rows it owns in the database, the *)
(* background runner that fills them (OptimizationService.run_job) and the *)
(* requests that create the job and save presets from its candidates.      *)
(*                                                                         *)
(* One action per repository call of run_job, because every repository     *)
(* method ends in session.commit(): what is between two commits is private *)
(* to the runner, what a commit wrote is visible to every reader and       *)
(* survives a crash.  Combinations are numbered in grid order.             *)
(***************************************************************************)
EXTENDS Integers, FiniteSets

CONSTANTS Total,         \* combinations in the grid accepted by create_job
          NumSymbols,    \* instruments of the prepared input that have candles
          ProgressEvery, \* progress is written every so many candidates (5)
          TopN,          \* candidates copied to the result summary (10)
          Objectives,    \* values the objective metric can take
          None,          \* a row or a value that does not exist
          AppFaults,     \* may strategy, parameter or market data code raise?
          DbFaults,      \* may a database statement or connection fail?
          Crashes        \* may the server process die?

ASSUME JobAssumption ==
  /\ Total \in Nat \ {0} /\ NumSymbols \in Nat
  /\ ProgressEvery \in Nat \ {0} /\ TopN \in Nat \ {0}
  /\ Objectives \subseteq Int /\ Objectives # {} /\ None \notin Int
  /\ {AppFaults, DbFaults, Crashes} \subseteq BOOLEAN

VARIABLES job,        \* the optimization_jobs row
          run,        \* the backtest_runs row (with trades, metrics) per combination
          cand,       \* the optimization_candidate_results row per rank
          presets,    \* combinations whose parameters were saved as a preset
          pc,         \* the next commit of the background runner
          completed,  \* run_job's local counter of finished combinations
          objective,  \* candidate_summaries: the objective kept in memory
          ranked,     \* the sorted candidate_summaries
          listed,     \* candidates added so far
          poisoned    \* the runner's session needs a rollback nobody issues

rows   == <<job, run, cand>>
memory == <<completed, objective, ranked, listed>>
vars   == <<rows, presets, pc, memory, poisoned>>

Combos == 1 .. Total
Top    == 1 .. (IF TopN < Total THEN TopN ELSE Total)
cur    == completed + 1

NoRun   == [status |-> "absent", ledger |-> FALSE, symbols |-> 0, portfolio |-> None]
RunRows == [status : {"absent", "pending", "running", "success"}, ledger : BOOLEAN,
            symbols : 0 .. NumSymbols, portfolio : Objectives \cup {None}]
CandRows == [combo : Combos, objective : Objectives]

\* None is not a row: TLC's model value is not, and a proof has to be told.
ASSUME NoneAssumption == None \notin CandRows \cup [Top -> Combos]

\* Where the runner can be: the phase of run_job whose commit comes next.
InTry == {"setup", "validate", "mark", "replay", "metrics", "finish", "progress",
          "rank", "insert", "summary", "close"}
Phases == InTry \cup {"none", "queued", "handler", "ended", "killed"}

(***************************************************************************)
(* sorted(candidate_summaries, key=objective, reverse=...) : Python's sort *)
(* is stable in both directions, so equal objectives keep the grid order.  *)
(***************************************************************************)
\* MUTANT: the sort direction is ignored.
BeforeMutDirection(o, c, d) == o[c] > o[d] \/ (o[c] = o[d] /\ c < d)

Before(o, c, d) ==
  \/ IF job.descending THEN o[c] > o[d] ELSE o[c] < o[d]
  \/ o[c] = o[d] /\ c < d

Rankings(o) ==
  {r \in [Combos -> Combos] : /\ \A i, j \in Combos : i < j => Before(o, r[i], r[j])
                              /\ \A c \in Combos : \E i \in Combos : r[i] = c}

Init ==
  /\ job = [status |-> "absent", descending |-> FALSE, completed |-> 0, summary |-> None]
  /\ run = [c \in Combos |-> NoRun]
  /\ cand = [k \in Combos |-> None]
  /\ presets = {}
  /\ pc = "none"
  /\ completed = 0 /\ listed = 0
  /\ objective = [c \in Combos |-> None]
  /\ ranked = None
  /\ poisoned = FALSE

-----------------------------------------------------------------------------
(* POST /optimizations : create_job, then background.add_task. *)
CreateJob(desc) ==
  /\ pc = "none"
  /\ job' = [job EXCEPT !.status = "pending", !.descending = desc]
  /\ pc' = "queued"
  /\ UNCHANGED <<run, cand, presets, memory, poisoned>>

(* run_job up to its try block. *)
StartJob ==
  /\ pc = "queued"
  /\ job' = [job EXCEPT !.status = "running"]
  /\ pc' = "setup"
  /\ UNCHANGED <<run, cand, presets, memory, poisoned>>

(* Rebuild the grid, read the watchlist, prepare the candles. *)
PrepareInput ==
  /\ pc = "setup"
  /\ pc' = "validate"
  /\ UNCHANGED <<rows, presets, memory, poisoned>>

(* Validate the parameters of the next combination and create its run. *)
\* MUTANT: every combination reuses the run row of the first one.
CreateRunMutReuse ==
  /\ pc = "validate"
  /\ run' = [run EXCEPT ![1].status = "pending"]
  /\ pc' = "mark"
  /\ UNCHANGED <<job, cand, presets, memory, poisoned>>

CreateRun ==
  /\ pc = "validate"
  /\ run' = [run EXCEPT ![cur].status = "pending"]
  /\ pc' = "mark"
  /\ UNCHANGED <<job, cand, presets, memory, poisoned>>

MarkRunRunning ==
  /\ pc = "mark"
  /\ run' = [run EXCEPT ![cur].status = "running"]
  /\ pc' = "replay"
  /\ UNCHANGED <<job, cand, presets, memory, poisoned>>

(* Evaluate and replay every symbol, then add_trades: from here on the     *)
(* ledger of the run is complete (without a commit when it has no trade).  *)
StoreTrades ==
  /\ pc = "replay"
  /\ run' = [run EXCEPT ![cur].ledger = TRUE]
  /\ pc' = "metrics"
  /\ UNCHANGED <<job, cand, presets, memory, poisoned>>

StoreSymbolMetrics ==
  /\ pc = "metrics"
  /\ run[cur].symbols < NumSymbols
  /\ run' = [run EXCEPT ![cur].symbols = @ + 1]
  /\ UNCHANGED <<job, cand, presets, pc, memory, poisoned>>

StorePortfolioMetrics(v) ==
  /\ pc = "metrics"
  /\ run[cur].symbols = NumSymbols
  /\ run' = [run EXCEPT ![cur].portfolio = v]
  /\ pc' = "finish"
  /\ UNCHANGED <<job, cand, presets, memory, poisoned>>

\* MUTANT: progress is only written at the end.
ProgressDueMutLast(n) == n = Total

ProgressDue(n) == n % ProgressEvery = 0 \/ n = Total

(* set_status(SUCCESS), then the summary of the candidate is kept in memory *)
(* from the portfolio result just stored.                                   *)
\* MUTANT: the run is left running.
MarkRunSuccessMutNoStatus ==
  /\ pc = "finish"
  /\ objective' = [objective EXCEPT ![cur] = run[cur].portfolio]
  /\ completed' = cur
  /\ pc' = IF ProgressDue(cur) THEN "progress" ELSE "validate"
  /\ UNCHANGED <<rows, presets, ranked, listed, poisoned>>

MarkRunSuccess ==
  /\ pc = "finish"
  /\ run' = [run EXCEPT ![cur].status = "success"]
  /\ objective' = [objective EXCEPT ![cur] = run[cur].portfolio]
  /\ completed' = cur
  /\ pc' = IF ProgressDue(cur) THEN "progress" ELSE "validate"
  /\ UNCHANGED <<job, cand, presets, ranked, listed, poisoned>>

\* MUTANT: the counter includes the candidate about to start.
SetProgressMutAhead ==
  /\ pc = "progress"
  /\ job' = [job EXCEPT !.completed = completed + 1]
  /\ pc' = IF completed = Total THEN "rank" ELSE "validate"
  /\ UNCHANGED <<run, cand, presets, memory, poisoned>>

\* MUTANT: the job is closed with the last progress update, before ranking.
SetProgressMutCloses ==
  /\ pc = "progress"
  /\ job' = [job EXCEPT !.completed = completed,
                        !.status = IF completed = Total THEN "success" ELSE @]
  /\ pc' = IF completed = Total THEN "rank" ELSE "validate"
  /\ UNCHANGED <<run, cand, presets, memory, poisoned>>

SetProgress ==
  /\ pc = "progress"
  /\ job' = [job EXCEPT !.completed = completed]
  /\ pc' = IF completed = Total THEN "rank" ELSE "validate"
  /\ UNCHANGED <<run, cand, presets, memory, poisoned>>

Rank ==
  /\ pc = "rank"
  /\ ranked' \in Rankings(objective)
  /\ pc' = "insert"
  /\ UNCHANGED <<rows, presets, completed, objective, listed, poisoned>>

\* MUTANT: enumerate() over all but the last candidate.
AddCandidateMutOffByOne ==
  /\ pc = "insert"
  /\ LET k == listed + 1
         c == ranked[k]
     IN  /\ cand' = [cand EXCEPT ![k] = [combo |-> c, objective |-> objective[c]]]
         /\ listed' = k
         /\ pc' = IF k >= Total - 1 THEN "summary" ELSE "insert"
  /\ UNCHANGED <<job, run, presets, completed, objective, ranked, poisoned>>

\* MUTANT: candidate_summaries is enumerated instead of ranked.
AddCandidateMutUnsorted ==
  /\ pc = "insert"
  /\ LET k == listed + 1
     IN  /\ cand' = [cand EXCEPT ![k] = [combo |-> k, objective |-> objective[k]]]
         /\ listed' = k
         /\ pc' = IF k = Total THEN "summary" ELSE "insert"
  /\ UNCHANGED <<job, run, presets, completed, objective, ranked, poisoned>>

AddCandidate ==
  /\ pc = "insert"
  /\ LET k == listed + 1
         c == ranked[k]
     IN  /\ cand' = [cand EXCEPT ![k] = [combo |-> c, objective |-> objective[c]]]
         /\ listed' = k
         /\ pc' = IF k = Total THEN "summary" ELSE "insert"
  /\ UNCHANGED <<job, run, presets, completed, objective, ranked, poisoned>>

SetResultSummary ==
  /\ pc = "summary"
  /\ job' = [job EXCEPT !.summary = [k \in Top |-> ranked[k]]]
  /\ pc' = "close"
  /\ UNCHANGED <<run, cand, presets, memory, poisoned>>

CloseJob ==
  /\ pc = "close"
  /\ job' = [job EXCEPT !.status = "success"]
  /\ pc' = "ended"
  /\ UNCHANGED <<run, cand, presets, memory, poisoned>>

-----------------------------------------------------------------------------
(* Code that runs between two commits raises; the session stays usable.    *)
(* At "progress" it is the conversion of the objective, after the run of   *)
(* the combination was closed.                                             *)
RaiseAppError ==
  /\ AppFaults
  /\ pc \in {"setup", "validate", "replay", "progress"}
  /\ pc' = "handler"
  /\ UNCHANGED <<rows, presets, memory, poisoned>>

(* A statement, a flush or a commit fails in a transaction that is open.   *)
(* SQLAlchemy then refuses further work on the session until rollback(),   *)
(* which no code path of the runner calls.  Before the try block and       *)
(* inside the handler nothing catches the error.                           *)
RaiseDbError ==
  /\ DbFaults
  /\ pc \in InTry \cup {"queued", "handler"}
  /\ pc' = IF pc \in InTry THEN "handler" ELSE "ended"
  /\ poisoned' = TRUE
  /\ UNCHANGED <<rows, presets, memory>>

(* A commit gives the connection back and expires the rows, so the next    *)
(* read needs a connection: session.get, refresh, an attribute of the job. *)
(* When the pool has none (its timeout, a reconnect that fails) the read   *)
(* raises with no transaction open, and the session stays usable.  Only    *)
(* the first candidate is inserted on the connection of an earlier read.   *)
RaiseConnectionError ==
  /\ DbFaults /\ ~poisoned
  /\ pc \in InTry \cup {"queued", "handler"}
  /\ pc = "insert" => listed > 0
  /\ pc' = IF pc \in InTry THEN "handler" ELSE "ended"
  /\ UNCHANGED <<rows, presets, memory, poisoned>>

(* except Exception: set_status(FAILED); raise *)
\* MUTANT: the handler forgets the status.
MarkJobFailedMutNoStatus ==
  /\ pc = "handler" /\ ~poisoned
  /\ pc' = "ended"
  /\ UNCHANGED <<rows, presets, memory, poisoned>>

MarkJobFailed ==
  /\ pc = "handler" /\ ~poisoned
  /\ job' = [job EXCEPT !.status = "failed"]
  /\ pc' = "ended"
  /\ UNCHANGED <<run, cand, presets, memory, poisoned>>

(* The handler's own set_status raises PendingRollbackError. *)
HandlerRaises ==
  /\ pc = "handler" /\ poisoned
  /\ pc' = "ended"
  /\ UNCHANGED <<rows, presets, memory, poisoned>>

(* The process dies; no start-up code looks for unfinished jobs. *)
Crash ==
  /\ Crashes
  /\ pc \in InTry \cup {"queued", "handler"}
  /\ pc' = "killed"
  /\ UNCHANGED <<rows, presets, memory, poisoned>>

(* POST /optimizations/{id}/save-preset, in a session of its own. *)
SavePreset(k) ==
  /\ cand[k] # None
  /\ presets' = presets \cup {cand[k].combo}
  /\ UNCHANGED <<rows, pc, memory, poisoned>>

Runner ==
  \/ StartJob \/ PrepareInput \/ CreateRun \/ MarkRunRunning \/ StoreTrades
  \/ StoreSymbolMetrics \/ (\E v \in Objectives : StorePortfolioMetrics(v))
  \/ MarkRunSuccess \/ SetProgress \/ Rank \/ AddCandidate
  \/ SetResultSummary \/ CloseJob \/ MarkJobFailed \/ HandlerRaises

Next ==
  \/ \E desc \in BOOLEAN : CreateJob(desc)
  \/ Runner
  \/ RaiseAppError \/ RaiseDbError \/ RaiseConnectionError \/ Crash
  \/ \E k \in Combos : SavePreset(k)

Spec == Init /\ [][Next]_vars

\* The background thread is scheduled and its calls return.
FairSpec == Spec /\ WF_vars(Runner)

-----------------------------------------------------------------------------
(* Every row and every local variable holds a value of its type. *)
TypeOK ==
  /\ job \in [status : {"absent", "pending", "running", "success", "failed"},
              descending : BOOLEAN, completed : 0 .. Total,
              summary : [Top -> Combos] \cup {None}]
  /\ run \in [Combos -> RunRows]
  /\ cand \in [Combos -> CandRows \cup {None}]
  /\ presets \subseteq Combos
  /\ pc \in Phases
  /\ completed \in 0 .. Total /\ listed \in 0 .. Total
  /\ objective \in [Combos -> Objectives \cup {None}]
  /\ ranked \in [Combos -> Combos] \cup {None}
  /\ poisoned \in BOOLEAN

Successes == {c \in Combos : run[c].status = "success"}
Listed    == {k \in Combos : cand[k] # None}

(* A job that reads "success" is complete: its counter, its candidates and *)
(* its summary cover the whole grid, one candidate per combination, each   *)
(* linked to a finished run (ledger, metrics of every symbol) with the     *)
(* objective value that run stored, and the summary repeats the first rows *)
(* of the candidate table.                                                 *)
SuccessIsComplete ==
  job.status = "success" =>
    /\ job.completed = Total
    /\ Listed = Combos
    /\ \A c \in Combos : \E k \in Combos : cand[k].combo = c
    /\ \A k \in Combos :
         LET r == run[cand[k].combo]
         IN  /\ r.status = "success" /\ r.ledger /\ r.symbols = NumSymbols
             /\ r.portfolio = cand[k].objective
    /\ job.summary # None /\ \A k \in Top : job.summary[k] = cand[k].combo

(* Readers list candidates while they are still being inserted.  Whatever  *)
(* is visible is a prefix of the final ranking: the ranks are 1..k, they   *)
(* are in order (ties in grid order), and no combination that is not       *)
(* listed yet would beat one that is.                                      *)
VisibleRankingIsFinal ==
  \A k \in Listed :
    LET best(d) == IF job.descending THEN run[d].portfolio <= cand[k].objective
                                     ELSE run[d].portfolio >= cand[k].objective
    IN  /\ \A i \in 1 .. k : i \in Listed
        /\ \A d \in Combos \ {cand[i].combo : i \in 1 .. k} :
             best(d) /\ (run[d].portfolio = cand[k].objective => cand[k].combo < d)

(* The progress counter never overstates what is stored, and lags it by at *)
(* most ProgressEvery runs.                                                *)
ProgressIsHonest ==
  /\ job.completed <= Cardinality(Successes)
  /\ Cardinality(Successes) <= job.completed + ProgressEvery

(* At most one run of the job is unfinished at a time, and none once it is *)
(* successful: combinations are replayed one after the other, in order.    *)
OneRunAtATime ==
  \A c, d \in Combos :
    c < d /\ run[d].status # "absent" => run[c].status = "success"

(* A job can fail, or its process die, after its first candidates were     *)
(* stored.  Whatever its status then is, what readers find is a ranking of *)
(* the whole grid: the first candidate waits for the last run and for the  *)
(* counter, each shows the value its run stored, and a summary comes after *)
(* the last candidate and repeats the first ones.                          *)
RankingCoversAllRuns ==
  /\ Listed # {} => /\ Successes = Combos /\ job.completed = Total
                    /\ \A k \in Listed : cand[k].objective = run[cand[k].combo].portfolio
  /\ job.summary # None => /\ Listed = Combos
                           /\ \A k \in Top : job.summary[k] = cand[k].combo

(* A terminal job status is final, and so is everything the job owns: the  *)
(* frontend stops polling then.                                            *)
TerminalIsFinal == [][job.status \in {"success", "failed"} => UNCHANGED rows]_vars

(* A finished run is never touched again, nor is a published candidate.    *)
PublishedRowsAreFrozen ==
  [][/\ \A c \in Successes : run'[c] = run[c]
     /\ \A k \in Listed : cand'[k] = cand[k]]_vars

(* Without crashes and database failures every accepted job is closed.     *)
JobTerminates == pc = "queued" ~> job.status \in {"success", "failed"}

(* FINDING: a job that reads "running" is being run or being closed, so a  *)
(* client that polls it will see it end.  After a database failure the     *)
(* handler that should mark it failed raises itself.                       *)
RunningJobIsRun == job.status = "running" => pc \in InTry \cup {"handler"}
=============================================================================
