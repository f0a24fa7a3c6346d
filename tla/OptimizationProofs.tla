------------------------- MODULE OptimizationProofs -------------------------
(***************************************************************************)
(* The safety properties of OptimizationJob, for every grid size, number   *)
(* of symbols, progress interval and set of objective values, and of the   *)
(* page that follows a job, for any number of overlapping loads and any    *)
(* number of failed requests.  The first follow from one inductive         *)
(* invariant, IInv, which ties what the database shows to where the runner *)
(* is: SuccessIsComplete alone is not inductive, since the step that       *)
(* closes the job reads nothing it could check.  Nor is the property of    *)
(* the page: what a load will show is in its answers, so PageInv says that *)
(* they are honest from the moment the server gives them.                  *)
(***************************************************************************)
EXTENDS OptimizationJobRefinement, OptimizationPage, FiniteSetTheorems, TLAPS

Finished(c) ==
  /\ run[c].status = "success" /\ run[c].ledger /\ run[c].symbols = NumSymbols
  /\ run[c].portfolio \in Objectives /\ objective[c] = run[c].portfolio

\* Finished runs are exactly the first "completed" combinations.
RunsInv ==
  /\ \A c \in Combos : c <= completed => Finished(c)
  /\ \A c \in Combos : c > completed => run[c].status # "success"
  /\ \A c \in Combos : c > completed + 1 => run[c].status = "absent"
  /\ pc \in {"setup", "validate", "mark", "replay", "metrics", "finish"} => completed < Total
  /\ pc \in {"metrics", "finish"} => run[cur].ledger
  /\ pc = "finish" => run[cur].symbols = NumSymbols /\ run[cur].portfolio \in Objectives
  /\ pc \in {"none", "queued", "setup"} => completed = 0

\* The stored counter is the last multiple of ProgressEvery, or Total.
ProgressInv ==
  /\ job.completed <= completed /\ completed <= job.completed + ProgressEvery
  /\ job.completed % ProgressEvery = 0 \/ job.completed = Total
  /\ pc = "progress" => ProgressDue(completed)
  /\ pc \in InTry \ {"progress"} => completed < job.completed + ProgressEvery
  /\ pc \in {"rank", "insert", "summary", "close"} => completed = Total /\ job.completed = Total

IsRanking ==
  /\ ranked \in [Combos -> Combos]
  /\ \A i, j \in Combos : i < j => Before(objective, ranked[i], ranked[j])
  /\ \A c \in Combos : \E i \in Combos : ranked[i] = c

\* The candidate table is the first "listed" places of the final ranking.
CandInv ==
  /\ pc \in {"insert", "summary", "close"} => IsRanking
  /\ listed > 0 => IsRanking /\ completed = Total /\ job.completed = Total
  /\ \A k \in Combos : k <= listed =>
       cand[k] = [combo |-> ranked[k], objective |-> objective[ranked[k]]]
  /\ \A k \in Combos : k > listed => cand[k] = None
  /\ pc \in InTry \ {"insert", "summary", "close"} => listed = 0
  /\ pc \in {"none", "queued"} => listed = 0
  /\ pc = "insert" => listed < Total
  /\ pc \in {"summary", "close"} => listed = Total
  /\ job.summary # None => listed = Total /\ \A k \in Top : job.summary[k] = ranked[k]
  /\ pc \in InTry \ {"close"} => job.summary = None
  /\ pc \in {"none", "queued"} => job.summary = None
  /\ pc = "close" => job.summary # None

\* The status follows the runner, which is closed only when all is stored.
\* A job may fail at any time, with part of its ranking or all of it stored.
StatusInv ==
  /\ pc = "none" <=> job.status = "absent"
  /\ pc = "queued" => job.status = "pending"
  /\ pc \in InTry \cup {"handler"} => job.status = "running"
  /\ job.status \in {"success", "failed"} => pc = "ended"
  /\ job.status = "success" => listed = Total /\ job.summary # None /\ job.completed = Total
  /\ pc \in InTry \cup {"none", "queued"} => ~poisoned

IInv == TypeOK /\ RunsInv /\ ProgressInv /\ CandInv /\ StatusInv


-----------------------------------------------------------------------------

(* If another progress interval has passed, the counter is due again. *)
LEMMA NextMultiple ==
  ASSUME NEW a \in Nat, NEW n \in Nat \ {0}, a % n = 0
  PROVE  (a + n) % n = 0
<1> DEFINE q == a \div n
           d == (a + n) \div n
           r == (a + n) % n
           e == q + 1 - d
<1>1. q \in Int /\ a = n * q
  BY SMTT(30)
<1>2. d \in Int /\ r \in 0 .. (n - 1) /\ a + n = n * d + r
  <2>1. a + n \in Nat
    OBVIOUS
  <2>2. QED
    BY <2>1, SMTT(30)
<1> HIDE DEF q, d, r
<1>3. e \in Int /\ n * e = r
  <2>1. n * e = n * q + n - n * d
    BY <1>1, <1>2
  <2>2. QED
    BY <2>1, <1>1, <1>2
<1> HIDE DEF e
<1>4. ASSUME NEW x \in Int, x > 0 PROVE n * x >= n
  <2>1. n * (x - 1) >= 0
    BY <1>4
  <2>2. n * (x - 1) = n * x - n
    BY <1>4
  <2>3. QED
    BY <2>1, <2>2
<1>5. CASE e > 0
  BY <1>2, <1>3, <1>4, <1>5
<1>6. CASE e < 0
  <2>1. n * (-e) >= n
    BY <1>3, <1>4, <1>6
  <2>2. n * (-e) = -(n * e)
    BY <1>3
  <2>3. QED
    BY <2>1, <2>2, <1>2, <1>3
<1>7. CASE e = 0
  <2>1. r = 0
    BY <1>3, <1>7
  <2>2. QED
    BY <2>1 DEF r
<1>8. QED
  BY <1>3, <1>5, <1>6, <1>7

(* Zero is a multiple of every interval. *)
LEMMA ZeroIsDue == ASSUME NEW n \in Nat \ {0} PROVE 0 % n = 0
  BY SMTT(30)

(* What is not written leaves the candidate part of the invariant alone. *)
LEMMA CandUnchanged ==
  ASSUME IInv, UNCHANGED <<job, cand, pc, completed, objective, ranked, listed>>
  PROVE  CandInv'
  BY DEF IInv, CandInv, IsRanking, Before, InTry, Combos, Top

(* Every commit of the runner and every request stores values of their type. *)
LEMMA TypeStep == ASSUME IInv, [Next]_vars PROVE TypeOK'
<1>1. CASE \E desc \in BOOLEAN : CreateJob(desc)
  BY <1>1 DEF IInv, vars, rows, memory, TypeOK, Phases, InTry, CreateJob
<1>2. CASE StartJob
  BY <1>2 DEF IInv, vars, rows, memory, TypeOK, Phases, InTry, StartJob
<1>3. CASE PrepareInput
  BY <1>3 DEF IInv, vars, rows, memory, TypeOK, Phases, InTry, PrepareInput
<1>4. CASE CreateRun
  <2>1. run' \in [Combos -> RunRows]
    BY <1>4 DEF IInv, TypeOK, CreateRun, RunRows
  <2>2. QED
    BY <1>4, <2>1 DEF IInv, TypeOK, CreateRun, memory, Phases, InTry
<1>5. CASE MarkRunRunning
  <2>1. run' \in [Combos -> RunRows]
    BY <1>5 DEF IInv, TypeOK, MarkRunRunning, RunRows
  <2>2. QED
    BY <1>5, <2>1 DEF IInv, TypeOK, MarkRunRunning, memory, Phases, InTry
<1>6. CASE StoreTrades
  <2>1. run' \in [Combos -> RunRows]
    BY <1>6 DEF IInv, TypeOK, StoreTrades, RunRows
  <2>2. QED
    BY <1>6, <2>1 DEF IInv, TypeOK, StoreTrades, memory, Phases, InTry
<1>7. CASE StoreSymbolMetrics
  <2>0. cur \in Combos
    BY <1>7, JobAssumption DEF IInv, RunsInv, TypeOK, cur, Combos, JobAssumption, StoreSymbolMetrics
  <2>1. run' \in [Combos -> RunRows]
    <3>1. [run[cur] EXCEPT !.symbols = run[cur].symbols + 1] \in RunRows
      BY <1>7, <2>0, JobAssumption DEF IInv, TypeOK, StoreSymbolMetrics, RunRows, JobAssumption
    <3>2. QED
      BY <1>7, <3>1, <2>0 DEF IInv, TypeOK, StoreSymbolMetrics
  <2>2. QED
    BY <1>7, <2>1 DEF IInv, TypeOK, StoreSymbolMetrics, memory, Phases, InTry
<1>8. CASE \E v \in Objectives : StorePortfolioMetrics(v)
  <2>1. PICK v \in Objectives : StorePortfolioMetrics(v)
    BY <1>8
  <2>2. run' \in [Combos -> RunRows]
    BY <2>1 DEF IInv, TypeOK, StorePortfolioMetrics, RunRows
  <2>3. QED
    BY <2>1, <2>2 DEF IInv, TypeOK, StorePortfolioMetrics, memory, Phases, InTry
<1>9. CASE MarkRunSuccess
  <2>1. run' \in [Combos -> RunRows]
    BY <1>9 DEF IInv, TypeOK, MarkRunSuccess, RunRows
  <2>2. QED
    BY <1>9, <2>1, JobAssumption DEF IInv, TypeOK, MarkRunSuccess, memory, Phases, InTry, ProgressDue, RunsInv, Combos, cur, JobAssumption
<1>10. CASE SetProgress
  BY <1>10 DEF IInv, vars, rows, memory, TypeOK, Phases, InTry, SetProgress, ProgressInv
<1>11. CASE Rank
  BY <1>11 DEF IInv, vars, rows, memory, TypeOK, Phases, InTry, Rank, Rankings
<1>12. CASE AddCandidate
  <2>1. /\ listed + 1 \in Combos /\ ranked \in [Combos -> Combos]
        /\ \A c \in Combos : objective[c] \in Objectives
    <3>1. pc = "insert" /\ listed < Total /\ completed = Total
      BY <1>12 DEF IInv, CandInv, ProgressInv, AddCandidate
    <3>2. \A c \in Combos : c <= completed /\ Finished(c)
      BY <3>1 DEF IInv, RunsInv, Combos
    <3>3. ranked \in [Combos -> Combos]
      BY <3>1 DEF IInv, CandInv, IsRanking
    <3>4. listed + 1 \in Combos
      BY <3>1, JobAssumption DEF IInv, TypeOK, Combos, JobAssumption
    <3>5. QED
      BY <3>2, <3>3, <3>4 DEF Finished
  <2>2. [combo |-> ranked[listed + 1], objective |-> objective[ranked[listed + 1]]] \in CandRows
    BY <2>1 DEF CandRows
  <2>3. cand' \in [Combos -> CandRows \cup {None}]
    BY <1>12, <2>1, <2>2 DEF IInv, TypeOK, AddCandidate
  <2>4. listed' \in 0 .. Total /\ pc' \in Phases
    BY <1>12, <2>1 DEF AddCandidate, Combos, Phases, InTry
  <2>5. QED
    BY <1>12, <2>3, <2>4 DEF IInv, TypeOK, AddCandidate
<1>13. CASE SetResultSummary
  <2>1. ranked \in [Combos -> Combos]
    BY <1>13 DEF IInv, CandInv, IsRanking, SetResultSummary
  <2>2. [k \in Top |-> ranked[k]] \in [Top -> Combos]
    BY <2>1, JobAssumption DEF Top, Combos, JobAssumption
  <2>3. job' \in [status : {"absent", "pending", "running", "success", "failed"},
                 descending : BOOLEAN, completed : 0 .. Total,
                 summary : [Top -> Combos] \cup {None}]
    BY <1>13, <2>2 DEF IInv, TypeOK, SetResultSummary
  <2>4. QED
    BY <1>13, <2>3 DEF IInv, TypeOK, SetResultSummary, Phases, InTry, memory
<1>14. CASE CloseJob
  BY <1>14 DEF IInv, vars, rows, memory, TypeOK, Phases, InTry, CloseJob
<1>15. CASE MarkJobFailed
  BY <1>15 DEF IInv, vars, rows, memory, TypeOK, Phases, InTry, MarkJobFailed
<1>16. CASE HandlerRaises
  BY <1>16 DEF IInv, vars, rows, memory, TypeOK, Phases, InTry, HandlerRaises
<1>17. CASE RaiseAppError
  BY <1>17 DEF IInv, vars, rows, memory, TypeOK, Phases, InTry, RaiseAppError
<1>18. CASE RaiseDbError
  BY <1>18 DEF IInv, vars, rows, memory, TypeOK, Phases, InTry, RaiseDbError
<1>22. CASE RaiseConnectionError
  BY <1>22 DEF IInv, vars, rows, memory, TypeOK, Phases, InTry, RaiseConnectionError
<1>19. CASE Crash
  BY <1>19 DEF IInv, vars, rows, memory, TypeOK, Phases, InTry, Crash
<1>20. CASE \E k \in Combos : SavePreset(k)
  BY <1>20 DEF IInv, vars, rows, memory, TypeOK, Phases, InTry, SavePreset, CandRows
<1>21. CASE UNCHANGED vars
  BY <1>21 DEF IInv, vars, rows, memory, TypeOK, Phases, InTry
<1> QED
  BY <1>1, <1>2, <1>3, <1>4, <1>5, <1>6, <1>7, <1>8, <1>9, <1>10, <1>11, <1>12, <1>13, <1>14, <1>15, <1>16, <1>17, <1>18, <1>19, <1>20, <1>21, <1>22 DEF Next, Runner

(* A run row only changes while it is the current one, and is finished when counted. *)
LEMMA RunsStep == ASSUME IInv, [Next]_vars PROVE RunsInv'
<1>1. CASE \E desc \in BOOLEAN : CreateJob(desc)
  BY <1>1, JobAssumption DEF IInv, vars, rows, memory, TypeOK, RunsInv, Finished, Combos, cur, RunRows, JobAssumption, Phases, InTry, CreateJob
<1>2. CASE StartJob
  BY <1>2, JobAssumption DEF IInv, vars, rows, memory, TypeOK, RunsInv, Finished, Combos, cur, RunRows, JobAssumption, Phases, InTry, StartJob
<1>3. CASE PrepareInput
  BY <1>3, JobAssumption DEF IInv, vars, rows, memory, TypeOK, RunsInv, Finished, Combos, cur, RunRows, JobAssumption, Phases, InTry, PrepareInput
<1>4. CASE CreateRun
  BY <1>4, JobAssumption DEF IInv, vars, rows, memory, TypeOK, RunsInv, Finished, Combos, cur, RunRows, JobAssumption, Phases, InTry, CreateRun
<1>5. CASE MarkRunRunning
  BY <1>5, JobAssumption DEF IInv, vars, rows, memory, TypeOK, RunsInv, Finished, Combos, cur, RunRows, JobAssumption, Phases, InTry, MarkRunRunning
<1>6. CASE StoreTrades
  BY <1>6, JobAssumption DEF IInv, vars, rows, memory, TypeOK, RunsInv, Finished, Combos, cur, RunRows, JobAssumption, Phases, InTry, StoreTrades
<1>7. CASE StoreSymbolMetrics
  BY <1>7, JobAssumption DEF IInv, vars, rows, memory, TypeOK, RunsInv, Finished, Combos, cur, RunRows, JobAssumption, Phases, InTry, StoreSymbolMetrics
<1>8. CASE \E v \in Objectives : StorePortfolioMetrics(v)
  BY <1>8, JobAssumption DEF IInv, vars, rows, memory, TypeOK, RunsInv, Finished, Combos, cur, RunRows, JobAssumption, Phases, InTry, StorePortfolioMetrics
<1>9. CASE MarkRunSuccess
  BY <1>9, JobAssumption DEF IInv, vars, rows, memory, TypeOK, RunsInv, Finished, Combos, cur, RunRows, JobAssumption, Phases, InTry, MarkRunSuccess, ProgressDue
<1>10. CASE SetProgress
  BY <1>10, JobAssumption DEF IInv, vars, rows, memory, TypeOK, RunsInv, Finished, Combos, cur, RunRows, JobAssumption, Phases, InTry, SetProgress, ProgressInv, ProgressDue
<1>11. CASE Rank
  BY <1>11, JobAssumption DEF IInv, vars, rows, memory, TypeOK, RunsInv, Finished, Combos, cur, RunRows, JobAssumption, Phases, InTry, Rank
<1>12. CASE AddCandidate
  BY <1>12, JobAssumption DEF IInv, vars, rows, memory, TypeOK, RunsInv, Finished, Combos, cur, RunRows, JobAssumption, Phases, InTry, AddCandidate
<1>13. CASE SetResultSummary
  BY <1>13, JobAssumption DEF IInv, vars, rows, memory, TypeOK, RunsInv, Finished, Combos, cur, RunRows, JobAssumption, Phases, InTry, SetResultSummary
<1>14. CASE CloseJob
  BY <1>14, JobAssumption DEF IInv, vars, rows, memory, TypeOK, RunsInv, Finished, Combos, cur, RunRows, JobAssumption, Phases, InTry, CloseJob
<1>15. CASE MarkJobFailed
  BY <1>15, JobAssumption DEF IInv, vars, rows, memory, TypeOK, RunsInv, Finished, Combos, cur, RunRows, JobAssumption, Phases, InTry, MarkJobFailed
<1>16. CASE HandlerRaises
  BY <1>16, JobAssumption DEF IInv, vars, rows, memory, TypeOK, RunsInv, Finished, Combos, cur, RunRows, JobAssumption, Phases, InTry, HandlerRaises
<1>17. CASE RaiseAppError
  BY <1>17, JobAssumption DEF IInv, vars, rows, memory, TypeOK, RunsInv, Finished, Combos, cur, RunRows, JobAssumption, Phases, InTry, RaiseAppError
<1>18. CASE RaiseDbError
  BY <1>18, JobAssumption DEF IInv, vars, rows, memory, TypeOK, RunsInv, Finished, Combos, cur, RunRows, JobAssumption, Phases, InTry, RaiseDbError
<1>22. CASE RaiseConnectionError
  BY <1>22, JobAssumption DEF IInv, vars, rows, memory, TypeOK, RunsInv, Finished, Combos, cur, RunRows, JobAssumption, Phases, InTry, RaiseConnectionError
<1>19. CASE Crash
  BY <1>19, JobAssumption DEF IInv, vars, rows, memory, TypeOK, RunsInv, Finished, Combos, cur, RunRows, JobAssumption, Phases, InTry, Crash
<1>20. CASE \E k \in Combos : SavePreset(k)
  BY <1>20, JobAssumption DEF IInv, vars, rows, memory, TypeOK, RunsInv, Finished, Combos, cur, RunRows, JobAssumption, Phases, InTry, SavePreset
<1>21. CASE UNCHANGED vars
  BY <1>21, JobAssumption DEF IInv, vars, rows, memory, TypeOK, RunsInv, Finished, Combos, cur, RunRows, JobAssumption, Phases, InTry
<1> QED
  BY <1>1, <1>2, <1>3, <1>4, <1>5, <1>6, <1>7, <1>8, <1>9, <1>10, <1>11, <1>12, <1>13, <1>14, <1>15, <1>16, <1>17, <1>18, <1>19, <1>20, <1>21, <1>22 DEF Next, Runner

(* The stored counter follows the local one and catches up at every multiple. *)
LEMMA ProgressStep == ASSUME IInv, [Next]_vars PROVE ProgressInv'
<1>1. CASE \E desc \in BOOLEAN : CreateJob(desc)
  BY <1>1, JobAssumption DEF IInv, vars, rows, memory, TypeOK, ProgressInv, JobAssumption, Phases, InTry, CreateJob
<1>2. CASE StartJob
  BY <1>2, JobAssumption DEF IInv, vars, rows, memory, TypeOK, ProgressInv, JobAssumption, Phases, InTry, StartJob, RunsInv
<1>3. CASE PrepareInput
  BY <1>3, JobAssumption DEF IInv, vars, rows, memory, TypeOK, ProgressInv, JobAssumption, Phases, InTry, PrepareInput
<1>4. CASE CreateRun
  BY <1>4, JobAssumption DEF IInv, vars, rows, memory, TypeOK, ProgressInv, JobAssumption, Phases, InTry, CreateRun
<1>5. CASE MarkRunRunning
  BY <1>5, JobAssumption DEF IInv, vars, rows, memory, TypeOK, ProgressInv, JobAssumption, Phases, InTry, MarkRunRunning
<1>6. CASE StoreTrades
  BY <1>6, JobAssumption DEF IInv, vars, rows, memory, TypeOK, ProgressInv, JobAssumption, Phases, InTry, StoreTrades
<1>7. CASE StoreSymbolMetrics
  BY <1>7, JobAssumption DEF IInv, vars, rows, memory, TypeOK, ProgressInv, JobAssumption, Phases, InTry, StoreSymbolMetrics
<1>8. CASE \E v \in Objectives : StorePortfolioMetrics(v)
  BY <1>8, JobAssumption DEF IInv, vars, rows, memory, TypeOK, ProgressInv, JobAssumption, Phases, InTry, StorePortfolioMetrics
<1>9. CASE MarkRunSuccess
  <2>1. /\ pc = "finish" /\ completed \in Nat /\ completed < Total /\ job.completed \in Nat
        /\ job' = job /\ completed' = completed + 1 /\ completed < job.completed + ProgressEvery
    BY <1>9 DEF IInv, TypeOK, RunsInv, ProgressInv, MarkRunSuccess, InTry, cur
  <2>2. CASE ProgressDue(cur)
    BY <1>9, <2>1, <2>2, JobAssumption DEF IInv, TypeOK, ProgressInv, MarkRunSuccess, ProgressDue, InTry, cur, JobAssumption
  <2>3. CASE ~ProgressDue(cur)
    <3>1. completed' # Total /\ completed' % ProgressEvery # 0 /\ pc' = "validate"
      BY <1>9, <2>1, <2>3 DEF MarkRunSuccess, ProgressDue, cur
    <3>2. job.completed % ProgressEvery = 0
      BY <2>1, JobAssumption DEF IInv, ProgressInv, TypeOK, JobAssumption
    <3>3. completed' # job.completed + ProgressEvery
      BY <2>1, <3>1, <3>2, NextMultiple, JobAssumption DEF JobAssumption
    <3>4. QED
      BY <2>1, <3>1, <3>2, <3>3, JobAssumption DEF IInv, ProgressInv, InTry, JobAssumption
  <2>4. QED
    BY <2>2, <2>3
<1>10. CASE SetProgress
  BY <1>10, JobAssumption DEF IInv, vars, rows, memory, TypeOK, ProgressInv, JobAssumption, Phases, InTry, SetProgress, ProgressDue
<1>11. CASE Rank
  BY <1>11, JobAssumption DEF IInv, vars, rows, memory, TypeOK, ProgressInv, JobAssumption, Phases, InTry, Rank
<1>12. CASE AddCandidate
  BY <1>12, JobAssumption DEF IInv, vars, rows, memory, TypeOK, ProgressInv, JobAssumption, Phases, InTry, AddCandidate
<1>13. CASE SetResultSummary
  BY <1>13, JobAssumption DEF IInv, vars, rows, memory, TypeOK, ProgressInv, JobAssumption, Phases, InTry, SetResultSummary
<1>14. CASE CloseJob
  BY <1>14, JobAssumption DEF IInv, vars, rows, memory, TypeOK, ProgressInv, JobAssumption, Phases, InTry, CloseJob
<1>15. CASE MarkJobFailed
  BY <1>15, JobAssumption DEF IInv, vars, rows, memory, TypeOK, ProgressInv, JobAssumption, Phases, InTry, MarkJobFailed
<1>16. CASE HandlerRaises
  BY <1>16, JobAssumption DEF IInv, vars, rows, memory, TypeOK, ProgressInv, JobAssumption, Phases, InTry, HandlerRaises
<1>17. CASE RaiseAppError
  BY <1>17, JobAssumption DEF IInv, vars, rows, memory, TypeOK, ProgressInv, JobAssumption, Phases, InTry, RaiseAppError
<1>18. CASE RaiseDbError
  BY <1>18, JobAssumption DEF IInv, vars, rows, memory, TypeOK, ProgressInv, JobAssumption, Phases, InTry, RaiseDbError
<1>22. CASE RaiseConnectionError
  BY <1>22, JobAssumption DEF IInv, vars, rows, memory, TypeOK, ProgressInv, JobAssumption, Phases, InTry, RaiseConnectionError
<1>19. CASE Crash
  BY <1>19, JobAssumption DEF IInv, vars, rows, memory, TypeOK, ProgressInv, JobAssumption, Phases, InTry, Crash
<1>20. CASE \E k \in Combos : SavePreset(k)
  BY <1>20, JobAssumption DEF IInv, vars, rows, memory, TypeOK, ProgressInv, JobAssumption, Phases, InTry, SavePreset
<1>21. CASE UNCHANGED vars
  BY <1>21, JobAssumption DEF IInv, vars, rows, memory, TypeOK, ProgressInv, JobAssumption, Phases, InTry
<1> QED
  BY <1>1, <1>2, <1>3, <1>4, <1>5, <1>6, <1>7, <1>8, <1>9, <1>10, <1>11, <1>12, <1>13, <1>14, <1>15, <1>16, <1>17, <1>18, <1>19, <1>20, <1>21, <1>22 DEF Next, Runner

(* Candidates are appended in ranking order, and the ranking they follow does not move. *)
LEMMA CandStep == ASSUME IInv, [Next]_vars PROVE CandInv'
<1>1. CASE \E desc \in BOOLEAN : CreateJob(desc)
  BY <1>1, JobAssumption DEF IInv, vars, rows, memory, TypeOK, CandInv, IsRanking, Before, Combos, JobAssumption, Phases, InTry, CreateJob, StatusInv
<1>2. CASE StartJob
  BY <1>2, JobAssumption DEF IInv, vars, rows, memory, TypeOK, CandInv, IsRanking, Before, Combos, JobAssumption, Phases, InTry, StartJob
<1>3. CASE PrepareInput
  BY <1>3, JobAssumption DEF IInv, vars, rows, memory, TypeOK, CandInv, IsRanking, Before, Combos, JobAssumption, Phases, InTry, PrepareInput
<1>4. CASE CreateRun
  BY <1>4, JobAssumption DEF IInv, vars, rows, memory, TypeOK, CandInv, IsRanking, Before, Combos, JobAssumption, Phases, InTry, CreateRun
<1>5. CASE MarkRunRunning
  BY <1>5, JobAssumption DEF IInv, vars, rows, memory, TypeOK, CandInv, IsRanking, Before, Combos, JobAssumption, Phases, InTry, MarkRunRunning
<1>6. CASE StoreTrades
  BY <1>6, JobAssumption DEF IInv, vars, rows, memory, TypeOK, CandInv, IsRanking, Before, Combos, JobAssumption, Phases, InTry, StoreTrades
<1>7. CASE StoreSymbolMetrics
  BY <1>7, JobAssumption DEF IInv, vars, rows, memory, TypeOK, CandInv, IsRanking, Before, Combos, JobAssumption, Phases, InTry, StoreSymbolMetrics
<1>8. CASE \E v \in Objectives : StorePortfolioMetrics(v)
  BY <1>8, JobAssumption DEF IInv, vars, rows, memory, TypeOK, CandInv, IsRanking, Before, Combos, JobAssumption, Phases, InTry, StorePortfolioMetrics
<1>9. CASE MarkRunSuccess
  BY <1>9, JobAssumption DEF IInv, vars, rows, memory, TypeOK, CandInv, IsRanking, Before, Combos, JobAssumption, Phases, InTry, MarkRunSuccess, RunsInv, ProgressDue, cur
<1>10. CASE SetProgress
  BY <1>10, JobAssumption DEF IInv, vars, rows, memory, TypeOK, CandInv, IsRanking, Before, Combos, JobAssumption, Phases, InTry, SetProgress, ProgressInv
<1>11. CASE Rank
  <2>1. ranked' \in Rankings(objective) /\ UNCHANGED <<job, cand, completed, objective, listed>>
    BY <1>11 DEF Rank, rows
  <2>2. IsRanking'
    BY <2>1 DEF Rankings, IsRanking, Before, Combos
  <2>3. pc = "rank" /\ pc' = "insert" /\ listed = 0 /\ job.summary = None
    BY <1>11 DEF Rank, IInv, CandInv, InTry
  <2>4. QED
    BY <2>1, <2>2, <2>3, JobAssumption DEF IInv, CandInv, InTry, Combos, JobAssumption
<1>12. CASE AddCandidate
  <2>1. /\ pc = "insert" /\ listed < Total /\ completed = Total /\ listed \in Nat
        /\ job.completed = Total /\ IsRanking /\ job.summary = None
    BY <1>12 DEF IInv, TypeOK, CandInv, ProgressInv, AddCandidate, InTry
  <2>2. IsRanking'
    BY <1>12, <2>1 DEF AddCandidate, IsRanking, Before, Combos
  <2>3. /\ cand' = [cand EXCEPT ![listed + 1] =
                       [combo |-> ranked[listed + 1], objective |-> objective[ranked[listed + 1]]]]
        /\ listed' = listed + 1
        /\ pc' = IF listed + 1 = Total THEN "summary" ELSE "insert"
        /\ UNCHANGED <<job, completed, objective, ranked>>
    BY <1>12 DEF AddCandidate
  <2>4. \A k \in Combos : k <= listed' =>
          cand'[k] = [combo |-> ranked'[k], objective |-> objective'[ranked'[k]]]
    BY <2>1, <2>3 DEF IInv, TypeOK, CandInv, Combos
  <2>5. \A k \in Combos : k > listed' => cand'[k] = None
    BY <2>1, <2>3 DEF IInv, TypeOK, CandInv, Combos
  <2>6. /\ pc' = "insert" => listed' < Total
        /\ pc' = "summary" => listed' = Total
        /\ pc' \in {"insert", "summary"}
        /\ completed' = Total /\ job'.completed = Total /\ job'.summary = None
    BY <2>1, <2>3, JobAssumption DEF JobAssumption
  <2>7. QED
    BY <2>2, <2>4, <2>5, <2>6 DEF CandInv, InTry
<1>13. CASE SetResultSummary
  <2>1. /\ pc = "summary" /\ pc' = "close" /\ listed = Total /\ IsRanking
        /\ job' = [job EXCEPT !.summary = [k \in Top |-> ranked[k]]]
        /\ UNCHANGED <<cand, completed, objective, ranked, listed>>
    BY <1>13 DEF IInv, CandInv, SetResultSummary, memory
  <2>2. job'.summary = [k \in Top |-> ranked[k]] /\ job'.descending = job.descending
    BY <2>1 DEF IInv, TypeOK
  <2>3. IsRanking'
    BY <2>1, <2>2 DEF IsRanking, Before, Combos
  <2>4. Top \subseteq Combos
    BY JobAssumption DEF Top, Combos, JobAssumption
  <2>5. job'.summary # None
    <3>1. [k \in Top |-> ranked[k]] \in [Top -> Combos]
      BY <2>1, <2>4 DEF IsRanking
    <3>2. QED
      BY <2>2, <3>1, NoneAssumption
  <2>6. QED
    BY <2>1, <2>2, <2>3, <2>5 DEF IInv, CandInv, InTry, Combos, Top
<1>14. CASE CloseJob
  BY <1>14, JobAssumption DEF IInv, vars, rows, memory, TypeOK, CandInv, IsRanking, Before, Combos, JobAssumption, Phases, InTry, CloseJob
<1>15. CASE MarkJobFailed
  BY <1>15, JobAssumption DEF IInv, vars, rows, memory, TypeOK, CandInv, IsRanking, Before, Combos, JobAssumption, Phases, InTry, MarkJobFailed, StatusInv
<1>16. CASE HandlerRaises
  BY <1>16, JobAssumption DEF IInv, vars, rows, memory, TypeOK, CandInv, IsRanking, Before, Combos, JobAssumption, Phases, InTry, HandlerRaises
<1>17. CASE RaiseAppError
  BY <1>17, JobAssumption DEF IInv, vars, rows, memory, TypeOK, CandInv, IsRanking, Before, Combos, JobAssumption, Phases, InTry, RaiseAppError
<1>18. CASE RaiseDbError
  BY <1>18, JobAssumption DEF IInv, vars, rows, memory, TypeOK, CandInv, IsRanking, Before, Combos, JobAssumption, Phases, InTry, RaiseDbError
<1>22. CASE RaiseConnectionError
  BY <1>22, JobAssumption DEF IInv, vars, rows, memory, TypeOK, CandInv, IsRanking, Before, Combos, JobAssumption, Phases, InTry, RaiseConnectionError
<1>19. CASE Crash
  BY <1>19, JobAssumption DEF IInv, vars, rows, memory, TypeOK, CandInv, IsRanking, Before, Combos, JobAssumption, Phases, InTry, Crash
<1>20. CASE \E k \in Combos : SavePreset(k)
  BY <1>20, CandUnchanged DEF SavePreset, rows, memory
<1>21. CASE UNCHANGED vars
  BY <1>21, JobAssumption DEF IInv, vars, rows, memory, TypeOK, CandInv, IsRanking, Before, Combos, JobAssumption, Phases, InTry
<1> QED
  BY <1>1, <1>2, <1>3, <1>4, <1>5, <1>6, <1>7, <1>8, <1>9, <1>10, <1>11, <1>12, <1>13, <1>14, <1>15, <1>16, <1>17, <1>18, <1>19, <1>20, <1>21, <1>22 DEF Next, Runner

(* The job row and the runner's position move together. *)
LEMMA StatusStep == ASSUME IInv, [Next]_vars PROVE StatusInv'
<1>1. CASE \E desc \in BOOLEAN : CreateJob(desc)
  BY <1>1, JobAssumption DEF IInv, vars, rows, memory, TypeOK, StatusInv, JobAssumption, Phases, InTry, CreateJob
<1>2. CASE StartJob
  BY <1>2, JobAssumption DEF IInv, vars, rows, memory, TypeOK, StatusInv, JobAssumption, Phases, InTry, StartJob
<1>3. CASE PrepareInput
  BY <1>3, JobAssumption DEF IInv, vars, rows, memory, TypeOK, StatusInv, JobAssumption, Phases, InTry, PrepareInput
<1>4. CASE CreateRun
  BY <1>4, JobAssumption DEF IInv, vars, rows, memory, TypeOK, StatusInv, JobAssumption, Phases, InTry, CreateRun
<1>5. CASE MarkRunRunning
  BY <1>5, JobAssumption DEF IInv, vars, rows, memory, TypeOK, StatusInv, JobAssumption, Phases, InTry, MarkRunRunning
<1>6. CASE StoreTrades
  BY <1>6, JobAssumption DEF IInv, vars, rows, memory, TypeOK, StatusInv, JobAssumption, Phases, InTry, StoreTrades
<1>7. CASE StoreSymbolMetrics
  BY <1>7, JobAssumption DEF IInv, vars, rows, memory, TypeOK, StatusInv, JobAssumption, Phases, InTry, StoreSymbolMetrics
<1>8. CASE \E v \in Objectives : StorePortfolioMetrics(v)
  BY <1>8, JobAssumption DEF IInv, vars, rows, memory, TypeOK, StatusInv, JobAssumption, Phases, InTry, StorePortfolioMetrics
<1>9. CASE MarkRunSuccess
  BY <1>9, JobAssumption DEF IInv, vars, rows, memory, TypeOK, StatusInv, JobAssumption, Phases, InTry, MarkRunSuccess, ProgressDue
<1>10. CASE SetProgress
  BY <1>10, JobAssumption DEF IInv, vars, rows, memory, TypeOK, StatusInv, JobAssumption, Phases, InTry, SetProgress, ProgressInv
<1>11. CASE Rank
  BY <1>11, JobAssumption DEF IInv, vars, rows, memory, TypeOK, StatusInv, JobAssumption, Phases, InTry, Rank
<1>12. CASE AddCandidate
  BY <1>12, JobAssumption DEF IInv, vars, rows, memory, TypeOK, StatusInv, JobAssumption, Phases, InTry, AddCandidate, CandInv
<1>13. CASE SetResultSummary
  BY <1>13, JobAssumption DEF IInv, vars, rows, memory, TypeOK, StatusInv, JobAssumption, Phases, InTry, SetResultSummary, CandInv
<1>14. CASE CloseJob
  BY <1>14, JobAssumption DEF IInv, vars, rows, memory, TypeOK, StatusInv, JobAssumption, Phases, InTry, CloseJob, CandInv, ProgressInv
<1>15. CASE MarkJobFailed
  BY <1>15, JobAssumption DEF IInv, vars, rows, memory, TypeOK, StatusInv, JobAssumption, Phases, InTry, MarkJobFailed
<1>16. CASE HandlerRaises
  BY <1>16, JobAssumption DEF IInv, vars, rows, memory, TypeOK, StatusInv, JobAssumption, Phases, InTry, HandlerRaises
<1>17. CASE RaiseAppError
  BY <1>17, JobAssumption DEF IInv, vars, rows, memory, TypeOK, StatusInv, JobAssumption, Phases, InTry, RaiseAppError
<1>18. CASE RaiseDbError
  BY <1>18, JobAssumption DEF IInv, vars, rows, memory, TypeOK, StatusInv, JobAssumption, Phases, InTry, RaiseDbError
<1>22. CASE RaiseConnectionError
  BY <1>22, JobAssumption DEF IInv, vars, rows, memory, TypeOK, StatusInv, JobAssumption, Phases, InTry, RaiseConnectionError
<1>19. CASE Crash
  BY <1>19, JobAssumption DEF IInv, vars, rows, memory, TypeOK, StatusInv, JobAssumption, Phases, InTry, Crash
<1>20. CASE \E k \in Combos : SavePreset(k)
  BY <1>20, JobAssumption DEF IInv, vars, rows, memory, TypeOK, StatusInv, JobAssumption, Phases, InTry, SavePreset
<1>21. CASE UNCHANGED vars
  BY <1>21, JobAssumption DEF IInv, vars, rows, memory, TypeOK, StatusInv, JobAssumption, Phases, InTry
<1> QED
  BY <1>1, <1>2, <1>3, <1>4, <1>5, <1>6, <1>7, <1>8, <1>9, <1>10, <1>11, <1>12, <1>13, <1>14, <1>15, <1>16, <1>17, <1>18, <1>19, <1>20, <1>21, <1>22 DEF Next, Runner

-----------------------------------------------------------------------------
(* The invariant holds of the empty tables. *)
LEMMA InitInv == Init => IInv
<1> SUFFICES ASSUME Init PROVE IInv
  OBVIOUS
<1>1. TypeOK
  <2>1. NoRun \in RunRows
    BY JobAssumption DEF NoRun, RunRows, JobAssumption
  <2>2. job \in [status : {"absent", "pending", "running", "success", "failed"},
                 descending : BOOLEAN, completed : 0 .. Total,
                 summary : [Top -> Combos] \cup {None}]
    BY JobAssumption DEF Init, JobAssumption
  <2>3. QED
    BY <2>1, <2>2, JobAssumption DEF Init, TypeOK, Phases, JobAssumption
<1>2. RunsInv /\ StatusInv
  BY JobAssumption DEF Init, RunsInv, StatusInv, NoRun, InTry, Combos, JobAssumption
<1>3. ProgressInv
  BY ZeroIsDue, JobAssumption DEF Init, ProgressInv, InTry, JobAssumption
<1>4. CandInv
  BY JobAssumption DEF Init, CandInv, InTry, Combos, JobAssumption
<1>5. QED
  BY <1>1, <1>2, <1>3, <1>4 DEF IInv

(* The invariant the other theorems rest on. *)
THEOREM Inductive == Spec => []IInv
<1>1. IInv /\ [Next]_vars => IInv'
  <2> SUFFICES ASSUME IInv, [Next]_vars PROVE IInv'
    OBVIOUS
  <2>1. QED
    BY TypeStep, RunsStep, ProgressStep, CandStep, StatusStep DEF IInv
<1>2. QED
  BY InitInv, <1>1, PTL DEF Spec

(* Every row and local variable has its type, for every size of the grid. *)
THEOREM TypeCorrect == Spec => []TypeOK
<1>1. IInv => TypeOK
  BY DEF IInv
<1>2. QED
  BY <1>1, Inductive, PTL

(* A candidate is linked to a finished run that stored its objective.      *)
LEMMA ListedIsFinished ==
  ASSUME IInv, NEW k \in Combos, k <= listed
  PROVE  /\ ranked[k] \in Combos /\ Finished(ranked[k])
         /\ cand[k].combo = ranked[k] /\ cand[k].objective = objective[ranked[k]]
         /\ cand[k] # None
<1>1. IsRanking /\ completed = Total
  BY DEF IInv, TypeOK, CandInv, Combos
<1>2. ranked[k] \in Combos
  BY <1>1 DEF IsRanking
<1>3. Finished(ranked[k])
  BY <1>1, <1>2 DEF IInv, RunsInv, Combos
<1>4. cand[k] = [combo |-> ranked[k], objective |-> objective[ranked[k]]]
  BY DEF IInv, CandInv
<1>5. cand[k] # None
  BY <1>2, <1>3, <1>4, NoneAssumption DEF CandRows, Finished
<1>6. QED
  BY <1>2, <1>3, <1>4, <1>5

(* The candidate table always holds the ranks 1 .. listed and no other. *)
LEMMA ListedIsPrefix == IInv => Listed = {k \in Combos : k <= listed}
<1> SUFFICES ASSUME IInv, NEW k \in Combos PROVE cand[k] # None <=> k <= listed
  BY DEF Listed
<1>1. listed \in Int /\ k \in Int
  BY DEF IInv, TypeOK, Combos
<1>2. k > listed => cand[k] = None
  BY DEF IInv, CandInv
<1>3. k <= listed => cand[k] # None
  BY ListedIsFinished
<1>4. QED
  BY <1>1, <1>2, <1>3

(* A job that reads "success" is complete. *)
THEOREM SuccessImpliesComplete == Spec => []SuccessIsComplete
<1>1. IInv => SuccessIsComplete
  <2> SUFFICES ASSUME IInv, job.status = "success" PROVE SuccessIsComplete
    BY DEF SuccessIsComplete
  <2>1. listed = Total /\ job.summary # None /\ job.completed = Total /\ Total > 0
    BY JobAssumption DEF IInv, StatusInv, JobAssumption
  <2>2. IsRanking
    BY <2>1 DEF IInv, CandInv
  <2>3. \A k \in Combos : k <= listed
    BY <2>1, JobAssumption DEF Combos, JobAssumption
  <2>4. Listed = Combos
    BY <2>3, ListedIsPrefix
  <2>5. \A c \in Combos : \E k \in Combos : cand[k].combo = c
    BY <2>2, <2>3, ListedIsFinished DEF IsRanking
  <2>6. \A k \in Combos : LET r == run[cand[k].combo]
                          IN  /\ r.status = "success" /\ r.ledger
                              /\ r.symbols = NumSymbols /\ r.portfolio = cand[k].objective
    BY <2>3, ListedIsFinished DEF Finished
  <2>7. Top \subseteq Combos
    BY JobAssumption DEF Top, Combos, JobAssumption
  <2>8. \A k \in Top : job.summary[k] = cand[k].combo
    BY <2>1, <2>3, <2>7, ListedIsFinished DEF IInv, CandInv
  <2>9. QED
    BY <2>1, <2>4, <2>5, <2>6, <2>8 DEF SuccessIsComplete
<1>2. QED
  BY <1>1, Inductive, PTL

(* What a reader sees of the ranking while it is inserted is final. *)
THEOREM RankingPrefixIsFinal == Spec => []VisibleRankingIsFinal
<1>1. ASSUME IInv, NEW k \in Listed, NEW i \in 1 .. k
      PROVE  i \in Listed
  <2>1. Listed = {j \in Combos : j <= listed} /\ listed \in 0 .. Total
    BY <1>1, ListedIsPrefix DEF IInv, TypeOK
  <2>2. k \in Combos /\ k <= listed
    BY <2>1
  <2>3. i \in Combos /\ i <= listed
    BY <1>1, <2>1, <2>2, JobAssumption DEF Combos, JobAssumption
  <2>4. QED
    BY <2>1, <2>3
<1>2. ASSUME IInv, NEW k \in Listed, NEW d \in Combos \ {cand[i].combo : i \in 1 .. k}
      PROVE  /\ IF job.descending THEN run[d].portfolio <= cand[k].objective
                                  ELSE run[d].portfolio >= cand[k].objective
             /\ run[d].portfolio = cand[k].objective => cand[k].combo < d
  <2>1. k \in Combos /\ k <= listed /\ listed \in 0 .. Total
    BY <1>2, ListedIsPrefix DEF IInv, TypeOK
  <2>2. IsRanking /\ completed = Total
    BY <1>2, <2>1 DEF IInv, CandInv, Combos
  <2>3. PICK j \in Combos : ranked[j] = d
    BY <2>2 DEF IsRanking
  <2>4. ~(j <= k)
    <3>1. SUFFICES ASSUME j <= k PROVE FALSE
      OBVIOUS
    <3>2. j \in 1 .. k /\ j <= listed
      BY <2>1, <3>1 DEF Combos
    <3>3. cand[j].combo = d
      BY <1>2, <2>3, <3>2, ListedIsFinished
    <3>4. QED
      BY <3>2, <3>3
  <2>5. Before(objective, ranked[k], d)
    <3>1. k < j
      BY <2>1, <2>3, <2>4 DEF Combos
    <3>2. Before(objective, ranked[k], ranked[j])
      BY <2>1, <2>2, <2>3, <3>1 DEF IsRanking
    <3>3. QED
      BY <2>3, <3>2
  <2>6. Finished(d)
    BY <1>2, <2>2 DEF IInv, RunsInv, Combos
  <2>7. /\ Finished(ranked[k]) /\ ranked[k] \in Combos
        /\ cand[k].combo = ranked[k] /\ cand[k].objective = objective[ranked[k]]
    BY <1>2, <2>1, ListedIsFinished
  <2>8. objective[d] \in Int /\ objective[ranked[k]] \in Int /\ run[d].portfolio = objective[d]
    BY <2>6, <2>7, JobAssumption DEF Finished, JobAssumption
  <2>9. QED
    BY <2>5, <2>7, <2>8 DEF Before, Combos
<1>3. IInv => VisibleRankingIsFinal
  BY <1>1, <1>2 DEF VisibleRankingIsFinal
<1>4. QED
  BY <1>3, Inductive, PTL

(* Runs are executed one after the other, in grid order. *)
THEOREM RunsAreSequential == Spec => []OneRunAtATime
<1>1. IInv => OneRunAtATime
  BY DEF IInv, TypeOK, RunsInv, Finished, OneRunAtATime, Combos
<1>2. QED
  BY <1>1, Inductive, PTL

(* The counter on the job row counts finished runs, at most an interval late. *)
THEOREM ProgressCountsRuns == Spec => []ProgressIsHonest
<1>1. IInv => ProgressIsHonest
  <2> SUFFICES ASSUME IInv PROVE ProgressIsHonest
    OBVIOUS
  <2>1. completed \in 0 .. Total
    BY DEF IInv, TypeOK
  <2>2. Successes = 1 .. completed
    BY <2>1, JobAssumption DEF IInv, RunsInv, Finished, Successes, Combos, JobAssumption
  <2>3. Cardinality(1 .. completed) = completed
    BY <2>1, FS_Interval
  <2>4. QED
    BY <2>2, <2>3 DEF IInv, ProgressInv, ProgressIsHonest
<1>2. QED
  BY <1>1, Inductive, PTL

(* The ranking of a job that failed or died is one of all its runs. *)
THEOREM RankingsCoverTheGrid == Spec => []RankingCoversAllRuns
<1>1. IInv => RankingCoversAllRuns
  <2> SUFFICES ASSUME IInv PROVE RankingCoversAllRuns
    OBVIOUS
  <2>1. listed \in 0 .. Total /\ completed \in 0 .. Total
        /\ Listed = {k \in Combos : k <= listed}
    BY ListedIsPrefix DEF IInv, TypeOK
  <2>2. ASSUME Listed # {} PROVE Successes = Combos /\ job.completed = Total
    <3>1. listed > 0
      BY <2>1, <2>2 DEF Combos
    <3>2. completed = Total /\ job.completed = Total
      BY <3>1 DEF IInv, CandInv
    <3>3. \A c \in Combos : c <= completed
      BY <3>2, JobAssumption DEF Combos, JobAssumption
    <3> QED
      BY <3>2, <3>3 DEF IInv, RunsInv, Finished, Successes
  <2>3. ASSUME NEW k \in Listed PROVE cand[k].objective = run[cand[k].combo].portfolio
    BY <2>1, ListedIsFinished DEF Finished
  <2>4. ASSUME job.summary # None
        PROVE  Listed = Combos /\ \A k \in Top : job.summary[k] = cand[k].combo
    <3>1. listed = Total /\ \A k \in Top : job.summary[k] = ranked[k]
      BY <2>4 DEF IInv, CandInv
    <3>2. Listed = Combos /\ \A k \in Combos : k <= listed
      BY <2>1, <3>1, JobAssumption DEF Combos, JobAssumption
    <3>3. Top \subseteq Combos
      BY JobAssumption DEF Top, Combos, JobAssumption
    <3> QED
      BY <3>1, <3>2, <3>3, ListedIsFinished
  <2> QED
    BY <2>2, <2>3, <2>4 DEF RankingCoversAllRuns
<1>2. QED
  BY <1>1, Inductive, PTL

(* Nothing a closed job owns changes any more. *)
THEOREM ClosedJobIsFrozen == Spec => TerminalIsFinal
<1>1. IInv /\ [Next]_vars => [job.status \in {"success", "failed"} => UNCHANGED rows]_vars
  <2> SUFFICES ASSUME IInv, [Next]_vars, job.status \in {"success", "failed"}
               PROVE  UNCHANGED rows
    OBVIOUS
  <2>1. pc = "ended"
    BY DEF IInv, StatusInv
  <2>2. \/ UNCHANGED vars
        \/ \E k \in Combos : SavePreset(k)
    BY <2>1 DEF Next, Runner, InTry, CreateJob, StartJob, PrepareInput, CreateRun, MarkRunRunning,
                StoreTrades, StoreSymbolMetrics, StorePortfolioMetrics, MarkRunSuccess,
                SetProgress, Rank, AddCandidate, SetResultSummary, CloseJob, MarkJobFailed,
                HandlerRaises, RaiseAppError, RaiseDbError, RaiseConnectionError, Crash
  <2>3. QED
    BY <2>2 DEF SavePreset, vars, rows
<1>2. QED
  BY <1>1, Inductive, PTL DEF Spec, TerminalIsFinal

(* A finished run and a published candidate are never rewritten. *)
THEOREM PublishedRowsStay == Spec => PublishedRowsAreFrozen
<1>1. ASSUME IInv, [Next]_vars, NEW c \in Successes
      PROVE  run'[c] = run[c]
  <2>1. c \in Combos /\ c <= completed /\ c # cur /\ run[c].status = "success"
    BY <1>1 DEF IInv, TypeOK, RunsInv, Successes, Combos, cur
  <2>2. CASE UNCHANGED run
    BY <2>2
  <2>3. CASE \/ CreateRun \/ MarkRunRunning \/ StoreTrades \/ StoreSymbolMetrics \/ MarkRunSuccess
             \/ \E v \in Objectives : StorePortfolioMetrics(v)
    BY <1>1, <2>1, <2>3 DEF IInv, TypeOK, CreateRun, MarkRunRunning, StoreTrades, StoreSymbolMetrics,
       MarkRunSuccess, StorePortfolioMetrics
  <2>4. UNCHANGED run \/ CreateRun \/ MarkRunRunning \/ StoreTrades \/ StoreSymbolMetrics
        \/ MarkRunSuccess \/ \E v \in Objectives : StorePortfolioMetrics(v)
    BY <1>1 DEF Next, Runner, vars, rows, CreateJob, StartJob, PrepareInput, SetProgress, Rank,
       AddCandidate, SetResultSummary, CloseJob, MarkJobFailed, HandlerRaises, RaiseAppError,
       RaiseDbError, RaiseConnectionError, Crash, SavePreset
  <2>5. QED
    BY <2>2, <2>3, <2>4
<1>2. ASSUME IInv, [Next]_vars, NEW k \in Listed
      PROVE  cand'[k] = cand[k]
  <2>1. k \in Combos /\ k # listed + 1
    BY <1>2, ListedIsPrefix DEF IInv, TypeOK, Combos
  <2>2. UNCHANGED cand \/ AddCandidate
    BY <1>2 DEF Next, Runner, vars, rows, CreateJob, StartJob, PrepareInput, SetProgress, Rank,
       CreateRun, MarkRunRunning, StoreTrades, StoreSymbolMetrics, MarkRunSuccess, StorePortfolioMetrics,
       SetResultSummary, CloseJob, MarkJobFailed, HandlerRaises, RaiseAppError,
       RaiseDbError, RaiseConnectionError, Crash, SavePreset
  <2>3. QED
    BY <1>2, <2>1, <2>2 DEF AddCandidate, IInv, TypeOK
<1>3. IInv /\ [Next]_vars => [/\ \A c \in Successes : run'[c] = run[c]
                             /\ \A k \in Listed : cand'[k] = cand[k]]_vars
  BY <1>1, <1>2
<1>4. QED
  BY <1>3, Inductive, PTL DEF Spec, PublishedRowsAreFrozen

(* OptimizationJob implements JobLifecycle, step by step. *)
THEOREM JobImplementsLifecycle == Spec => ImplementsLifecycle
<1>1. Init => Lifecycle!Init
  BY DEF Init, Lifecycle!Init
<1>2. ASSUME IInv, [Next]_vars PROVE [Lifecycle!Next]_(Lifecycle!lvars)
  <2>1. CASE \E desc \in BOOLEAN : CreateJob(desc)
    BY <1>2, <2>1 DEF IInv, TypeOK, StatusInv, CreateJob, Lifecycle!Next, Lifecycle!Accept
  <2>2. CASE StartJob
    BY <1>2, <2>2 DEF IInv, TypeOK, StatusInv, StartJob, Lifecycle!Next, Lifecycle!Begin
  <2>3. CASE SetProgress
    BY <1>2, <2>3 DEF IInv, TypeOK, StatusInv, ProgressInv, SetProgress, InTry, Lifecycle!Next, Lifecycle!Advance, Lifecycle!lvars
  <2>4. CASE SetResultSummary
    BY <1>2, <2>4 DEF IInv, TypeOK, StatusInv, SetResultSummary, InTry, Lifecycle!lvars
  <2>5. CASE MarkJobFailed
    BY <1>2, <2>5 DEF IInv, TypeOK, StatusInv, MarkJobFailed, Lifecycle!Next, Lifecycle!Fail
  <2>6. CASE CloseJob
    <3>1. /\ pc = "close" /\ job.status = "running" /\ job.completed = Total /\ listed = Total /\ IsRanking
          /\ job'.status = "success" /\ job'.descending = job.descending
          /\ job'.completed = job.completed /\ cand' = cand
      BY <1>2, <2>6 DEF IInv, TypeOK, StatusInv, ProgressInv, CandInv, CloseJob, InTry
    <3>2. \A k \in Combos : k <= listed
      BY <3>1, JobAssumption DEF Combos, JobAssumption
    <3>3. \A k \in Combos : cand[k] = [combo |-> ranked[k], objective |-> objective[ranked[k]]]
      BY <1>2, <3>2 DEF IInv, CandInv
    <3>4. \A k \in Combos : cand[k].combo = ranked[k] /\ cand[k].objective = objective[ranked[k]]
      BY <1>2, <3>2, ListedIsFinished
    <3>5. objective \in [Combos -> Objectives]
      <4>1. completed = Total
        BY <1>2, <3>1 DEF IInv, TypeOK, CandInv, ProgressInv
      <4>2. ASSUME NEW c \in Combos PROVE objective[c] \in Objectives
        <5>1. c <= completed
          BY <3>2, <4>1, <3>1
        <5> QED BY <1>2, <5>1 DEF IInv, RunsInv, Finished
      <4>3. DOMAIN objective = Combos /\ objective = [c \in Combos |-> objective[c]]
        BY <1>2 DEF IInv, TypeOK
      <4> QED BY <4>2, <4>3
    <3>6. cand \in Lifecycle!CompleteRankings
      <4>1. cand \in [Combos -> [combo : Combos, objective : Objectives]]
        BY <1>2, <3>1, <3>3, <3>5 DEF IInv, TypeOK, IsRanking
      <4>2. \A c \in Combos : \E k \in Combos : cand[k].combo = c
        BY <3>1, <3>4 DEF IsRanking
      <4>3. QED
        BY <4>1, <4>2 DEF Lifecycle!CompleteRankings, Lifecycle!Places, Combos
    <3>7. Lifecycle!InOrder(job.descending, cand)
      <4>1. SUFFICES ASSUME NEW i \in Combos, NEW j \in Combos, i < j
                     PROVE  \/ IF job.descending THEN cand[i].objective > cand[j].objective
                                                 ELSE cand[i].objective < cand[j].objective
                            \/ cand[i].objective = cand[j].objective /\ cand[i].combo < cand[j].combo
        BY DEF Lifecycle!InOrder, Lifecycle!Places, Combos
      <4>2. Before(objective, ranked[i], ranked[j])
        BY <3>1, <4>1 DEF IsRanking
      <4>3. /\ cand[i].combo = ranked[i] /\ cand[i].objective = objective[ranked[i]]
            /\ cand[j].combo = ranked[j] /\ cand[j].objective = objective[ranked[j]]
        BY <3>4, <4>1
      <4>4. QED
        BY <4>2, <4>3 DEF Before
    <3>8. QED
      BY <3>1, <3>6, <3>7 DEF Lifecycle!Next, Lifecycle!Publish
  <2>7. CASE AddCandidate
    BY <1>2, <2>7 DEF IInv, TypeOK, StatusInv, AddCandidate, InTry, Lifecycle!lvars
  <2>8. CASE UNCHANGED <<job, cand>>
    BY <2>8 DEF Lifecycle!lvars
  <2>9. \/ UNCHANGED <<job, cand>> \/ AddCandidate \/ CloseJob \/ MarkJobFailed \/ SetResultSummary
        \/ SetProgress \/ StartJob \/ \E desc \in BOOLEAN : CreateJob(desc)
    BY <1>2 DEF Next, Runner, vars, rows, PrepareInput, Rank,
       CreateRun, MarkRunRunning, StoreTrades, StoreSymbolMetrics, StorePortfolioMetrics,
       MarkRunSuccess, HandlerRaises, RaiseAppError, RaiseDbError, RaiseConnectionError, Crash, SavePreset
  <2>10. QED
    BY <2>1, <2>2, <2>3, <2>4, <2>5, <2>6, <2>7, <2>8, <2>9
<1>3. QED
  BY <1>1, <1>2, Inductive, PTL DEF Spec, ImplementsLifecycle, Lifecycle!Spec

-----------------------------------------------------------------------------
(* The page.                                                               *)
\* An answer is at most as far as the job is now.
Honest(a) ==
  /\ a.job # None => /\ a.job.completed <= job.completed
                     /\ a.job.status \in Terminal => a.job.status = job.status
  /\ a.candidates # None => a.candidates <= listed

PageInv ==
  /\ IInv /\ PageTypeOK
  /\ Honest(shown)
  /\ \A l \in Loads : load[l] # None => Honest(load[l]) /\ opened
  /\ opened => job.status # "absent"

(* The candidate request counts the candidates the runner has added. *)
LEMMA ListedCounts == IInv => Cardinality(Listed) = listed /\ listed \in 0 .. Total
<1> SUFFICES ASSUME IInv PROVE Cardinality(Listed) = listed /\ listed \in 0 .. Total
  OBVIOUS
<1>1. listed \in 0 .. Total /\ Total \in Nat
  BY JobAssumption DEF IInv, TypeOK, JobAssumption
<1>2. Listed = {k \in 1 .. Total : k <= listed}
  BY ListedIsPrefix DEF Combos
<1>3. Listed = 1 .. listed
  BY <1>1, <1>2
<1> QED
  BY <1>1, <1>3, FS_Interval

(* A job only ever moves forward: its counter and its list of candidates   *)
(* never shrink, and a terminal status stays.                              *)
LEMMA JobMovesForward ==
  ASSUME IInv, [Next]_vars
  PROVE  /\ job.completed <= job'.completed /\ listed <= listed'
         /\ job.status \in Terminal => job'.status = job.status
<1>1. job.completed \in Nat /\ completed \in Nat /\ listed \in Nat /\ job.completed <= completed
  BY JobAssumption DEF IInv, TypeOK, ProgressInv, JobAssumption
<1>2. job.status \in Terminal => pc = "ended"
  BY DEF IInv, StatusInv, Terminal
<1>3. CASE SetProgress
  BY <1>1, <1>2, <1>3 DEF SetProgress, IInv, TypeOK, memory
<1>4. CASE \E desc \in BOOLEAN : CreateJob(desc)
  BY <1>1, <1>2, <1>4 DEF CreateJob, IInv, TypeOK, memory
<1>5. CASE StartJob \/ SetResultSummary \/ CloseJob \/ MarkJobFailed
  BY <1>1, <1>2, <1>5 DEF StartJob, SetResultSummary, CloseJob, MarkJobFailed, IInv, TypeOK, memory
<1>6. CASE AddCandidate
  BY <1>1, <1>6 DEF AddCandidate
<1>7. CASE UNCHANGED <<job, listed>>
  BY <1>1, <1>7
<1>8. \/ SetProgress \/ (\E desc \in BOOLEAN : CreateJob(desc))
      \/ StartJob \/ SetResultSummary \/ CloseJob \/ MarkJobFailed
      \/ AddCandidate \/ UNCHANGED <<job, listed>>
  BY DEF Next, Runner, vars, rows, memory, PrepareInput, CreateRun, MarkRunRunning, StoreTrades,
     StoreSymbolMetrics, StorePortfolioMetrics, MarkRunSuccess, Rank, HandlerRaises,
     RaiseAppError, RaiseDbError, RaiseConnectionError, Crash, SavePreset
<1> QED
  BY <1>3, <1>4, <1>5, <1>6, <1>7, <1>8

(* An honest answer stays honest while the job goes on. *)
LEMMA HonestStays ==
  ASSUME IInv, IInv', [Next]_vars, NEW a \in Answers, Honest(a)
  PROVE  Honest(a)'
<1>1. /\ a.job # None => a.job.completed \in Nat
      /\ a.candidates # None => a.candidates \in Nat
  BY JobAssumption DEF Answers, JobView, JobAssumption
<1>2. /\ job.completed \in Nat /\ job'.completed \in Nat /\ listed \in Nat /\ listed' \in Nat
  BY JobAssumption DEF IInv, TypeOK, JobAssumption
<1> QED
  BY <1>1, <1>2, JobMovesForward DEF Honest

(* A new load has no answer yet. *)
LEMMA StartIsHonest == Honest(Nothing) /\ Nothing \in Answers /\ None \notin Answers
  BY NoAnswerAssumption DEF Honest, Nothing, Answers

(* The job as the server answers it, and the number of candidates. *)
LEMMA AnswersAreHonest ==
  ASSUME PageInv, NEW l \in Loads, load[l] # None
  PROVE  /\ LET a == [load[l] EXCEPT !.job = [status |-> job.status, completed |-> job.completed]]
            IN  a \in Answers /\ Honest(a)
         /\ LET a == [load[l] EXCEPT !.candidates = ListedWithinLimit]
            IN  a \in Answers /\ Honest(a)
<1>1. load[l] \in Answers /\ Honest(load[l]) /\ job.status # "absent"
  BY DEF PageInv, PageTypeOK
<1>2. /\ job.status \in {"absent", "pending", "running", "success", "failed"}
      /\ job.completed \in 0 .. Total
  BY DEF PageInv, IInv, TypeOK
<1>3. Cardinality(Listed) = listed /\ listed \in 0 .. Total
  BY ListedCounts DEF PageInv
<1>4. [status |-> job.status, completed |-> job.completed] \in JobView
  BY <1>1, <1>2 DEF JobView
<1>5. ListedWithinLimit \in 0 .. Total /\ ListedWithinLimit <= listed
  BY <1>3, JobAssumption, PageAssumption DEF ListedWithinLimit, JobAssumption, PageAssumption
<1> QED
  BY <1>1, <1>2, <1>4, <1>5, JobAssumption DEF Answers, Honest, JobAssumption

LEMMA PageInitInv == PageInit => PageInv
<1> SUFFICES ASSUME PageInit PROVE PageInv
  OBVIOUS
<1>1. IInv
  BY InitInv DEF PageInit
<1>2. PageTypeOK
  <2>1. Nothing \in Answers /\ Nothing.job = None /\ Nothing.candidates = None
    BY StartIsHonest DEF Nothing
  <2>2. failures \in 0 .. MaxFailures
    BY PageAssumption DEF PageInit, PageAssumption
  <2>3. load \in [Loads -> Answers \cup {None}]
    BY DEF PageInit
  <2> QED
    BY <2>1, <2>2, <2>3 DEF PageInit, PageTypeOK
<1> QED
  BY <1>1, <1>2, StartIsHonest DEF PageInit, PageInv

(* The job moves on, the page does nothing. *)
LEMMA JobStep ==
  ASSUME PageInv, IInv', [Next]_vars, UNCHANGED pageVars
  PROVE  PageInv'
<1>1. PageTypeOK'
  BY DEF PageInv, PageTypeOK, pageVars
<1>2. Honest(shown)'
  BY HonestStays DEF PageInv, PageTypeOK, pageVars, Honest
<1>3. ASSUME NEW l \in Loads, load[l] # None PROVE Honest(load[l])'
  <2>1. load[l] \in Answers /\ Honest(load[l])
    BY <1>3 DEF PageInv, PageTypeOK
  <2> QED
    BY <2>1, HonestStays DEF PageInv, pageVars, Honest
<1>4. opened => job'.status # "absent"
  <2>1. opened => job.status # "absent"
    BY DEF PageInv
  <2>2. job'.status = "absent" => job.status = "absent"
    BY DEF Next, Runner, vars, rows, CreateJob, StartJob, PrepareInput, CreateRun, MarkRunRunning,
       StoreTrades, StoreSymbolMetrics, StorePortfolioMetrics, MarkRunSuccess, SetProgress, Rank,
       AddCandidate, SetResultSummary, CloseJob, MarkJobFailed, HandlerRaises, RaiseAppError,
       RaiseDbError, RaiseConnectionError, Crash, SavePreset, PageInv, IInv, TypeOK, StatusInv
  <2> QED
    BY <2>1, <2>2
<1> QED
  BY <1>1, <1>2, <1>3, <1>4 DEF PageInv, pageVars

(* The page acts on an honest state. *)
LEMMA PageStep ==
  ASSUME PageInv, Page, UNCHANGED vars
  PROVE  PageInv'
<1>1. IInv' /\ \A a : Honest(a)' <=> Honest(a)
  BY DEF PageInv, IInv, TypeOK, RunsInv, ProgressInv, CandInv, StatusInv, vars, rows, memory,
     Finished, IsRanking, Before, cur, Honest
<1>2. ASSUME StartLoad, UNCHANGED <<shown, failures>>, opened' = TRUE, job.status # "absent"
      PROVE  PageInv'
  <2>1. PageTypeOK'
    BY <1>2, StartIsHonest DEF StartLoad, PageInv, PageTypeOK
  <2>2. \A l \in Loads : load'[l] # None => load'[l] = Nothing \/ load'[l] = load[l]
    BY <1>2 DEF StartLoad, PageInv, PageTypeOK
  <2>3. job'.status # "absent"
    BY <1>2 DEF vars, rows
  <2> QED
    BY <1>1, <1>2, <2>1, <2>2, <2>3, StartIsHonest DEF PageInv
<1>3. CASE OpenPage \/ Poll \/ Refresh
  BY <1>2, <1>3 DEF OpenPage, Poll, Refresh, PageInv
<1>4. ASSUME NEW l \in Loads, AnswerJob(l) \/ AnswerCandidates(l) PROVE PageInv'
  <2>1. /\ UNCHANGED <<opened, shown, err, failures>> /\ load[l] # None
        /\ \E a \in Answers : Honest(a) /\ load' = [load EXCEPT ![l] = a]
    BY <1>4, AnswersAreHonest DEF AnswerJob, AnswerCandidates, PageInv, PageTypeOK
  <2>2. PICK a \in Answers : Honest(a) /\ load' = [load EXCEPT ![l] = a]
    BY <2>1
  <2>3. PageTypeOK'
    BY <2>1, <2>2 DEF PageInv, PageTypeOK
  <2>4. \A m \in Loads : load'[m] = a \/ load'[m] = load[m]
    BY <2>2 DEF PageInv, PageTypeOK
  <2>5. opened /\ opened' = opened /\ shown' = shown /\ job' = job
    BY <1>4, <2>1 DEF PageInv, vars, rows
  <2> QED
    BY <1>1, <2>2, <2>3, <2>4, <2>5 DEF PageInv
<1>5. ASSUME NEW l \in Loads, ShowLoad(l) PROVE PageInv'
  <2>1. load[l] \in Answers /\ Honest(load[l])
    BY <1>5 DEF ShowLoad, PageInv, PageTypeOK
  <2>2. PageTypeOK'
    BY <1>5, <2>1 DEF ShowLoad, PageInv, PageTypeOK
  <2>3. \A m \in Loads : load'[m] # None => load'[m] = load[m]
    BY <1>5 DEF ShowLoad, PageInv, PageTypeOK
  <2> QED
    BY <1>1, <1>5, <2>1, <2>2, <2>3 DEF ShowLoad, PageInv, vars, rows
<1>6. ASSUME NEW l \in Loads, LoadFails(l) PROVE PageInv'
  <2>1. PageTypeOK'
    BY <1>6, PageAssumption DEF LoadFails, PageInv, PageTypeOK, PageAssumption
  <2>2. \A m \in Loads : load'[m] # None => load'[m] = load[m]
    BY <1>6 DEF LoadFails, PageInv, PageTypeOK
  <2> QED
    BY <1>1, <1>6, <2>1, <2>2 DEF LoadFails, PageInv, vars, rows
<1> QED
  BY <1>3, <1>4, <1>5, <1>6 DEF Page

-----------------------------------------------------------------------------
(* The invariant of the job and the page together. *)
THEOREM PageInductive == PageSpec => []PageInv
<1>1. PageInv /\ [PageNext]_allVars => PageInv'
  <2> SUFFICES ASSUME PageInv, [PageNext]_allVars PROVE PageInv'
    OBVIOUS
  <2>1. CASE [Next]_vars /\ UNCHANGED pageVars
    <3>1. IInv'
      BY <2>1, TypeStep, RunsStep, ProgressStep, CandStep, StatusStep DEF IInv, PageInv
    <3> QED
      BY <2>1, <3>1, JobStep
  <2>2. CASE Page /\ UNCHANGED vars
    BY <2>2, PageStep
  <2> QED
    BY <2>1, <2>2 DEF PageNext, allVars
<1> QED
  BY <1>1, PageInitInv, PTL DEF PageSpec

(* What the page shows and what is on its way hold values of their type,   *)
(* and what is shown comes from one whole load.                            *)
THEOREM PageTypeCorrect == PageSpec => []PageTypeOK
<1>1. PageInv => PageTypeOK
  BY DEF PageInv
<1> QED
  BY <1>1, PageInductive, PTL

(* However many loads overlap, are overtaken or fail, the page never shows *)
(* more than the database holds, and a terminal status is the job's own.   *)
THEOREM PageShowsThePast == PageSpec => []PageNeverAhead
<1>1. PageInv => PageNeverAhead
  <2> SUFFICES ASSUME PageInv, shown.job # None PROVE PageNeverAhead
    BY DEF PageNeverAhead
  <2>1. shown.candidates # None /\ Honest(shown) /\ IInv
    BY DEF PageInv, PageTypeOK
  <2> QED
    BY <2>1, ListedCounts DEF Honest, PageNeverAhead
<1> QED
  BY <1>1, PageInductive, PTL
=============================================================================
