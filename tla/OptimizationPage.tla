-------------------------- MODULE OptimizationPage --------------------------
(***************************************************************************)
(* The browser page that follows a job (OptimizationDetailPage): each load *)
(* sends two requests at once, one for the job and one for its candidates, *)
(* which the server answers in separate sessions at separate moments, and  *)
(* shows both when the second answer is in.  While the job it shows is     *)
(* open the page polls, whether or not an earlier load is still under way; *)
(* loads may therefore end out of order.                                   *)
(***************************************************************************)
EXTENDS OptimizationJob

CONSTANTS Loads,        \* loads that can be under way at the same time
          MaxFailures,  \* requests that may fail
          ListLimit     \* candidates the route lists at most (5000)

ASSUME PageAssumption == IsFiniteSet(Loads) /\ MaxFailures \in Nat /\ ListLimit \in Nat

VARIABLES opened,    \* the page is mounted
          shown,     \* what it shows: the job and the number of candidates
          load,      \* the answers each load has so far; None when it is not under way
          err,       \* the last load failed
          failures   \* requests that failed so far

pageVars == <<opened, shown, load, err, failures>>
allVars  == <<vars, pageVars>>

Terminal == {"success", "failed"}
JobView  == [status : {"pending", "running", "success", "failed"}, completed : 0 .. Total]
Nothing  == [job |-> None, candidates |-> None]
Answers  == [job : JobView \cup {None}, candidates : (0 .. Total) \cup {None}]

\* None is neither an answer nor a job that is shown.
ASSUME NoAnswerAssumption == None \notin JobView \cup Answers

PageInit ==
  /\ Init
  /\ opened = FALSE /\ err = FALSE
  /\ shown = Nothing
  /\ load = [l \in Loads |-> None]
  /\ failures = 0

StartLoad ==
  /\ \E l \in Loads : load[l] = None /\ load' = [load EXCEPT ![l] = Nothing]
  /\ err' = FALSE

(* useEffect(load, [id]) on mount. *)
OpenPage ==
  /\ ~opened /\ job.status # "absent"
  /\ opened' = TRUE
  /\ StartLoad
  /\ UNCHANGED <<shown, failures>>

\* MUTANT: the interval is only kept while the job is running.
PollMutRunningOnly ==
  /\ opened /\ shown.job # None
  /\ shown.job.status = "running"
  /\ StartLoad
  /\ UNCHANGED <<opened, shown, failures>>

(* The interval of 1500 ms, kept while the shown job is pending or running. *)
Poll ==
  /\ opened /\ shown.job # None
  /\ shown.job.status \notin Terminal
  /\ StartLoad
  /\ UNCHANGED <<opened, shown, failures>>

(* The Refresh button; the page that shows only an error has none. *)
Refresh ==
  /\ opened /\ (err => shown.job # None)
  /\ StartLoad
  /\ UNCHANGED <<opened, shown, failures>>

\* MUTANT: the route derives the status from the progress counter.
AnswerJobMutDerived(l) ==
  /\ load[l] # None /\ load[l].job = None
  /\ load' = [load EXCEPT ![l].job =
                [status |-> IF job.completed = Total THEN "success" ELSE job.status,
                 completed |-> job.completed]]
  /\ UNCHANGED <<opened, shown, err, failures>>

(* GET /optimizations/{id} *)
AnswerJob(l) ==
  /\ load[l] # None /\ load[l].job = None
  /\ load' = [load EXCEPT ![l].job = [status |-> job.status, completed |-> job.completed]]
  /\ UNCHANGED <<opened, shown, err, failures>>

(* list_candidates(job_id, limit=5000): the first ranks, no more than that. *)
ListedWithinLimit ==
  LET n == Cardinality(Listed) IN IF n < ListLimit THEN n ELSE ListLimit

(* GET /optimizations/{id}/candidates *)
AnswerCandidates(l) ==
  /\ load[l] # None /\ load[l].candidates = None
  /\ load' = [load EXCEPT ![l].candidates = ListedWithinLimit]
  /\ UNCHANGED <<opened, shown, err, failures>>

(* Promise.all resolves: both answers replace what is shown. *)
\* MUTANT: the job is shown as soon as it is there.
ShowLoadMutFirst(l) ==
  /\ load[l] # None /\ load[l].job # None
  /\ shown' = load[l]
  /\ load' = [load EXCEPT ![l] = None]
  /\ UNCHANGED <<opened, err, failures>>

ShowLoad(l) ==
  /\ load[l] # None /\ load[l].job # None /\ load[l].candidates # None
  /\ shown' = load[l]
  /\ load' = [load EXCEPT ![l] = None]
  /\ UNCHANGED <<opened, err, failures>>

(* Promise.all rejects on the first failed request; the shown data stays. *)
LoadFails(l) ==
  /\ load[l] # None /\ failures < MaxFailures
  /\ load' = [load EXCEPT ![l] = None]
  /\ err' = TRUE
  /\ failures' = failures + 1
  /\ UNCHANGED <<opened, shown>>

Page ==
  \/ OpenPage \/ Poll \/ Refresh
  \/ \E l \in Loads : AnswerJob(l) \/ AnswerCandidates(l) \/ ShowLoad(l) \/ LoadFails(l)

PageNext ==
  \/ Next /\ UNCHANGED pageVars
  \/ Page /\ UNCHANGED vars

PageSpec == PageInit /\ [][PageNext]_allVars

\* The runner is scheduled, the timer fires, the server answers, promises resolve.
\* Nothing is assumed of the user's clicks.
FairPageSpec ==
  /\ PageSpec
  /\ WF_allVars(Runner /\ UNCHANGED pageVars)
  /\ WF_allVars(Poll /\ UNCHANGED vars)
  /\ \A l \in Loads :
       WF_allVars((AnswerJob(l) \/ AnswerCandidates(l) \/ ShowLoad(l)) /\ UNCHANGED vars)

-----------------------------------------------------------------------------
(* Shown and pending answers hold values of their type, and what is shown  *)
(* comes from one whole load.                                              *)
PageTypeOK ==
  /\ opened \in BOOLEAN /\ err \in BOOLEAN
  /\ shown \in Answers /\ (shown.job = None <=> shown.candidates = None)
  /\ load \in [Loads -> Answers \cup {None}]
  /\ failures \in 0 .. MaxFailures

(* Whatever order the answers arrive in, the page never shows more than    *)
(* the database holds, and a terminal status on screen is the job's own.   *)
PageNeverAhead ==
  shown.job # None =>
    /\ shown.job.completed <= job.completed
    /\ shown.candidates <= Cardinality(Listed)
    /\ shown.job.status \in Terminal => shown.job.status = job.status

(* A page that has loaded once ends up showing the job's terminal status,  *)
(* even if polls overlap, are overtaken by older ones or fail.             *)
PageConverges ==
  (job.status \in Terminal /\ shown.job # None) ~> (shown.job # None /\ shown.job.status = job.status)

(* FINDING: a page that stopped polling on "success" shows every candidate. *)
SettledPageIsComplete ==
  (/\ shown.job # None /\ shown.job.status = "success"
   /\ \A l \in Loads : load[l] = None) => shown.candidates = Total
=============================================================================
