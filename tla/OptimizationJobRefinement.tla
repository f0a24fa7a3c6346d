---------------------- MODULE OptimizationJobRefinement ----------------------
(* OptimizationJob implements JobLifecycle: the ranking a client may rely  *)
(* on is the candidate table once the status is "success".                 *)
EXTENDS OptimizationJob

Lifecycle == INSTANCE JobLifecycle WITH
  status     <- job.status,
  descending <- job.descending,
  progress   <- job.completed,
  ranking    <- IF job.status = "success" THEN cand ELSE {}

(* The rows a job writes one commit at a time give the poller an atomic,   *)
(* complete and correctly ordered result, whatever fails on the way.       *)
ImplementsLifecycle == Lifecycle!Spec
=============================================================================
