---------------------------- MODULE JobLifecycle ----------------------------
(***************************************************************************)
(* What an optimization job promises to whoever polls it, without saying   *)
(* how: a status that only moves forward, a progress counter that only     *)
(* grows, and a ranking that appears all at once and complete when the job *)
(* becomes "success".  OptimizationJob implements this specification.      *)
(***************************************************************************)
EXTENDS Integers

CONSTANTS Total,       \* combinations to try
          Objectives   \* values the objective metric can take

VARIABLES status, descending, progress, ranking

lvars == <<status, descending, progress, ranking>>

Places == 1 .. Total

\* Every combination once, best first; equal values in grid order.
CompleteRankings ==
  {r \in [Places -> [combo : Places, objective : Objectives]] :
     \A c \in Places : \E k \in Places : r[k].combo = c}

InOrder(desc, r) ==
  \A i, j \in Places : i < j =>
    \/ IF desc THEN r[i].objective > r[j].objective ELSE r[i].objective < r[j].objective
    \/ r[i].objective = r[j].objective /\ r[i].combo < r[j].combo

Init ==
  /\ status = "absent" /\ descending = FALSE
  /\ progress = 0
  /\ ranking = {}

Accept ==
  /\ status = "absent"
  /\ status' = "pending"
  /\ descending' \in BOOLEAN
  /\ UNCHANGED <<progress, ranking>>

Begin ==
  /\ status = "pending"
  /\ status' = "running"
  /\ UNCHANGED <<descending, progress, ranking>>

Advance ==
  /\ status = "running"
  /\ progress' \in (progress + 1) .. Total
  /\ UNCHANGED <<status, descending, ranking>>

Publish ==
  /\ status = "running" /\ progress = Total
  /\ status' = "success"
  /\ ranking' \in CompleteRankings /\ InOrder(descending, ranking')
  /\ UNCHANGED <<descending, progress>>

Fail ==
  /\ status = "running"
  /\ status' = "failed"
  /\ UNCHANGED <<descending, progress, ranking>>

Next == Accept \/ Begin \/ Advance \/ Publish \/ Fail

Spec == Init /\ [][Next]_lvars
=============================================================================
