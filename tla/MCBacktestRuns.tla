--------------------------- MODULE MCBacktestRuns ---------------------------
(* Two instruments; the broker gives both the same symbol, repeats a row    *)
(* inside a batch, or renames both, with a repetition across two batches and*)
(* a row without a symbol.                                                  *)
EXTENDS BacktestRuns, TLC

CONSTANTS A, B, C

Row(i, s) == [instrument |-> i, symbol |-> s]

SmallDumps ==
  {<<Row(2, A)>>, <<Row(1, C), Row(1, B)>>,
   <<Row(1, C), Row(2, B), Row(1, B), Row(1, None)>>}

SmallListing == [i \in {1, 2} |-> IF i = 1 THEN A ELSE B]

AnyThread == Permutations(Threads)
=============================================================================
