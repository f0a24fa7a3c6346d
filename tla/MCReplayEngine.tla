---------------------------- MODULE MCReplayEngine ----------------------------
(* A small market for ReplayEngine: a calm bar, a wide bar with each choice  *)
(* of levels (the stop exactly at its low, the target exactly at its high),  *)
(* and a bar that opens below a stop, each with every pair of signals.       *)
EXTENDS ReplayEngine

Shape(o, h, l, c, s, t) ==
  {[open |-> o, high |-> h, low |-> l, close |-> c, stop |-> s, target |-> t,
    enter |-> e, leave |-> x] : e, x \in BOOLEAN}

SmallMarket ==
  UNION {Shape(2, 3, 2, 3, 1, None), Shape(3, 4, 2, 3, 2, None), Shape(3, 4, 2, 2, None, 4),
         Shape(3, 4, 2, 3, 2, 4), Shape(2, 2, 1, 1, 3, None)}
=============================================================================
