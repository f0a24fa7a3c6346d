------------------------------ MODULE Fractions ------------------------------
(***************************************************************************)
(* Exact fractions <<numerator, denominator>> with a positive denominator. *)
(* They stand for the floating-point ratios of the backtester: the model   *)
(* keeps their order and their equality and leaves the rounding out.       *)
(***************************************************************************)
EXTENDS Integers

Zero == <<0, 1>>
One  == <<1, 1>>

Plus(a, b)   == <<a[1] * b[2] + b[1] * a[2], a[2] * b[2]>>
Minus(a, b)  == <<a[1] * b[2] - b[1] * a[2], a[2] * b[2]>>
Times(a, b)  == <<a[1] * b[1], a[2] * b[2]>>
Over(a, b)   == <<a[1] * b[2], a[2] * b[1]>>    \* b positive
AtMost(a, b) == a[1] * b[2] <= b[1] * a[2]
Same(a, b)   == a[1] * b[2] = b[1] * a[2]

Larger(a, b)  == IF AtMost(a, b) THEN b ELSE a
Smaller(a, b) == IF AtMost(a, b) THEN a ELSE b
=============================================================================
