------------------------------- MODULE Ordering -------------------------------
(* Sorting a set of numbers: the sequence that names each of them once, in *)
(* ascending order.                                                        *)
EXTENDS Integers, FiniteSets

Ascending(s) == \A i, j \in DOMAIN s : i < j => s[i] < s[j]

InOrder(S) == CHOOSE s \in [1 .. Cardinality(S) -> S] : Ascending(s)
=============================================================================
