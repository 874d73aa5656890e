----------------------------- MODULE MCA2ATasks -----------------------------
(* Two requests, one of them short of a scope; threads and tool uses are   *)
(* interchangeable.                                                        *)
EXTENDS A2ATasks, TLC

CONSTANTS t1, t2, w1, w2, k1, k2

TwoTasks == {t1, t2}
TwoThreads == {w1, w2}
TwoTools == {k1, k2}
Short == {t2}
Symmetry == Permutations(TwoThreads) \cup Permutations(TwoTools)
=============================================================================
