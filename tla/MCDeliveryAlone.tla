------------------------- MODULE MCDeliveryAlone -------------------------
(***************************************************************************)
(* Two sessions whose rows any writer may move, for TLC.                   *)
(***************************************************************************)
EXTENDS DeliveryAlone, TLC

CONSTANTS b1, b2

TwoSessions == {b1, b2}
NoSlugs == {}
Symmetric == Permutations(TwoSessions)
=============================================================================
