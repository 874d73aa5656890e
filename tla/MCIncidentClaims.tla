-------------------------- MODULE MCIncidentClaims --------------------------
(***************************************************************************)
(* Dispatches and channels are interchangeable.                            *)
(***************************************************************************)
EXTENDS IncidentClaims, TLC

Symmetry == Permutations(Dispatches) \cup Permutations(Channels)
=============================================================================
