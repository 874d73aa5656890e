----------------------------- MODULE MCAppBuilds -----------------------------
(***************************************************************************)
(* One session with one candidate slug, for TLC: the runner, the canceller *)
(* and the delivery loop of the same session, interleaved.                 *)
(***************************************************************************)
EXTENDS AppBuilds, TLC

CONSTANTS b1, base

OneSession == {b1}
OneSlug == {base}
OneOneCandidate == b1 :> <<base>>
=============================================================================
