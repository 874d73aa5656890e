-------------------------- MODULE MCSandboxDeployer --------------------------
(***************************************************************************)
(* One session with one candidate slug, for TLC.                           *)
(***************************************************************************)
EXTENDS SandboxDeployer, TLC

CONSTANTS b1, base

OneSession == {b1}
OneSlug == {base}
OneCandidate == b1 :> <<base>>
=============================================================================
