---------------------------- MODULE MCBuildRunner ----------------------------
(***************************************************************************)
(* Two sessions of the same name (one shared base slug, one suffixed slug  *)
(* of their own each) and a foreign owner, for TLC.                        *)
(***************************************************************************)
EXTENDS BuildRunner, TLC

CONSTANTS b1, b2, base, own1, own2

TwoSessions == {b1, b2}
ThreeSlugs == {base, own1, own2}
TwoCandidates == b1 :> <<base, own1>> @@ b2 :> <<base, own2>>

OneSession == {b1}
TwoSlugs == {base, own1}
OneTwoCandidates == b1 :> <<base, own1>>
=============================================================================
