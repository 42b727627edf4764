---------------------------- MODULE MCBuildCache ----------------------------
(* Two builds and a repair.                                                  *)
EXTENDS BuildCache
CONSTANTS B1, B2
TwoBuilds == {B1, B2}
=============================================================================
