--------------------------- MODULE MCMissionRunner ---------------------------
(***************************************************************************)
(* An instance of MissionRunner for TLC: two assignments inside the        *)
(* mandate, one outside, plans that share an assignment.                   *)
(***************************************************************************)
EXTENDS MissionRunner

CONSTANTS a, b, x

SomePlans == {<<a>>, <<b, a>>, <<x>>}
=============================================================================
