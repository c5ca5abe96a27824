---------------------------- MODULE MCModelBudget ----------------------------
(***************************************************************************)
(* An instance of ModelBudget for TLC: three calls against a ceiling that  *)
(* not all of them fit under.                                              *)
(***************************************************************************)
EXTENDS ModelBudget, TLC

CONSTANTS c1, c2, c3

ThreeCalls == {c1, c2, c3}
Symmetric == Permutations(ThreeCalls)
=============================================================================
