------------------------------ MODULE MCRunLease ------------------------------
(***************************************************************************)
(* An instance of RunLease for TLC: one run, claimed, lost and taken over  *)
(* by two replicas that share the registry.                                *)
(***************************************************************************)
EXTENDS RunLease

CONSTANTS r1, p1, p2

OneRun == {r1}
TwoReplicas == {p1, p2}
=============================================================================
