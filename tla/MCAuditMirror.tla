---------------------------- MODULE MCAuditMirror ----------------------------
(***************************************************************************)
(* An instance of AuditMirror for TLC: two replicas over one chain.        *)
(***************************************************************************)
EXTENDS AuditMirror

CONSTANTS p1, p2

OneDecision == {[tip |-> "other", verdict |-> "escalate"]}
=============================================================================
