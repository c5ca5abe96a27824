------------------------------ MODULE MCExecutor ------------------------------
(***************************************************************************)
(* Small instances of Executor: one unit, two owners, one mandate, two     *)
(* approvals and one observation key.                                      *)
(***************************************************************************)
EXTENDS Executor, TLC

CONSTANTS p1, p2, u1, o1, o2, m1, a1, a2, k1, h1, h2

\* An actuation of u1 that the operator approved.
Approved(key, owner, hash) ==
  [type |-> "ops.actuate", resource |-> u1, owner |-> owner, mandate |-> m1,
   key |-> key, hash |-> hash, static |-> TRUE,
   authentic |-> TRUE, origin |-> "operator", approved |-> hash]

\* An observation of the unit: it takes the same lease as an actuation.
Observes(owner) ==
  [type |-> "ops.observe", resource |-> u1, owner |-> owner, mandate |-> m1,
   key |-> k1, hash |-> h2, static |-> TRUE,
   authentic |-> TRUE, origin |-> "operator", approved |-> h2]

FromMemory(key, owner) == [Approved(key, owner, h1) EXCEPT !.origin = "memory"]
OtherAction(key, owner) == [Approved(key, owner, h1) EXCEPT !.hash = h2]
Malformed(key, owner) == [Approved(key, owner, h1) EXCEPT !.static = FALSE]

Pair(a, b) == p1 :> a @@ p2 :> b

\* A retry of one approval by another owner, two rivals, an owner who acts and
\* observes, an approval reused for another action, and a request the static
\* gates refuse beside an approval that came from memory.
Pairs ==
  {Pair(Approved(a1, o1, h1), Approved(a1, o2, h1)),
   Pair(Approved(a1, o1, h1), Approved(a2, o2, h1)),
   Pair(Approved(a1, o1, h1), Observes(o1)),
   Pair(Approved(a1, o1, h1), OtherAction(a1, o1)),
   Pair(Malformed(a2, o1), FromMemory(a1, o1))}
=============================================================================
