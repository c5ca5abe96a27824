---------------------------- MODULE MissionRunner ----------------------------
(***************************************************************************)
(* One mandated run: the attempts at it (runner.ts, started by the route   *)
(* or by recovery, both in routes.ts) and what they write to the mission   *)
(* fabric (mission/store.ts), from which the next attempt resumes.         *)
(*                                                                         *)
(* Every append is a step of its own: the process may die between two of   *)
(* them, and any of them may throw.  The fabric is modelled by the         *)
(* projections the runner reads back.  An attempt is a claim of the run's  *)
(* row, see RunLease; here the row keeps its status and last claim.        *)
(***************************************************************************)
EXTENDS Integers, Sequences, SequencesExt, Functions

CONSTANTS
  Assignments,  \* identifiers of planned work
  Permitted,    \* the assignments whose actions are all inside the mandate
  Plans,        \* the plans LangGraph may return
  MaxPlan,      \* the length storedPlan() and the adapter accept (25)
  MaxCost,      \* max_cost_usd of the mandate
  Costs,        \* what a call to an adapter may cost
  MaxAttempts,  \* max_fix_cycles + 1
  Overlap       \* may a lease expire under a live attempt?

ASSUME PermittedAssumption == Permitted \subseteq Assignments

\* The LangGraph adapter refuses an empty, an overlong or an ambiguous plan.
ASSUME PlansAssumption ==
  /\ MaxPlan \in Nat
  /\ \A p \in Plans : p \in Seq(Assignments) /\ Len(p) \in 1 .. MaxPlan /\ IsInjective(p)
ASSUME CostsAssumption == MaxCost \in Nat /\ Costs \subseteq Nat
ASSUME AttemptsAssumption == MaxAttempts \in Nat \ {0}
ASSUME OverlapAssumption == Overlap \in BOOLEAN

Attempts == 1 .. MaxAttempts

VARIABLES
  cost,       \* fabric.runs[runId].cost_usd
  items,      \* items[i]: the plan-item checkpoints with index i, in log order
  planned,    \* the checkpoint <runId>-plan exists
  task,       \* fabric.tasks
  assured,    \* a checkpoint <runId>-victoria with verdict pass exists
  unhandled,  \* the failure <runId>-unhandled was recorded
  row,        \* the row of the run in the registry
  att,        \* att[e]: the e-th attempt
  spent,      \* history: what all calls made so far cost
  writer      \* history: the attempt that wrote the run's status last

fabric == <<cost, items, planned, task, assured, unhandled>>
vars == <<fabric, row, att, spent, writer>>

\* cost_usd when it is not an amount: null, missing from the run's projection,
\* and without any projection of the run.
Unknown == -1
Unset == -2
Absent == -3

Awaiting == {"planning", "await", "verify"}

\* Where runExecutiveMission() is between its first read and its return.
Inside == {"enter", "storing", "accepting", "planned", "loop", "pending", "completing",
           "settling", "verdict", "assuring", "terminal"} \cup Awaiting

NoAttempt == [kind |-> "route", pc |-> "none", stage |-> "openhands", cost |-> 0, bill |-> 0,
              plan |-> <<>>, at |-> 1, pass |-> FALSE, result |-> "failed", signals |-> {}]

\* An attempt: who started it, its place, the adapter it turns to, its subtotal,
\* history: what the call that is out costs; its plan and position, the verdict it
\* received, what it will return, and why its signals were aborted.
AttemptStates ==
  [kind: {"route", "recovery"},
   pc: {"none", "queue", "unhandled", "ending", "gone"} \cup Inside,
   stage: {"openhands", "codex", "assurance"},
   cost: {Unknown} \cup Nat, bill: Nat, plan: Seq(Assignments), at: Nat \ {0},
   pass: BOOLEAN, result: {"complete", "failed", "blocked"},
   signals: SUBSET {"cancelled", "expired"}]

Registry == [status: {"none", "running", "failed", "complete", "cancelled"},
             holder: 0 .. MaxAttempts, attempts: 0 .. MaxAttempts]

TypeOK ==
  /\ cost \in {Absent, Unset, Unknown} \cup Nat
  /\ items \in [1 .. MaxPlan -> Seq(Assignments)]
  /\ planned \in BOOLEAN /\ assured \in BOOLEAN /\ unhandled \in BOOLEAN
  /\ task \in [Assignments -> {"none", "executing", "complete"}]
  /\ row \in Registry
  /\ att \in [Attempts -> AttemptStates]
  /\ spent \in Nat
  /\ writer \in 0 .. MaxAttempts

Init ==
  /\ cost = Absent
  /\ items = [i \in 1 .. MaxPlan |-> <<>>]
  /\ planned = FALSE /\ assured = FALSE /\ unhandled = FALSE
  /\ task = [a \in Assignments |-> "none"]
  /\ row = [status |-> "none", holder |-> 0, attempts |-> 0]
  /\ att = [e \in Attempts |-> NoAttempt]
  /\ spent = 0 /\ writer = 0

-----------------------------------------------------------------------------
(***************************************************************************)
(* What the runner computes.                                               *)
(***************************************************************************)
addCost(current, additional) ==
  IF current = Unknown \/ additional = Unknown THEN Unknown ELSE current + additional

\* Mutant: a null subtotal in the fabric is read as zero.
persistedCost_Free == IF cost >= 0 THEN cost ELSE 0

\* The subtotal an attempt starts from.
persistedCost == IF cost >= 0 THEN cost ELSE IF cost = Absent THEN 0 ELSE Unknown

\* completedExecutionRun() finds a run to return.
completedExecutionRun == assured /\ cost >= 0 /\ cost <= MaxCost

planItems == FlattenSeq(items)

\* Mutant: a plan of the length that the adapter just accepts is not read back.
storedPlan_OffByOne ==
  IF /\ planned
     /\ planItems \in Seq(Assignments) /\ Len(planItems) \in 1 .. MaxPlan - 1
     /\ IsInjective(planItems)
  THEN planItems ELSE <<>>

\* The plan in the fabric, if every item is well-formed and no identifier
\* occurs twice; empty where the code has null.
storedPlan ==
  IF /\ planned
     /\ planItems \in Seq(Assignments) /\ Len(planItems) \in 1 .. MaxPlan
     /\ IsInjective(planItems)
  THEN planItems ELSE <<>>

Assignment(e) == att[e].plan[att[e].at]

At(e, pc) == att[e].pc = pc

Goto(e, pc) == att' = [att EXCEPT ![e].pc = pc]

\* return terminal(...): the status is still to be appended.
Stop(e, result) == att' = [att EXCEPT ![e].pc = "terminal", ![e].result = result]

\* The attempt's memory is gone; its plan is kept for the record.
Leave(e) == att' = [att EXCEPT ![e] = [NoAttempt EXCEPT !.pc = "gone", !.plan = att[e].plan]]

Return(e, result) == att' = [att EXCEPT ![e].pc = "ending", ![e].result = result]

\* append('run.status_changed') with this cost_usd.
emitStatus(e, amount) ==
  /\ cost' = amount
  /\ writer' = e

KeepFabric == UNCHANGED <<fabric, writer>>
KeepRun == UNCHANGED <<row, spent>>

-----------------------------------------------------------------------------
(***************************************************************************)
(* Starting an attempt.                                                    *)
(***************************************************************************)
Alive(e) == att[e].pc \notin {"none", "gone"}

\* claimAutomationRun() grants the run; the supervisor only looks for runs
\* whose holder is gone.
Claim(e, kind) ==
  /\ e = row.attempts + 1
  /\ row.status \in (IF kind = "route" THEN {"none", "running", "failed"} ELSE {"running"})
  /\ Overlap \/ \A d \in Attempts : ~Alive(d)
  /\ row' = [status |-> "running", holder |-> e, attempts |-> e]
  /\ att' = [att EXCEPT ![e].kind = kind, ![e].pc = "queue"]
  /\ KeepFabric /\ UNCHANGED spent

\* cost_usd after the status "queued": the route writes an amount unless the
\* fabric says null, recovery writes none.
queuedCost(kind) ==
  IF kind = "route" THEN IF cost \in {Absent, Unset} THEN 0 ELSE cost
                    ELSE IF cost = Absent THEN Unset ELSE cost

Queue(e) ==
  /\ At(e, "queue")
  /\ emitStatus(e, queuedCost(att[e].kind))
  /\ Goto(e, "enter")
  /\ UNCHANGED <<items, planned, task, assured, unhandled>> /\ KeepRun

\* The gates up to validateMandate(): returned without an append.
Refuse(e) ==
  /\ At(e, "enter")
  /\ Return(e, "blocked")
  /\ KeepFabric /\ KeepRun

AlreadyComplete(e) ==
  /\ At(e, "enter")
  /\ completedExecutionRun
  /\ Return(e, "complete")
  /\ KeepFabric /\ KeepRun

\* The mandate's checkpoint, the subtotal, the signal, the stored plan.
Enter(e) ==
  /\ At(e, "enter")
  /\ ~completedExecutionRun
  /\ att' = [att EXCEPT
       ![e].cost = persistedCost,
       ![e].plan = IF persistedCost = Unknown \/ "cancelled" \in att[e].signals THEN <<>> ELSE storedPlan,
       ![e].result = IF persistedCost = Unknown THEN "blocked" ELSE "failed",
       ![e].pc = IF persistedCost = Unknown \/ "cancelled" \in att[e].signals THEN "terminal"
                 ELSE IF storedPlan = <<>> THEN "planning" ELSE "planned"]
  /\ KeepFabric /\ KeepRun

-----------------------------------------------------------------------------
(***************************************************************************)
(* Planning.                                                               *)
(***************************************************************************)
Planned(e) ==
  /\ At(e, "planning")
  /\ \E p \in Plans : att' = [att EXCEPT ![e].pc = "storing", ![e].plan = p, ![e].at = 1]
  /\ KeepFabric /\ KeepRun

PlanningFails(e) ==
  /\ At(e, "planning")
  /\ Stop(e, "failed")
  /\ KeepFabric /\ KeepRun

\* One checkpoint per item.
StoreItem(e) ==
  /\ At(e, "storing")
  /\ items' = [items EXCEPT ![att[e].at] = Append(@, Assignment(e))]
  /\ att' = [att EXCEPT ![e].pc = IF att[e].at = Len(att[e].plan) THEN "accepting" ELSE "storing",
                        ![e].at = IF att[e].at = Len(att[e].plan) THEN 1 ELSE @ + 1]
  /\ UNCHANGED <<cost, planned, task, assured, unhandled, writer>> /\ KeepRun

StorePlan(e) ==
  /\ At(e, "accepting")
  /\ planned' = TRUE
  /\ Goto(e, "planned")
  /\ UNCHANGED <<cost, items, task, assured, unhandled, writer>> /\ KeepRun

BeginWork(e) ==
  /\ At(e, "planned")
  /\ emitStatus(e, att[e].cost)
  /\ Goto(e, "loop")
  /\ UNCHANGED <<items, planned, task, assured, unhandled>> /\ KeepRun

-----------------------------------------------------------------------------
(***************************************************************************)
(* The assignments, and the calls to the adapters.                         *)
(***************************************************************************)
Exhausted(e) == att[e].at > Len(att[e].plan)

\* Mutant: work that was only started counts as done.
Completed_Started(e) == task[Assignment(e)] # "none"

Completed(e) == task[Assignment(e)] = "complete"

spendable(e) == att[e].cost < MaxCost

SkipCompleted(e) ==
  /\ At(e, "loop") /\ ~Exhausted(e) /\ Completed(e)
  /\ att' = [att EXCEPT ![e].at = @ + 1]
  /\ KeepFabric /\ KeepRun

\* Cancelled, expired, nothing left to spend, or an action outside the mandate.
HaltWork(e) ==
  /\ At(e, "loop") /\ ~Exhausted(e) /\ ~Completed(e)
  /\ \/ (att[e].signals # {} \/ ~spendable(e)) /\ Stop(e, "failed")
     \/ /\ att[e].signals = {} /\ spendable(e) /\ Assignment(e) \notin Permitted
        /\ Stop(e, "blocked")
  /\ KeepFabric /\ KeepRun

StartTask(e) ==
  /\ At(e, "loop") /\ ~Exhausted(e) /\ ~Completed(e)
  /\ att[e].signals = {} /\ spendable(e) /\ Assignment(e) \in Permitted
  /\ task' = [task EXCEPT ![Assignment(e)] = "executing"]
  /\ att' = [att EXCEPT ![e].pc = "pending", ![e].stage = "openhands"]
  /\ UNCHANGED <<cost, items, planned, assured, unhandled, writer>> /\ KeepRun

\* Mutant: the known subtotal stays in the fabric while a call is out.
pendingCost_Subtotal(e) == att[e].cost

\* emitStatus({...run, cost_usd: null}, ..., 'unknown_pending_dispatch')
pendingCost(e) == Unknown

\* The call leaves.  What it will cost is settled outside.
Dispatch(e) ==
  /\ At(e, "pending")
  /\ emitStatus(e, pendingCost(e))
  /\ \E c \in Costs :
       /\ spent' = spent + c
       /\ att' = [att EXCEPT ![e].pc = "await", ![e].bill = c]
  /\ UNCHANGED <<items, planned, task, assured, unhandled, row>>

\* The adapter rejects; the error may carry the cost.
AdapterFails(e) ==
  /\ At(e, "await")
  /\ \E reported \in {att[e].bill, Unknown} :
       att' = [att EXCEPT ![e].cost = addCost(@, reported),
                          ![e].pc = "terminal", ![e].result = "failed"]
  /\ KeepFabric /\ KeepRun

\* A result without a usable cost ends the attempt.
AccountingUnknown(e) ==
  /\ At(e, "await")
  /\ att' = [att EXCEPT ![e].cost = addCost(@, Unknown),
                        ![e].pc = "terminal", ![e].result = "blocked"]
  /\ KeepFabric /\ KeepRun

withinLimit(amount) == amount <= MaxCost

\* OpenHands answers with a cost: go on only with ok and within the limit.
Executed(e) ==
  /\ At(e, "await") /\ att[e].stage = "openhands"
  /\ LET sum == addCost(att[e].cost, att[e].bill)
     IN \E ok \in BOOLEAN :
          att' = [att EXCEPT ![e].cost = sum,
                    ![e].pc = IF ok /\ withinLimit(sum) THEN "verify" ELSE "terminal",
                    ![e].result = "failed"]
  /\ KeepFabric /\ KeepRun

\* The post-execution verifier or the artifact collector and the tests.
Verified(e) ==
  /\ At(e, "verify")
  /\ Goto(e, "completing")
  /\ KeepFabric /\ KeepRun

VerificationFails(e) ==
  /\ At(e, "verify")
  /\ Stop(e, "failed")
  /\ KeepFabric /\ KeepRun

CompleteTask(e) ==
  /\ At(e, "completing")
  /\ task' = [task EXCEPT ![Assignment(e)] = "complete"]
  /\ Goto(e, "settling")
  /\ UNCHANGED <<cost, items, planned, assured, unhandled, writer>> /\ KeepRun

Settle(e) ==
  /\ At(e, "settling")
  /\ emitStatus(e, att[e].cost)
  /\ att' = [att EXCEPT ![e].pc = "loop", ![e].at = @ + 1]
  /\ UNCHANGED <<items, planned, task, assured, unhandled>> /\ KeepRun

-----------------------------------------------------------------------------
(***************************************************************************)
(* Codex and Victoria.                                                     *)
(***************************************************************************)
\* The status "verifying", the signal, the budget and the artifacts.
EnterVerification(e) ==
  /\ At(e, "loop") /\ Exhausted(e)
  /\ emitStatus(e, att[e].cost)
  /\ \/ /\ att[e].signals = {} /\ spendable(e)
        /\ att' = [att EXCEPT ![e].pc = "pending", ![e].stage = "codex"]
     \/ Stop(e, "failed")
  /\ UNCHANGED <<items, planned, task, assured, unhandled>> /\ KeepRun

\* Codex or Victoria answers with a cost.
Verdict(e) ==
  /\ At(e, "await") /\ att[e].stage # "openhands"
  /\ \E pass \in BOOLEAN :
       att' = [att EXCEPT ![e].cost = addCost(@, att[e].bill),
                          ![e].pc = "verdict", ![e].pass = pass]
  /\ KeepFabric /\ KeepRun

accepted(e) == att[e].pass /\ withinLimit(att[e].cost)

\* The checkpoint with the verdict, then what follows from it.
RecordVerdict(e) ==
  /\ At(e, "verdict")
  /\ assured' = (assured \/ (att[e].stage = "assurance" /\ att[e].pass))
  /\ att' = [att EXCEPT
       ![e].pc = IF accepted(e) /\ att[e].stage = "codex" THEN "assuring" ELSE "terminal",
       ![e].result = IF accepted(e) /\ att[e].stage = "assurance" THEN "complete" ELSE "failed"]
  /\ UNCHANGED <<cost, items, planned, task, unhandled, writer>> /\ KeepRun

\* The status "assuring" and the deadline; a cancellation is not looked at.
EnterAssurance(e) ==
  /\ At(e, "assuring")
  /\ emitStatus(e, att[e].cost)
  /\ att' = [att EXCEPT ![e].stage = "assurance",
                        ![e].pc = IF "expired" \in att[e].signals THEN "terminal" ELSE "pending"]
  /\ UNCHANGED <<items, planned, task, assured, unhandled>> /\ KeepRun

-----------------------------------------------------------------------------
(***************************************************************************)
(* The end of an attempt.                                                  *)
(***************************************************************************)
\* terminal(): the status with its subtotal.
Terminal(e) ==
  /\ At(e, "terminal")
  /\ emitStatus(e, att[e].cost)
  /\ Goto(e, "ending")
  /\ UNCHANGED <<items, planned, task, assured, unhandled>> /\ KeepRun

\* An append (a version conflict, a payload the fabric refuses) or the
\* re-reading of artifacts throws out of the runner.
Throw(e) ==
  /\ att[e].pc \in Inside
  /\ Goto(e, "unhandled")
  /\ KeepFabric /\ KeepRun

\* onUnhandledFailure() of the route: the failure, and then the status, whose
\* append may throw in its turn.
UnhandledFailure(e) ==
  /\ At(e, "unhandled") /\ att[e].kind = "route"
  /\ unhandled' = TRUE
  /\ emitStatus(e, 0) \/ UNCHANGED <<cost, writer>>
  /\ Return(e, "failed")
  /\ UNCHANGED <<items, planned, task, assured>> /\ KeepRun

\* The catch in recovery's execute(): a status without an amount.
RecoveryFailure(e) ==
  /\ At(e, "unhandled") /\ att[e].kind = "recovery"
  /\ emitStatus(e, cost)
  /\ Return(e, "failed")
  /\ UNCHANGED <<items, planned, task, assured, unhandled>> /\ KeepRun

\* The handlers, and recovery's first append, may throw themselves.
HandlerThrows(e) ==
  /\ At(e, "unhandled") \/ (At(e, "queue") /\ att[e].kind = "recovery")
  /\ Return(e, "failed")
  /\ KeepFabric /\ KeepRun

\* lease.finish(status): only the current holder's counts.
Finish(e) ==
  /\ At(e, "ending")
  /\ row' = IF row.status = "running" /\ row.holder = e
            THEN [row EXCEPT !.status = IF att[e].result = "complete" THEN "complete" ELSE "failed",
                             !.holder = 0]
            ELSE row
  /\ Leave(e)
  /\ KeepFabric /\ UNCHANGED spent

-----------------------------------------------------------------------------
(***************************************************************************)
(* The environment.                                                        *)
(***************************************************************************)
\* The process dies.  A route whose first append throws has the same effect
\* here: nobody executes the run until its lease is gone.
Crash(e) ==
  /\ Alive(e)
  /\ Leave(e)
  /\ KeepFabric /\ KeepRun

\* The cancel route; the abort reaches the attempt now or by its heartbeat.
Cancel ==
  /\ row.status = "running"
  /\ row' = [row EXCEPT !.status = "cancelled", !.holder = 0]
  /\ UNCHANGED <<fabric, att, spent, writer>>

\* The signal: a cancelled or lost run, a shutdown.
Abort(e) ==
  /\ Alive(e) /\ "cancelled" \notin att[e].signals
  /\ att' = [att EXCEPT ![e].signals = @ \cup {"cancelled"}]
  /\ KeepFabric /\ KeepRun

\* The mandate's deadline passes.
Expire(e) ==
  /\ Alive(e) /\ "expired" \notin att[e].signals
  /\ att' = [att EXCEPT ![e].signals = @ \cup {"expired"}]
  /\ KeepFabric /\ KeepRun

Start(e) == Claim(e, "route") \/ Claim(e, "recovery") \/ Queue(e)
            \/ Refuse(e) \/ AlreadyComplete(e) \/ Enter(e)

Plan(e) == Planned(e) \/ PlanningFails(e) \/ StoreItem(e) \/ StorePlan(e) \/ BeginWork(e)

Work(e) == SkipCompleted(e) \/ HaltWork(e) \/ StartTask(e) \/ Dispatch(e) \/ AdapterFails(e)
           \/ AccountingUnknown(e) \/ Executed(e) \/ Verified(e) \/ VerificationFails(e)
           \/ CompleteTask(e) \/ Settle(e)

Judge(e) == EnterVerification(e) \/ Verdict(e) \/ RecordVerdict(e) \/ EnterAssurance(e)

EndAttempt(e) == Terminal(e) \/ Throw(e) \/ UnhandledFailure(e) \/ RecoveryFailure(e)
                 \/ HandlerThrows(e) \/ Finish(e)

Environment(e) == Crash(e) \/ Abort(e) \/ Expire(e)

Next ==
  \/ Cancel
  \/ \E e \in Attempts :
       Start(e) \/ Plan(e) \/ Work(e) \/ Judge(e) \/ EndAttempt(e) \/ Environment(e)

Spec == Init /\ [][Next]_vars

-----------------------------------------------------------------------------
(***************************************************************************)
(* Properties.                                                             *)
(***************************************************************************)
\* An amount in the fabric is what all calls of all attempts cost, whatever
\* crashed in between, unless the route recorded an unhandled failure.
CostIsAccounted == cost >= 0 /\ ~unhandled => cost = spent

\* Whatever is lost, retried or resumed, a run costs at most one call more than
\* its mandate allows, and no more than that when it is complete.
OverrunIsOneCall ==
  ~unhandled => /\ spent <= MaxCost \/ \E c \in Costs : spent - c <= MaxCost
                /\ row.status = "complete" => spent <= MaxCost

Done(p) == \A i \in DOMAIN p : task[p[i]] = "complete"

\* A run is complete only with Victoria's pass and with a plan of which all
\* assignments were verified, even when attempts overlap.
CompleteIsVerified ==
  row.status = "complete" =>
    assured /\ \E e \in Attempts : att[e].plan # <<>> /\ Done(att[e].plan)

\* A caller that repeats a completed run gets it back from the fabric, never
\* automation_terminal_state_inconsistent.
CompletedIsAnswerable == row.status = "complete" => completedExecutionRun

\* Nobody was interrupted while storing a plan before the accepted one.
Unambiguous == planned /\ \A i \in 1 .. MaxPlan : Len(items[i]) <= 1

\* The first accepted plan is the run's plan: later attempts take it from the
\* fabric and never plan again, unless one was interrupted while it stored it.
PlanIsKept ==
  [][Unambiguous => /\ items' = items
                    /\ \A e \in Attempts : att'[e].pc = "loop" => att'[e].plan = planItems]_vars

\* What contracts.ts says of null: it never becomes free execution.
UnknownIsNeverFree == cost >= 0 => cost = spent

\* What store.ts says of the expected version: two workers do not silently
\* replace each other's state.  A replaced attempt never overwrites the status
\* its successor wrote.
NoSilentReplacement == [][writer' >= writer]_vars
=============================================================================
