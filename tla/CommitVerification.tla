-------------------------- MODULE CommitVerification --------------------------
(***************************************************************************)
(* The verification of an existing commit and its admission barrier        *)
(* (automation/existing-commit-verification.ts, development-controller.ts, *)
(* barrier-quiescence.ts, cost-reconciliation.ts), with the services a     *)
(* verification calls: the evidence runner, the Codex verifier and the     *)
(* ledger of the egress proxy.                                             *)
(*                                                                         *)
(* One worktree serves verifications and authoring runs: the barrier names *)
(* who may use it.  What a verification started goes on after it was       *)
(* cancelled, timed out or lost its process; so a finished verification    *)
(* keeps the barrier until its deadline, or until the runner and the       *)
(* ledger prove that nothing of it is left.                                *)
(*                                                                         *)
(* A step is the code between two awaits of the controller, which is one   *)
(* process; rows and barrier are in its database.                          *)
(***************************************************************************)
EXTENDS Naturals, FiniteSets

CONSTANTS
  Ids,         \* verifications, by architect and idempotency key
  Admissions,  \* requests to start an authoring run
  Nobody,      \* the worktree is free
  MaxCrashes   \* bound: how often the controller goes down

ASSUME OwnersAssumption == Ids \cap Admissions = {} /\ Nobody \notin Ids \cup Admissions
ASSUME CrashesAssumption == MaxCrashes \in Nat

VARIABLES
  row,      \* row[v]: the record of v, MAC protected
  gate,     \* the owner in runtime_existing_commit_admission
  lapsed,   \* verifications whose signed deadline has passed
  proc,     \* the controller: "up", "stopped" or "down"
  exec,     \* exec[v]: [at, aborted], the execution in `running`; at is its phase
  quiet,    \* quiet[v]: an attempt to prove v quiet, [at, reached]
  asking,   \* asking[v]: reconcile(v) awaits the ledger
  remote,   \* remote[v]: how far the service has come that was asked for v;
            \* "passed" is its favourable answer, on the way back
  ledger,   \* ledger[v]: the budget of v at the proxy
  author,   \* author[d]: an authoring request
  late,     \* verifications whose tests were requested by a sender that gave up
  crashes

store == <<row, gate>>
memory == <<proc, exec, quiet, asking, crashes>>
services == <<remote, ledger, late>>
vars == <<store, lapsed, memory, services, author>>

ACTIVE == {"queued", "evidence", "codex", "victoria"}
active(v) == row[v].status \in ACTIVE

\* cost_usd: a number, or null while and after the model may have been paid.
NoRecord == [status |-> "none", reached |-> FALSE, cost |-> "number", receipt |-> FALSE,
             accepted |-> FALSE, observed |-> FALSE]
Queued == [NoRecord EXCEPT !.status = "queued"]
NoExecution == [at |-> "none", aborted |-> FALSE]
NoAttempt == [at |-> "none", reached |-> FALSE]

Working == {"tests", "model-sent", "dispatched"}

TypeOK ==
  /\ row \in [Ids -> [status: ACTIVE \cup {"none", "verified", "failed", "cancelled", "interrupted"},
                      reached: BOOLEAN, cost: {"number", "null"}, receipt: BOOLEAN,
                      accepted: BOOLEAN, observed: BOOLEAN]]
  /\ gate \in Ids \cup Admissions \cup {Nobody}
  /\ lapsed \subseteq Ids
  /\ proc \in {"up", "stopped", "down"}
  /\ exec \in [Ids -> [at: ACTIVE \cup {"none"}, aborted: BOOLEAN]]
  /\ quiet \in [Ids -> [at: {"none", "ledger", "runner"}, reached: BOOLEAN]]
  /\ asking \in [Ids -> {"no", "alone", "chained"}]
  /\ remote \in [Ids -> Working \cup {"none", "tests-sent", "passed"}]
  /\ ledger \in [Ids -> {"unknown", "pending", "settled"}]
  /\ author \in [Admissions -> {"none", "admitting", "accepted", "running", "stuck"}]
  /\ late \subseteq Ids
  /\ crashes \in 0 .. MaxCrashes

Init ==
  /\ row = [v \in Ids |-> NoRecord]
  /\ gate = Nobody
  /\ lapsed = {}
  /\ proc = "up"
  /\ exec = [v \in Ids |-> NoExecution]
  /\ quiet = [v \in Ids |-> NoAttempt]
  /\ asking = [v \in Ids |-> "no"]
  /\ remote = [v \in Ids |-> "none"]
  /\ ledger = [v \in Ids |-> "unknown"]
  /\ author = [d \in Admissions |-> "none"]
  /\ late = {}
  /\ crashes = 0

-----------------------------------------------------------------------------
(***************************************************************************)
(* The barrier.                                                            *)
(***************************************************************************)
release(owner) == IF gate = owner THEN Nobody ELSE gate

\* A run that never reached the model has no budget, and none can appear.
reachedModel(r) == r.cost = "null" \/ r.receipt \/ r.reached

\* attemptQuietRelease() up to its first await, for the verifications in S while
\* the barrier names holder.
attempted(S, holder) ==
  [v \in Ids |->
     IF v \in S /\ v = holder /\ quiet[v].at = "none" /\ exec'[v].at = "none"
        /\ row'[v].status \notin ACTIVE \cup {"none"}
     THEN [at |-> "ledger", reached |-> reachedModel(row'[v])]
     ELSE quiet[v]]

\* Mutant: an absent budget is taken for a proof.
modelQuiet_Absent(v) == ledger[v] \in {"settled", "unknown"}

modelQuiet(v) == ledger[v] = "settled" \/ (ledger[v] = "unknown" /\ ~quiet[v].reached)

LedgerProves(v) ==
  /\ quiet[v].at = "ledger" /\ modelQuiet(v)
  /\ quiet' = [quiet EXCEPT ![v].at = "runner"]
  /\ UNCHANGED <<store, lapsed, proc, exec, asking, crashes, services, author>>

\* A dispatch is open, the budget is missing, the runner is busy, or one of the
\* two cannot be read.
Doubt(v) ==
  /\ quiet[v].at # "none"
  /\ quiet' = [quiet EXCEPT ![v] = NoAttempt]
  /\ UNCHANGED <<store, lapsed, proc, exec, asking, crashes, services, author>>

\* The runner is idle; the row is read again before the barrier goes.
QuietRelease(v) ==
  /\ quiet[v].at = "runner" /\ \A w \in Ids : remote[w] # "tests"
  /\ gate' = IF ~active(v) /\ exec[v].at = "none" THEN release(v) ELSE gate
  /\ quiet' = [quiet EXCEPT ![v] = NoAttempt]
  /\ UNCHANGED <<row, lapsed, proc, exec, asking, crashes, services, author>>

\* Mutant: only a failed verification gives way.
outlived_Failed(v) == row[v].status = "failed" /\ v \in lapsed

outlived(v) == ~active(v) /\ v \in lapsed

\* The transaction of claim(): what it releases is rolled back if it refuses.
claimable ==
  /\ gate = Nobody \/ (gate \in Ids /\ outlived(gate))
  /\ \A v \in Ids : ~active(v)
  /\ \A d \in Admissions : author[d] \notin {"accepted", "running"}

\* A refused claim asks again whether the holder is quiet.
ClaimRefused ==
  /\ proc = "up" /\ ~claimable /\ gate \in Ids
  /\ UNCHANGED <<store, exec>>
  /\ quiet' = attempted({gate}, gate)
  /\ UNCHANGED <<lapsed, proc, asking, crashes, services, author>>

-----------------------------------------------------------------------------
(***************************************************************************)
(* The routes of a verification.                                           *)
(***************************************************************************)
Start(v) ==
  /\ proc = "up" /\ row[v].status = "none" /\ claimable
  /\ gate' = v
  /\ row' = [row EXCEPT ![v] = Queued]
  /\ exec' = [exec EXCEPT ![v] = [at |-> "queued", aborted |-> FALSE]]
  /\ quiet' = attempted({gate}, gate)
  /\ UNCHANGED <<lapsed, proc, asking, crashes, services, author>>

\* The worktree or the artifact mount is refused after the claim.
StartRefused(v) ==
  /\ proc = "up" /\ row[v].status = "none" /\ claimable
  /\ gate' = Nobody
  /\ UNCHANGED <<row, exec>>
  /\ quiet' = attempted({gate}, gate)
  /\ UNCHANGED <<lapsed, proc, asking, crashes, services, author>>

\* Also a start that is repeated.  Damaged artifacts take back a verdict.
status(v) ==
  /\ proc = "up" /\ row[v].status # "none"
  /\ \/ UNCHANGED row
     \/ /\ row[v].status = "verified"
        /\ row' = [row EXCEPT ![v].status = "failed", ![v].accepted = FALSE]
  /\ UNCHANGED <<gate, exec>>
  /\ quiet' = attempted({v}, gate)
  /\ UNCHANGED <<lapsed, proc, asking, crashes, services, author>>

cancel(v) ==
  /\ proc = "up" /\ active(v)
  /\ row' = [row EXCEPT ![v].status = "cancelled"]
  /\ exec' = [exec EXCEPT ![v].aborted = exec[v].at # "none"]
  /\ quiet' = attempted({v}, gate)
  /\ UNCHANGED <<gate, lapsed, proc, asking, crashes, services, author>>

-----------------------------------------------------------------------------
(***************************************************************************)
(* execute().                                                              *)
(***************************************************************************)
\* Mutant: neither the row nor the signal is read again after an await.
guard_DeadlineOnly(v) == v \notin lapsed

guard(v) == active(v) /\ ~exec[v].aborted /\ v \notin lapsed

\* The authorities are attested, the worktree is at the pinned commit, and the
\* tests are requested.
Attested(v) ==
  /\ exec[v].at = "queued" /\ guard(v)
  /\ row' = [row EXCEPT ![v].status = "evidence"]
  /\ exec' = [exec EXCEPT ![v].at = "evidence"]
  /\ remote' = [remote EXCEPT ![v] = "tests-sent"]
  /\ UNCHANGED <<gate, lapsed, proc, quiet, asking, crashes, ledger, late, author>>

\* reached_model is written before the request leaves.
EvidenceRead(v) ==
  /\ exec[v].at = "evidence" /\ remote[v] = "passed" /\ guard(v)
  /\ row' = [row EXCEPT ![v].status = "codex", ![v].reached = TRUE, ![v].cost = "null"]
  /\ exec' = [exec EXCEPT ![v].at = "codex"]
  /\ remote' = [remote EXCEPT ![v] = "model-sent"]
  /\ UNCHANGED <<gate, lapsed, proc, quiet, asking, crashes, ledger, late, author>>

CodexRead(v) ==
  /\ exec[v].at = "codex" /\ remote[v] = "passed" /\ guard(v)
  /\ row' = [row EXCEPT ![v].status = "victoria", ![v].receipt = TRUE, ![v].cost = "number"]
  /\ exec' = [exec EXCEPT ![v].at = "victoria"]
  /\ remote' = [remote EXCEPT ![v] = "none"]
  /\ UNCHANGED <<gate, lapsed, proc, quiet, asking, crashes, ledger, late, author>>

\* The finally block: success, or a failure before anything was started, gives
\* the barrier back; then the ledger is read, and the proof attempted.
unreported(v) == row'[v].status \notin ACTIVE /\ row'[v].cost = "null" /\ ~row'[v].observed

ends(v) ==
  /\ exec' = [exec EXCEPT ![v] = NoExecution]
  /\ gate' = IF row'[v].status = "verified" \/ (row'[v].status = "failed" /\ exec[v].at = "queued")
             THEN release(v) ELSE gate
  /\ asking' = [asking EXCEPT ![v] = IF unreported(v) THEN "chained" ELSE @]
  /\ quiet' = IF unreported(v) THEN quiet ELSE attempted({v}, gate')

\* Victoria accepted, and artifacts and worktree are as they were.
Accepted(v) ==
  /\ exec[v].at = "victoria" /\ guard(v)
  /\ row' = [row EXCEPT ![v].status = "verified", ![v].accepted = TRUE]
  /\ ends(v)
  /\ UNCHANGED <<lapsed, proc, crashes, services, author>>

\* What becomes of a request nobody waits for: one on its way may be delivered.
abandoned(v, delivered) ==
  IF remote[v] = "passed" \/ (remote[v] \in {"tests-sent", "model-sent"} /\ ~delivered)
  THEN "none" ELSE remote[v]

\* An exception: a service refuses or does not answer, the signal is aborted,
\* guard() or a check of the evidence fails.
Fails(v) ==
  /\ exec[v].at # "none"
  /\ \E cost \in {"number", "null"} :
       row' = IF ~active(v) THEN row
              ELSE [row EXCEPT ![v].status = "failed",
                               ![v].cost = IF exec[v].at = "codex" THEN cost ELSE @]
  /\ ends(v)
  /\ \E delivered \in BOOLEAN : remote' = [remote EXCEPT ![v] = abandoned(v, delivered)]
  /\ late' = IF remote'[v] = "tests-sent" THEN late \cup {v} ELSE late
  /\ UNCHANGED <<lapsed, proc, crashes, ledger, author>>

\* The timer of the signed deadline.
DeadlineExceeded(v) ==
  /\ exec[v].at # "none" /\ ~exec[v].aborted /\ v \in lapsed
  /\ row' = IF active(v) THEN [row EXCEPT ![v].status = "failed"] ELSE row
  /\ exec' = [exec EXCEPT ![v].aborted = TRUE]
  /\ UNCHANGED <<gate, lapsed, proc, quiet, asking, crashes, services, author>>

\* The answer of the ledger to reconcile(): a figure is recorded once, beside
\* the cost the run reported and never in its place.
Reconciled(v) ==
  /\ asking[v] # "no"
  /\ \/ /\ ledger[v] # "unknown" /\ ~active(v) /\ row[v].cost = "null" /\ ~row[v].observed
        /\ row' = [row EXCEPT ![v].observed = TRUE]
     \/ UNCHANGED row
  /\ UNCHANGED <<gate, exec>>
  /\ asking' = [asking EXCEPT ![v] = "no"]
  /\ quiet' = IF asking[v] = "chained" THEN attempted({v}, gate) ELSE quiet
  /\ UNCHANGED <<lapsed, proc, crashes, services, author>>

-----------------------------------------------------------------------------
(***************************************************************************)
(* The controller's process.                                               *)
(***************************************************************************)
stop ==
  /\ proc = "up" /\ crashes < MaxCrashes
  /\ proc' = "stopped" /\ crashes' = crashes + 1
  /\ row' = [v \in Ids |-> IF exec[v].at # "none" /\ active(v)
                           THEN [row[v] EXCEPT !.status = "interrupted"] ELSE row[v]]
  /\ exec' = [v \in Ids |-> [exec[v] EXCEPT !.aborted = exec[v].at # "none"]]
  /\ UNCHANGED <<gate, lapsed, quiet, asking, services, author>>

\* Memory is gone; requests under way may still be delivered.  The response
\* to an authoring request never finishes.
dies ==
  /\ proc' = "down"
  /\ exec' = [v \in Ids |-> NoExecution]
  /\ quiet' = [v \in Ids |-> NoAttempt]
  /\ asking' = [v \in Ids |-> "no"]
  /\ \E delivered \in BOOLEAN : remote' = [v \in Ids |-> abandoned(v, delivered)]
  /\ late' = late \cup {v \in Ids : remote'[v] = "tests-sent"}
  /\ author' = [d \in Admissions |->
                  IF author[d] \in {"admitting", "accepted"} THEN "stuck" ELSE author[d]]
  /\ UNCHANGED <<row, gate, lapsed, ledger>>

Crash == proc = "up" /\ crashes < MaxCrashes /\ crashes' = crashes + 1 /\ dies

Exit == proc = "stopped" /\ UNCHANGED crashes /\ dies

\* The constructor: nothing in flight is replayed, and the barrier stays, as a
\* lost process may have a test or a model request in flight; then the sweep.
Restart ==
  /\ proc = "down" /\ proc' = "up"
  /\ row' = [v \in Ids |-> IF active(v) THEN [row[v] EXCEPT !.status = "interrupted"] ELSE row[v]]
  /\ UNCHANGED <<gate, exec>>
  /\ asking' = [v \in Ids |-> IF unreported(v) THEN "alone" ELSE "no"]
  /\ quiet' = attempted(Ids, gate)
  /\ UNCHANGED <<lapsed, crashes, services, author>>

\* Time: only a started verification has a deadline.
Lapse(v) ==
  /\ row[v].status # "none" /\ v \notin lapsed
  /\ lapsed' = lapsed \cup {v}
  /\ UNCHANGED <<store, memory, services, author>>

-----------------------------------------------------------------------------
(***************************************************************************)
(* Authoring: POST /control/automation/run through the controller.         *)
(***************************************************************************)
beginDevelopmentAdmission(d) ==
  /\ proc = "up" /\ author[d] = "none" /\ claimable
  /\ gate' = d
  /\ author' = [author EXCEPT ![d] = "admitting"]
  /\ UNCHANGED <<row, exec>>
  /\ quiet' = attempted({gate}, gate)
  /\ UNCHANGED <<lapsed, proc, asking, crashes, services>>

\* The route claims the run: its row says running.
RunAccepted(d) ==
  /\ author[d] = "admitting" /\ proc # "down"
  /\ author' = [author EXCEPT ![d] = "accepted"]
  /\ UNCHANGED <<store, lapsed, memory, services>>

\* res "finish"
ResponseFinishes(d) ==
  /\ author[d] \in {"admitting", "accepted"} /\ proc # "down"
  /\ gate' = release(d)
  /\ author' = [author EXCEPT ![d] = IF @ = "accepted" THEN "running" ELSE "none"]
  /\ UNCHANGED <<row, lapsed, memory, services>>

\* A disconnected caller does not prove that the admission stopped.
CallerDisconnects(d) ==
  /\ author[d] \in {"admitting", "accepted"}
  /\ author' = [author EXCEPT ![d] = "stuck"]
  /\ UNCHANGED <<store, lapsed, memory, services>>

\* The row leaves running (RunLease).
RunEnds(d) ==
  /\ author[d] = "running"
  /\ author' = [author EXCEPT ![d] = "none"]
  /\ UNCHANGED <<store, lapsed, memory, services>>

-----------------------------------------------------------------------------
(***************************************************************************)
(* The services.  Whoever called may have given up; an unfavourable answer *)
(* leaves the caller nothing but Fails.                                    *)
(***************************************************************************)
respond(v, phase, passed) ==
  remote' = [remote EXCEPT ![v] = IF passed /\ exec[v].at = phase THEN "passed" ELSE "none"]

\* POST /v1/verify-existing: one at a time, and not after the deadline.
TestsBegin(v) ==
  /\ remote[v] = "tests-sent" /\ v \notin lapsed /\ \A w \in Ids : remote[w] # "tests"
  /\ remote' = [remote EXCEPT ![v] = "tests"]
  /\ UNCHANGED <<store, lapsed, memory, ledger, late, author>>

TestsRefused(v) ==
  /\ remote[v] = "tests-sent"
  /\ respond(v, "evidence", FALSE)
  /\ UNCHANGED <<store, lapsed, memory, ledger, late, author>>

\* The bounded tests end, or are killed: the deadline, or the caller is gone.
TestsEnd(v) ==
  /\ remote[v] = "tests"
  /\ \E passed \in BOOLEAN : respond(v, "evidence", passed)
  /\ UNCHANGED <<store, lapsed, memory, ledger, late, author>>

\* Evidence the verifier does not accept, or a budget the proxy refuses.
CodexDeclines(v) ==
  /\ remote[v] = "model-sent"
  /\ respond(v, "codex", FALSE)
  /\ UNCHANGED <<store, lapsed, memory, ledger, late, author>>

\* evaluate(): one dispatch, whether or not the controller still waits.
CodexDispatches(v) ==
  /\ remote[v] = "model-sent"
  /\ remote' = [remote EXCEPT ![v] = "dispatched"]
  /\ ledger' = [ledger EXCEPT ![v] = "pending"]
  /\ UNCHANGED <<store, lapsed, memory, late, author>>

\* Settled; or left without an outcome, for good.
DispatchEnds(v) ==
  /\ remote[v] = "dispatched"
  /\ \/ /\ ledger' = [ledger EXCEPT ![v] = "settled"]
        /\ \E passed \in BOOLEAN : respond(v, "codex", passed)
     \/ UNCHANGED ledger /\ respond(v, "codex", FALSE)
  /\ UNCHANGED <<store, lapsed, memory, late, author>>

-----------------------------------------------------------------------------
Next ==
  \/ \E v \in Ids :
       \/ Start(v) \/ StartRefused(v) \/ status(v) \/ cancel(v)
       \/ Attested(v) \/ EvidenceRead(v) \/ CodexRead(v) \/ Accepted(v) \/ Fails(v)
       \/ DeadlineExceeded(v) \/ Lapse(v) \/ Reconciled(v)
       \/ LedgerProves(v) \/ Doubt(v) \/ QuietRelease(v)
       \/ TestsBegin(v) \/ TestsRefused(v) \/ TestsEnd(v)
       \/ CodexDeclines(v) \/ CodexDispatches(v) \/ DispatchEnds(v)
  \/ \E d \in Admissions :
       \/ beginDevelopmentAdmission(d) \/ RunAccepted(d) \/ ResponseFinishes(d)
       \/ CallerDisconnects(d) \/ RunEnds(d)
  \/ ClaimRefused \/ stop \/ Crash \/ Exit \/ Restart

Spec == Init /\ [][Next]_vars

\* Deadlines pass and their timers fire; an aborted call rejects; the controller
\* is restarted; and somebody keeps asking for the workspace.
FairSpec ==
  /\ Spec
  /\ \A v \in Ids : /\ WF_vars(Lapse(v)) /\ WF_vars(DeadlineExceeded(v))
                    /\ WF_vars(exec[v].aborted /\ Fails(v))
  /\ WF_vars(Exit) /\ WF_vars(Restart)
  /\ SF_vars(\E d \in Admissions : beginDevelopmentAdmission(d))

-----------------------------------------------------------------------------
(***************************************************************************)
(* Properties.                                                             *)
(***************************************************************************)
\* Until its deadline, the worktree is reserved for a verification as long as
\* it is active or its tests or its model call may still be running, whoever
\* cancelled, stopped waiting or crashed (attemptQuietRelease, claim, the end of
\* execute).  The exception is a test request that the runner receives after
\* its sender gave up: the runner was idle when it was asked.
BarrierCoversWork ==
  \A v \in Ids :
    /\ active(v) => gate = v
    /\ remote[v] \in Working /\ v \notin lapsed \cup late => gate = v

\* A verification that was cancelled, interrupted or failed never becomes
\* verified by an answer that arrives afterwards; a verdict is only ever taken
\* back (guard, the integrity check of status).
VerdictIsFinal ==
  [][\A v \in Ids :
       row[v].status \in {"verified", "failed", "cancelled", "interrupted"} =>
         row'[v].status = row[v].status
         \/ (row[v].status = "verified" /\ row'[v].status = "failed")]_vars

\* No verification keeps the worktree for ever while somebody asks for it, even
\* if no proof of quiet can be had (claim, the deadline timer, the constructor).
WorkspaceComesBack ==
  \A v \in Ids : gate = v ~> gate # v
=============================================================================
