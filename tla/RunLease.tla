------------------------------- MODULE RunLease -------------------------------
(***************************************************************************)
(* Automation runs: the durable run registry (run-lease.ts), the recovery  *)
(* supervisor (recovery-supervisor.ts), the registry of executions in a    *)
(* process (run-control.ts, background-run.ts) and the HTTP routes that    *)
(* start and cancel a run (routes.ts).                                     *)
(*                                                                         *)
(* Replicas of the runtime share one SQLite table with a row per run.  An  *)
(* execution works under the token of the claim that started it; claims[t] *)
(* is the t-th successful claim and t stands for its token, a fresh UUID.  *)
(* A transaction, and the synchronous code around it, is one step; between *)
(* two awaits of a process every other process may take steps.             *)
(***************************************************************************)
EXTENDS Naturals, Sequences, FiniteSets

CONSTANTS
  Runs,        \* run_ids; each is derived from one mandate_id
  Replicas,    \* processes of the runtime
  MaxFix,      \* max_fix_cycles of the mandates
  BatchSize,   \* rows a sweep of the supervisor selects
  MaxOutages   \* bound: crashes and shutdowns of one behaviour

ASSUME MaxFixAssumption == MaxFix \in Nat
ASSUME RunsAssumption == IsFiniteSet(Runs)
ASSUME BoundsAssumption == BatchSize \in Nat /\ MaxOutages \in Nat

VARIABLES
  runRow,           \* row[r]: the row of runtime_automation_runs
  lapsed,        \* runs whose effective mandate has expired
  reauthorized,  \* runs with a row in runtime_automation_reauthorizations
  claims,        \* the successful claims, in order
  sup,           \* sup[p]: the sweep of the supervisor of p
  stopped,       \* stopped[p]: stop() was called
  outages        \* crashes and shutdowns so far

leaseVars == <<runRow, lapsed, reauthorized, claims, sup, stopped, outages>>

NoToken == 0
TerminalStatuses == {"complete", "cancelled"}

\* live: lease_expires_at is in the future.
Rows == [status: {"none", "running", "failed"} \cup TerminalStatuses,
         token: Nat, live: BOOLEAN, attempts: Nat]

\* phase: "executing"; "leaked": claimed, registered and renewed by its
\* heartbeat, but never launched; "ended"; "dead": its process died.
\* control: "active" for a claim of the HTTP route, "sweep" for the supervisor's.
Claims == [run: Runs, site: Replicas, control: {"active", "sweep"}, attempt: Nat,
           phase: {"executing", "leaked", "ended", "dead"},
           aborted: BOOLEAN, result: {"none", "complete", "failed"}]

\* head: the candidate whose preflight is awaited.
Sweeps == [phase: {"idle", "sweeping", "preflight", "executing"},
           queue: SUBSET Runs, head: SUBSET Runs]

LeaseTypeOK ==
  /\ runRow \in [Runs -> Rows]
  /\ lapsed \subseteq Runs /\ reauthorized \subseteq Runs
  /\ claims \in Seq(Claims)
  /\ sup \in [Replicas -> Sweeps]
  /\ stopped \in [Replicas -> BOOLEAN]
  /\ outages \in Nat

NoRow == [status |-> "none", token |-> NoToken, live |-> FALSE, attempts |-> 0]
Idle == [phase |-> "idle", queue |-> {}, head |-> {}]

LeaseInit ==
  /\ runRow = [r \in Runs |-> NoRow]
  /\ lapsed = {} /\ reauthorized = {}
  /\ claims = <<>>
  /\ sup = [p \in Replicas |-> Idle]
  /\ stopped = [p \in Replicas |-> FALSE]
  /\ outages = 0

-----------------------------------------------------------------------------
(***************************************************************************)
(* The run registry.                                                       *)
(***************************************************************************)
cyclesSpent(r) == runRow[r].attempts >= MaxFix + 1

\* claimAutomationRun(): "acquired" for a new row, "resumed" for one that
\* failed or whose lease has run out.
claimable(r) ==
  \/ runRow[r].status = "none"
  \/ /\ runRow[r].status \notin TerminalStatuses
     /\ ~(runRow[r].status = "running" /\ runRow[r].live)
     /\ r \notin lapsed
     /\ ~cyclesSpent(r)

claimedRow(x, t) ==
  [status |-> "running", token |-> t, live |-> TRUE, attempts |-> x.attempts + 1]

closedRow(x, status) ==
  [status |-> status, token |-> NoToken, live |-> FALSE, attempts |-> x.attempts]

\* Mutant: WHERE lease_token = ? is missing.
finishedRow_AnyToken(x, t, status) ==
  IF x.status = "running" THEN closedRow(x, status) ELSE x

\* finish() writes nothing when the token has moved on.
finishedRow(x, t, status) ==
  IF x.token = t /\ x.status = "running" THEN closedRow(x, status) ELSE x

claim(r, t) == runRow' = [runRow EXCEPT ![r] = claimedRow(@, t)]

NewToken == Len(claims) + 1

newClaim(r, p, control, phase, result) ==
  claims' = Append(claims,
    [run |-> r, site |-> p, control |-> control, attempt |-> runRow[r].attempts + 1,
     phase |-> phase, aborted |-> FALSE, result |-> result])

abort(S) == claims' = [t \in DOMAIN claims |->
                         IF t \in S THEN [claims[t] EXCEPT !.aborted = TRUE] ELSE claims[t]]

ClaimAlive(t) == claims[t].phase \in {"executing", "leaked"}

\* The map `active` of run-control.ts: at most one entry per run and process.
Registered(p, r) ==
  {t \in DOMAIN claims : ClaimAlive(t) /\ claims[t].control = "active"
                         /\ claims[t].site = p /\ claims[t].run = r}

-----------------------------------------------------------------------------
(***************************************************************************)
(* POST /control/automation/run, from the claim on.  Every other outcome   *)
(* of the claim is an HTTP error and changes nothing.                      *)
(***************************************************************************)
\* The claim is registered, its heartbeat starts and it is launched.
RunAccepted(p, r) ==
  /\ claimable(r) /\ Registered(p, r) = {}
  /\ claim(r, NewToken)
  /\ newClaim(r, p, "active", "executing", "none")
  /\ UNCHANGED <<lapsed, reauthorized, sup, stopped, outages>>

\* appendMissionFabricEvent() throws (another writer moved the version): the
\* request fails with 500 after the heartbeat has been started.
RunLeaked(p, r) ==
  /\ claimable(r) /\ Registered(p, r) = {}
  /\ claim(r, NewToken)
  /\ newClaim(r, p, "active", "leaked", "none")
  /\ UNCHANGED <<lapsed, reauthorized, sup, stopped, outages>>

\* An execution of the run is still registered here (its lease ran out):
\* the new claim is given back as failed.
RunAlreadyActive(p, r) ==
  /\ claimable(r) /\ Registered(p, r) # {}
  /\ runRow' = [runRow EXCEPT ![r] =
               finishedRow(claimedRow(@, NewToken), NewToken, "failed")]
  /\ newClaim(r, p, "active", "ended", "failed")
  /\ UNCHANGED <<lapsed, reauthorized, sup, stopped, outages>>

\* POST .../cancel at process p: the ledger first, then the local signal.
CancelRun(p, r) ==
  /\ runRow[r].status = "running"
  /\ runRow' = [runRow EXCEPT ![r] = closedRow(@, "cancelled")]
  /\ abort(Registered(p, r))
  /\ UNCHANGED <<lapsed, reauthorized, sup, stopped, outages>>

-----------------------------------------------------------------------------
(***************************************************************************)
(* An execution and its heartbeat.                                         *)
(***************************************************************************)
Holds(t) == runRow[claims[t].run].token = t /\ runRow[claims[t].run].status = "running"

Renew(t) ==
  /\ ClaimAlive(t) /\ Holds(t)
  /\ runRow' = [runRow EXCEPT ![claims[t].run].live = TRUE]
  /\ UNCHANGED <<lapsed, reauthorized, claims, sup, stopped, outages>>

\* Mutant: the answer of renew() is not looked at.
OwnershipLost_Ignored(t) == FALSE /\ UNCHANGED leaseVars

\* renew() matched no row: the execution is aborted.
OwnershipLost(t) ==
  /\ ClaimAlive(t) /\ ~Holds(t) /\ ~claims[t].aborted
  /\ abort({t})
  /\ UNCHANGED <<runRow, lapsed, reauthorized, sup, stopped, outages>>

\* renew() threw: treated in the same way.
RenewThrows(t) ==
  /\ ClaimAlive(t) /\ ~claims[t].aborted
  /\ abort({t})
  /\ UNCHANGED <<runRow, lapsed, reauthorized, sup, stopped, outages>>

\* The execution returns.  An abort that came too late does not keep it from
\* returning "complete"; every other status is written as "failed".
Ends(t) ==
  /\ claims[t].phase = "executing"
  /\ \E status \in {"complete", "failed"} :
       /\ runRow' = [runRow EXCEPT ![claims[t].run] = finishedRow(@, t, status)]
       /\ claims' = [claims EXCEPT ![t].phase = "ended", ![t].result = status]
  /\ sup' = IF claims[t].control = "sweep"
              THEN [sup EXCEPT ![claims[t].site].phase = "sweeping"] ELSE sup
  /\ UNCHANGED <<lapsed, reauthorized, stopped, outages>>

-----------------------------------------------------------------------------
(***************************************************************************)
(* The recovery supervisor of a process: one sweep at a time, candidates   *)
(* one after the other.                                                    *)
(***************************************************************************)
Interrupted == {r \in Runs : runRow[r].status = "running" /\ ~runRow[r].live}

\* Mutant: the filter is stricter than the claim.
recoverable_OffByOne(r) == r \notin lapsed /\ runRow[r].attempts + 1 < MaxFix + 1

recoverable(r) == r \notin lapsed /\ ~cyclesSpent(r)

\* What the LIMIT lets through (the oldest rows); it is applied before the filter.
Batch(S) ==
  /\ S \subseteq Interrupted
  /\ \/ S = Interrupted /\ Cardinality(S) <= BatchSize
     \/ Cardinality(S) = BatchSize

Sweep(p) ==
  /\ ~stopped[p] /\ sup[p].phase = "idle"
  /\ \E S \in SUBSET Runs :
       /\ Batch(S) /\ \E r \in S : recoverable(r)
       /\ sup' = [sup EXCEPT ![p] = [phase |-> "sweeping", head |-> {},
                                     queue |-> {r \in S : recoverable(r)}]]
  /\ UNCHANGED <<runRow, lapsed, reauthorized, claims, stopped, outages>>

NextCandidate(p) ==
  /\ sup[p].phase = "sweeping"
  /\ IF sup[p].queue = {} \/ stopped[p]
       THEN sup' = [sup EXCEPT ![p] = Idle]
       ELSE \E r \in sup[p].queue :
              sup' = [sup EXCEPT ![p] = [phase |-> "preflight", head |-> {r},
                                         queue |-> sup[p].queue \ {r}]]
  /\ UNCHANGED <<runRow, lapsed, reauthorized, claims, stopped, outages>>

\* The preflight refuses or throws, or the claim is not "resumed".
Skip(p) ==
  /\ sup[p].phase = "preflight"
  /\ sup' = [sup EXCEPT ![p].phase = "sweeping", ![p].head = {}]
  /\ UNCHANGED <<runRow, lapsed, reauthorized, claims, stopped, outages>>

\* The preflight has answered: the claim decides on the row as it is now, and
\* `stopped` is not read again.
Recover(p) ==
  /\ sup[p].phase = "preflight"
  /\ \E r \in sup[p].head :
       /\ claimable(r)
       /\ claim(r, NewToken)
       /\ newClaim(r, p, "sweep", "executing", "none")
  /\ sup' = [sup EXCEPT ![p].phase = "executing", ![p].head = {}]
  /\ UNCHANGED <<lapsed, reauthorized, stopped, outages>>

-----------------------------------------------------------------------------
(***************************************************************************)
(* Time, outages and the operator.                                         *)
(***************************************************************************)
\* No renewal in time: the holder is dead, or its process was held up.
LeaseExpires(r) ==
  /\ runRow[r].live
  /\ runRow' = [runRow EXCEPT ![r].live = FALSE]
  /\ UNCHANGED <<lapsed, reauthorized, claims, sup, stopped, outages>>

Lapse(r) ==
  /\ runRow[r].status # "none" /\ r \notin lapsed
  /\ lapsed' = lapsed \cup {r}
  /\ UNCHANGED <<runRow, reauthorized, claims, sup, stopped, outages>>

\* legacy-reconciliation.ts: once, after a single failed attempt whose mandate
\* has expired, the architect may renew the mandate.
Reauthorize(r) ==
  /\ runRow[r].status = "failed" /\ runRow[r].attempts = 1
  /\ r \in lapsed /\ r \notin reauthorized /\ MaxFix >= 1
  /\ lapsed' = lapsed \ {r}
  /\ reauthorized' = reauthorized \cup {r}
  /\ UNCHANGED <<runRow, claims, sup, stopped, outages>>

AliveAt(p) == {t \in DOMAIN claims : ClaimAlive(t) /\ claims[t].site = p}

kill(p) ==
  claims' = [t \in DOMAIN claims |->
               IF t \in AliveAt(p) THEN [claims[t] EXCEPT !.phase = "dead"] ELSE claims[t]]

\* The memory of the process is lost; it starts again.
restart(p) ==
  /\ kill(p)
  /\ sup' = [sup EXCEPT ![p] = Idle]
  /\ stopped' = [stopped EXCEPT ![p] = FALSE]
  /\ UNCHANGED <<runRow, lapsed, reauthorized>>

CrashReplica(p) ==
  /\ outages < MaxOutages
  /\ outages' = outages + 1
  /\ restart(p)

\* The executions the supervisor started.
Recovering(p) == {t \in AliveAt(p) : claims[t].control = "sweep"}

\* The process is told to stop.  stop() aborts what the supervisor executes; the
\* development controller also calls interruptActiveAutomationRuns(), the server
\* of index.ts does not.
Shutdown(p) ==
  /\ outages < MaxOutages /\ ~stopped[p]
  /\ outages' = outages + 1
  /\ stopped' = [stopped EXCEPT ![p] = TRUE]
  /\ \E S \in {AliveAt(p), Recovering(p)} : abort(S)
  /\ UNCHANGED <<runRow, lapsed, reauthorized, sup>>

\* The process that was told to stop exits.
Exit(p) ==
  /\ stopped[p]
  /\ restart(p)
  /\ UNCHANGED outages

Execution(t) ==
  \/ Renew(t) \/ OwnershipLost(t) \/ RenewThrows(t) \/ Ends(t)

Supervisor(p) == Sweep(p) \/ NextCandidate(p) \/ Skip(p) \/ Recover(p)

Route(p, r) == RunAccepted(p, r) \/ RunLeaked(p, r) \/ RunAlreadyActive(p, r) \/ CancelRun(p, r)

LeaseNext ==
  \/ \E p \in Replicas, r \in Runs : Route(p, r)
  \/ \E t \in DOMAIN claims : Execution(t)
  \/ \E p \in Replicas : Supervisor(p) \/ CrashReplica(p) \/ Shutdown(p) \/ Exit(p)
  \/ \E r \in Runs : LeaseExpires(r) \/ Lapse(r) \/ Reauthorize(r)

LeaseSpec == LeaseInit /\ [][LeaseNext]_leaseVars

HolderGone(r) ==
  runRow[r].status = "running" /\ runRow[r].token \in DOMAIN claims
    /\ claims[runRow[r].token].phase = "dead"

\* An execution that works on, not knowing that its run is no longer its own.
Unaware(t) ==
  /\ t \in DOMAIN claims
  /\ claims[t].phase = "executing" /\ ~Holds(t) /\ ~claims[t].aborted

Tokens == 1 .. (Cardinality(Runs) * (MaxFix + 1))

(***************************************************************************)
(* Timers fire and promises that settle are resumed.  An execution returns *)
(* once its signal is aborted or its mandate's deadline has passed (every  *)
(* adapter call takes the signal); one that works is not asked to end.     *)
(* Time passes for the lease of a dead process, and a process told to stop *)
(* exits.  The services behind the preflight do not refuse for ever: that  *)
(* is the strong fairness of Recover.                                      *)
(***************************************************************************)
Fairness ==
  /\ \A t \in Tokens :
       /\ WF_leaseVars(t \in DOMAIN claims /\ OwnershipLost(t))
       /\ WF_leaseVars(t \in DOMAIN claims /\ (claims[t].aborted \/ claims[t].run \in lapsed)
                  /\ Ends(t))
  /\ \A r \in Runs : WF_leaseVars(HolderGone(r) /\ LeaseExpires(r))
  /\ \A p \in Replicas :
       /\ WF_leaseVars(Supervisor(p)) /\ SF_leaseVars(Recover(p)) /\ WF_leaseVars(Exit(p))

LeaseFairSpec == LeaseSpec /\ Fairness

-----------------------------------------------------------------------------
(***************************************************************************)
(* Properties.                                                             *)
(***************************************************************************)
\* The row names the latest claim of its run and no other: whatever expired,
\* was cancelled or raced, ownership only moves forward.
HolderIsLatest ==
  \A r \in Runs : runRow[r].token # NoToken =>
    /\ runRow[r].token \in DOMAIN claims
    /\ claims[runRow[r].token].run = r
    /\ claims[runRow[r].token].attempt = runRow[r].attempts
    /\ \A t \in DOMAIN claims : claims[t].run = r => t <= runRow[r].token

\* A stale worker cannot complete a run: a completed run was completed by the
\* execution of its last claim.
CompleteIsEarned ==
  \A r \in Runs : runRow[r].status = "complete" =>
    \E t \in DOMAIN claims :
      claims[t].run = r /\ claims[t].attempt = runRow[r].attempts /\ claims[t].result = "complete"

\* No run is executed more often than its mandate allows, over all replicas,
\* crashes and ways to claim it.
FixCyclesBounded ==
  \A r \in Runs : Cardinality({t \in DOMAIN claims : claims[t].run = r}) <= MaxFix + 1

\* A completed run stays completed and a cancelled one is never resurrected.
TerminalIsFinal == [][\A r \in Runs : runRow[r].status \in TerminalStatuses => runRow'[r] = runRow[r]]_leaseVars

\* An execution that has lost its run, by cancellation at any replica or to a
\* later claim, is told to stop.
StaleWorkerStops == \A t \in Tokens : Unaware(t) ~> ~Unaware(t)

\* A run whose process died is taken over, unless its mandate runs out.
InterruptedRecovers ==
  \A r \in Runs : HolderGone(r) ~> (~HolderGone(r) \/ r \in lapsed \/ cyclesSpent(r))

\* docs/executive-automation.md: a heartbeat renews ownership while work is
\* active; so a lease that has run out is renewed only for a working execution.
RenewedForWork ==
  [][\A r \in Runs :
       /\ ~runRow[r].live /\ runRow'[r].live /\ runRow'[r].attempts = runRow[r].attempts
       => claims[runRow[r].token].phase = "executing"]_leaseVars
=============================================================================
