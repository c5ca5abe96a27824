# RONOR: a verification project in TLA+

RONOR is a governed runtime for AI agents: it plans, executes and verifies work
under signed mandates, keeps an audit trail, and acts on a host only through a
mandated executor. This directory holds TLA+ models of the parts whose
correctness depends on interleaving, failure and time; the TLC configurations
that check them on small instances; and proofs, checked by TLAPS, that hold for
every instance. Paths below are relative to the repository's `src/`.

    tlc -workers 2 -config exec.cfg MCExecutor
    tlapm ExecutorProofs.tla

## 1. Inventory

| Component | State | Operations | What is hard | What makes it correct |
|---|---|---|---|---|
| **Mandated executor** `runtime/executor` | SQLite journal (executions, leases, revocations, STOP), STOP file, spawned clients, systemd units | `execute`, `stop`, `clear-stop`, `revoke-*`, `status`; every command is a process | processes interleave at every await and statement; crash between admission and finish; client killed while its job goes on; timeout against STOP | one execution per key; no fictitious outcome; a reply is always a recorded outcome; owners exclude each other |
| **Run registry and recovery** `runtime/automation/{run-lease,recovery-supervisor,run-control,background-run}` | a row per run with lease token and attempts, executions in memory, sweeps | claim, renew, finish, cancel, sweep, recover, shut down, reauthorize | replicas share the table; stalls and crashes expire leases under a live execution; the supervisor awaits between discovery and claim | ownership moves forward; a stale worker cannot complete; attempts bounded; terminal is final; interrupted runs are recovered |
| **Model budget** `runtime/automation/{model-budget,services/model-egress-proxy}` | budget row, reservations | reserve, settle, report | concurrent dispatches, unknown outcome, crash between dispatch and settlement | never above the ceiling; nothing billed escapes; a freeze is permanent |
| **Runner and mission fabric** `runtime/automation/runner`, `runtime/mission/store` | event log with version and hash chain, cost subtotal | plan, execute, verify, assure; append | resumption at any event; cost unknown while a dispatch is pending; two writers | a dispatch is never forgotten; the limit holds across attempts; one plan per run; complete means verified and assured |
| **Existing-commit verification** `runtime/automation/{existing-commit-verification,barrier-quiescence,development-controller}` with the evidence runner and the Codex verifier | a MAC-protected row per verification, the admission barrier of the worktree, executions and attempts to prove quiet in memory | start, status, cancel, stop; admission of authoring runs; restart | tests and model calls go on after a cancellation, a deadline or a crash; proofs of quiet are awaited and may be stale; answers come late | the worktree is reserved while anything may use it; a verdict is final; the worktree comes back |
| **Audit chain and mirror** `audit/hash-chain`, `persistence/audit-mirror` | chain in SQLite, copies in a remote register, counters and memo of each process | append, verify, mirror, health report with probe | head read and link inserted in two statements by replicas; copies started and never awaited, lost, late, timed out; counters forgotten at restart | the chain verifies unless appends raced; a healthy report is true; chain and register are a log with copies |
| **Gate, co-signatures, decision loop, Model Exchange** `governance`, `orchestrator.ts`, `decision-loop`, `model-exchange`, `api/router.ts` | held answers, hourly window, state of charge, sessions, query histories | infer, co-sign, decide, query | awaits between verdict, record, retention and release; failing database; two replicas; replay of a decision | an answer that was not allowed goes out only after its record and a co-signature, once; what is executed is recorded and inside the envelope |
| **Runtime API, router, providers, agents** `runtime/{api,router,providers,agents}` | ledgers, attempts, calibration windows, pending approvals, missions | query, dispatch a mission, settle an approval, revoke a key | engines fail, refuse or time out between other requests' steps; settlement twice; restart with a mission open | an approval executes once; confidential content stays inside; what is spent is in the ledger |
| **Telegram bridge and trading dialogue** `interfaces/telegram` | approval store with TTL, rate limit, uploads | commands, buttons, documents, settlement on the runtime or the trading arm | webhook updates run concurrently; a timed-out call may have worked; TTL against a late press; restarts of either side | a mission runs once; "approved" was done |
| **Knowledge plane and bridge** `knowledge`, `planes/r-knowledge`, `runtime/knowledge` | documents with chunks and vectors, degradation level | ingest, search, probe, status | two planes over one file; failing reads, writes and embeddings between the stages; configuration | nothing above the reader's clearance; what was acknowledged is held |
| **Sequential algorithms** `providers/deterministic`, `agents/decompose`, `knowledge/chunker`, `sentinel` | readings, alerts, degradation ladder; otherwise none | compute, repair a plan, cut a text, collect | malformed input, cycles, windows at the end of a text, hysteresis | equal to a grammar; executable plans; chunks cover; degradation is warranted |
| R-PowerTrade, web console, scripts, adapters of external tools, archive | | | | not modelled (section 7) |

How they interact: the HTTP runtime (`runtime/api/routes.ts`) claims a run in
the registry and launches the runner, which appends to the mission fabric and
calls the adapters; their model calls pass the egress proxy with a signed
budget. The recovery supervisor re-launches interrupted runs through the same
claim. Queries and agent missions pass the pipeline, which asks the gate
(`MI9Gate`), the model router and, for grounding, the knowledge bridge; a mission
the gate escalates is held until an operator settles it over HTTP or through the
Telegram bot. The older surface (`src/orchestrator.ts`, the decision loop and the
Model Exchange) uses the same gate and the same audit chain, whose links are
mirrored. The executor is separate: a command-line program started per request,
sharing nothing but its journal. `PROJECT.json` lists every component with its
status, and under `hazards` each place where an order of steps, a failure or a
bound could break it, with the properties aimed at it.

## 2. Modules

### Executor

`Executor.tla` models `executor.ts`, `journal.ts`, `runner.ts`, `cli.ts` and the
verification of `approval.ts`. A request is an operating-system process; `pc` is
its place in `execute()`. Each variable is a table or an in-memory object:
`rec` the `state` column, `lease` the table of leases, `stop` the effect of
`stopReason()`, `revoked` the table of revocations, `client`/`why`/`halt` the
runner's child, `reason` and `haltUnit`, `job`/`unit` systemd.

| Code | Actions |
|---|---|
| `main`, `new ExecutorJournal` | `Start` (closes the rows of dead processes), `Status` |
| gates 1-5 | `Authorize` |
| gates 6-7 | `AnswerFromJournal`, `CheckApproval` |
| gate 8 | `ClaimLease` |
| gate 9, awaited | `UnitReadable`, `UnitRefuses` |
| STOP read again, `admit`, its catch | `StoppedBeforeAdmission`, `Admit`, `AdmitFails` |
| late STOP, `markStarted` | `LateStop`, `MarkStarted` |
| poll, timeout, `terminate`, `haltUnit` | `Poll`, `TimeOut`, `HaltCommand`, `HaltRead` |
| outcome, `finish`, `finally` | `Finish`, `Release` |
| console | `SetStop`, `Revoke`, `SetStopFile` |
| environment | `Crash`, `ExpireLease`, `Lapse`; external: `ClientSubmits`, `ClientAnswers`, `JobEnds` |

Abstractions. Signatures, shapes and the catalogue have a verdict that no step
changes: the fields `static` and `authentic`. Time is the sets `lapsed` (windows
that ended) and the flag `expired` of a lease. Statements that follow each other
without reading shared state that could change against them are one step: the
revocations and windows only grow, so reading them together is reading them at
the earlier point. The contradiction check and `claimLease` are consecutive
statements and one step. The two rounds of `haltUnit` (stop, kill) are one. An
observation without a key has a key of its own. A client that was sent SIGTERM
submits nothing more; where the client runs under `sudo` the signal may be
refused (EPERM, swallowed at `executor/runner.ts:171-179`), and the client then
survives: that case is outside the model, and so is a recycled pid. `AdmitFails`
is also the journal that cannot be written.

`Overtime`: the lease lasts the plan's timeout plus 30 s. All steps fit in that
except halting a unit, which may take up to about 90 s. With `Overtime = TRUE` the
lease may run out during a halt.

### RunLease

`RunLease.tla` models the run registry, the supervisor, the registry of
executions of a process and the routes that start and cancel a run. `runRow[r]` is
the row of `runtime_automation_runs`; `claims[t]` is the t-th successful claim,
and t stands for its token (a fresh UUID; `NoToken` is NULL). A transaction with
the synchronous code around it is one step.

| Code | Actions |
|---|---|
| `POST /control/automation/run` | `RunAccepted`, `RunAlreadyActive`, `RunLeaked` (an exception after the heartbeat started) |
| cancel route | `CancelRun` |
| heartbeat | `Renew`, `OwnershipLost`, `RenewThrows` |
| `launchAutomationRun`, end of `recover` | `Ends` |
| supervisor | `Sweep`, `NextCandidate`, `Skip`, `Recover` |
| `reconcileLegacyAuthorFailure` | `Reauthorize` |
| `stop()`, exit | `Shutdown`, `Exit` |
| environment | `LeaseExpires` (at any time: a stalled process), `Lapse`, `CrashReplica` |

Mandates have one immutable content per run, so fingerprint conflicts and
signature failures are refusals that change nothing. A mandate's expiry is the
set `lapsed`. What an execution does is abstract: it ends "complete" or not.
`Shutdown` has two forms: `src/index.ts` stops only the supervisor and so aborts
the recovered executions, the development controller interrupts every active
one. `Exit` is the end of that shutdown, which `index.ts` forces within 10 s.

### ModelBudget

`ModelBudget.tla` models one budget at the egress proxy: the ledger's
transactions (`reserve`, `settle`, `settleUnknown`) and the route (`Refuse`,
`DispatchCall`, `Completed`, `UsageUnknown`, `Failed`, `StoreUnavailable`), a crash
of the proxy, and the provider (`Bill`, external), which may bill a call nobody
waits for. `Refuse` stands for every refusal before dispatch.

### MissionRunner

`MissionRunner.tla` models one run: `runExecutiveMission()` of
`automation/runner.ts`, the code in `runtime/api/routes.ts` that starts it (the
route and recovery's `execute`), and the mission fabric of `mission/store.ts` as
far as the runner reads it back. `cost`, `items`, `planned`, `task`, `assured` are
those projections; `row` is the run's row as in RunLease; `att[e]` is the memory of
the e-th attempt, with its place `pc`. `spent` (what all calls cost) and `writer`
(who wrote the status last) are history variables, as is the field `bill` (the
cost of the call that is out).

| Code | Actions |
|---|---|
| claim, status "queued" | `Claim`, `Queue` |
| gates, completed run, resumption | `Refuse`, `AlreadyComplete`, `Enter` |
| LangGraph and the stored plan | `Planned`, `PlanningFails`, `StoreItem`, `StorePlan`, `BeginWork` |
| the loop over assignments | `SkipCompleted`, `HaltWork`, `StartTask`, `CompleteTask`, `Settle` |
| calls to adapters | `Dispatch`, `AdapterFails`, `AccountingUnknown`, `Executed`, `Verified`, `VerificationFails` |
| Codex, Victoria | `EnterVerification`, `Verdict`, `RecordVerdict`, `EnterAssurance` |
| `terminal`, exceptions, `finish` | `Terminal`, `Throw`, `UnhandledFailure`, `RecoveryFailure`, `HandlerThrows`, `Finish` |
| environment | `Crash`, `Cancel`, `Abort`, `Expire` |

Abstractions. An append that changes a projection the runner reads is a step;
appends that change none (failures, evidence, conversation, the mandate's
checkpoint) are part of the step they precede, and `Throw` is the exception any
append may raise. The reads of `Enter` follow each other in one process without
an await. Amounts are natural numbers; -1, -2 and -3 stand for null, for a
projection without the field, and for no projection. Evidence artifacts and
their digests are the verdict of `Verified`. One call at a time is out, as in the
code. `Overlap` says whether a lease may expire under a live attempt.

### CommitVerification

`CommitVerification.tla` models `existing-commit-verification.ts`, the routes of
`development-controller.ts`, `barrier-quiescence.ts` and `cost-reconciliation.ts`,
with the services a verification calls. `row[v]` is the record of a verification,
`gate` the owner in `runtime_existing_commit_admission`, `exec[v]` the entry of
`running` with its phase, `quiet[v]` the entry of `releasing` with what it read
before its first await, `asking[v]` an awaited `reconcile`; `remote[v]` is how far the
service has come that was asked last, `ledger[v]` the budget at the proxy,
`author[d]` a request to start an authoring run. A step is the code between two
awaits of the controller.

| Code | Actions |
|---|---|
| `claim`, `beginDevelopmentAdmission` | `ClaimRefused`, `beginDevelopmentAdmission`, part of `Start` |
| `start`, `status`, `cancel` | `Start`, `StartRefused`, `status`, `cancel` |
| `execute`: awaits, timer, catch, finally | `Attested`, `EvidenceRead`, `CodexRead`, `Accepted`, `DeadlineExceeded`, `Fails` (with `ends`) |
| `attemptQuietRelease` | `attempted`, then `LedgerProves`, `QuietRelease` or `Doubt` |
| `reconcile` | `Reconciled` |
| `stop`, constructor and its sweep | `stop`, `Exit`, `Restart` |
| `POST /control/automation/run` | `RunAccepted`, `ResponseFinishes`, `CallerDisconnects` |
| evidence runner, Codex verifier | `TestsBegin`, `TestsRefused`, `TestsEnd`, `CodexDeclines`, `CodexDispatches`, `DispatchEnds` |
| environment | `Crash`, `Lapse` (a deadline passes), `RunEnds` (RunLease) |

Abstractions. One controller process, as deployed. The three attestations before
the tests change nothing and are part of `Attested`; Victoria's answer is `Accepted`
or `Fails`. Contents of evidence and receipts are the service's favourable or
unfavourable answer. Rows that fail their integrity check (they block admission)
and a changed policy digest are left out; a cancel of a finished verification is
`status`; keep-alive requests that reach a stopped controller are not modelled, nor
is the remote work of an authoring run after its row ended.

### AuditLog, AuditMirror

`AuditMirror.tla` models `audit/hash-chain.ts`, `persistence/audit-mirror.ts` and
what the mirror uses of `memory-manager.ts` and `supabase-adapter.ts`. `rows` is
the chain's table, `register` the remote one, `wire` the writes under way, `proc[p]`
the memory of a replica (counters, last confirmation, memo, probe), `raced` whether
two appends overlapped. A hash is the sequence of payloads it commits to.

| Code | Actions |
|---|---|
| `append` | `ReadHead`, `Insert` |
| `mirrorRecord` and its answer | `Mirror` (`WriteConfirmed`, `WriteFails`), environment `RowLands`, `RowLost` |
| health report | `Health` (`HealthRequest`, `ProbeAnswers`, `ProbeTooSlow`, `MemoExpires`, `ConfirmationExpires`) |
| process | `Crash`, `Restart` |

`AuditLog.tla` is the promise: a log that grows at its end and a register of
copies, each at most once. `ImplementsLog` is AuditMirror's refinement of it.

### MI9Gate, BessScenario, ModelExchange, GovernedDecisions

`MI9Gate.tla` is the nine-gate evaluation with the exposure analysis,
`BessScenario.tla` the battery day, its baseline policy and its envelope,
`ModelExchange.tla` the registry of engines, the policies P1 to P8, the score, the
gate's context, what adapters may return and the assurance: all pure operators.
`GovernedDecisions.tla` runs them on replicas over one database. `chain` and `held`
are the audit chain and `cosign_pending`; `req`, `ses` and `qry` the requests in
flight with their place; `work` the work ledger of the Exchange; `busy[p]` the
uninterrupted section a replica is in, cut at its database statements.

| Code | Actions |
|---|---|
| boot, `enforceAtBoot` | `Boot`, `Crash` |
| the planes of `POST /inference` | `Gateway`, `Context`, `ModelFabric`, `Gate`, `Enforce`; catches `GateRaises`, `HoldRaises` |
| `POST /cosign` | `CosignRead`, `CosignAppend`, `CosignMark`, `CosignAppendRaises` |
| `POST /decisions` | `Decide`, `Propose`, `LoopEvaluate`, `LoopAppend`, `LoopAppendRaises` |
| `POST /query` | `Query`, `ExecuteEngine`, `QueryAppend`, `recordWork`, `QueryRaises` |
| time | `Tick` |

Scores are hundredths, exposures ten-thousandths, prices integers. Texts are
lengths or the classes a decision looks at. `policies.yaml` is a value.

### Providers, ModelRouter, Decompose, MissionDispatch

`Providers.tla`: when an adapter has a credential, which models it serves, which
outcomes its answer has. `ModelRouter.tla`: catalogue, policy filter, score,
calibrator, ranking. `Decompose.tla`: worker passports, validation, repair and order
of a plan, choice of tools. `MissionDispatch.tla` composes them with the gate: a
`job` is one API request at its place, whose engine calls are made one at a time.
`win` are the calibration windows, `attempts` and `rows` the ledgers (a row has the label
of its request or of its task, and a second write under a label replaces the first), `pend` the
pending approvals (memory), `missions` the mission rows, `trail` the audit chain,
`keys` the API keys, `deployed` the environment, `faults` what went wrong so far.

| Code | Actions |
|---|---|
| pipeline up to the first engine | `QueryArrives`, `Retrieved` |
| `POST /agents/dispatch`, approval routes | `Dispatch`, `Settle` |
| an engine's answer, in an exchange or a worker | `Respond` |
| mission loop | `StartTask`, `EndOfPlan` |
| keys, time, process | `Revoke`, `Reactivate`, `Tick`, `Restart` |

### TelegramBot

`TelegramBot.tla` models `bot.ts`, `approval-store.ts`, `ronor-client.ts` and
`energy-trading/` with the two services the bot settles against. A `handler` is an
update being processed and stops at every await; `store` is the approval store,
`rate` and `upload` its other memory, `held` what the runtime has of a mission, and
`released`, `by`, `disturbed` are history. Actions: `Update` (an update arrives and
its handler runs to the first await), `Step` (the handler goes on with the outcome
of its call), `Prune`, `Tick`, `Restart` (the bot), `RuntimeRestarts`. In polling mode
one handler runs at a time. The trading arm is external.

### KnowledgeConfig, Knowledge

`KnowledgeConfig.tla` is what the plane derives from its environment: resolved
configuration, store, embedding adapter, degradation level, readiness.
`Knowledge.tla` runs ingestion and search over it; `plane` are the two plane
objects of a process, `rows` the documents in the file, `service` whether the
embedding service answers, `job` the requests at their stage.

| Code | Actions |
|---|---|
| `index.ts`, bridge | `StartMain`, `RequestMain`, `RequestBridge`, `InitBridge` |
| health probes | `ProbeStore`, `ProbeEmbedder` |
| ingestion stages, corpus | `Screen`, `Store`, `Respond` |
| search | `Search`, `Hydrate`, `Query` |
| status | `Status` |
| environment | `ServiceFails`, `ServiceReturns`, `Rot`, `ProcessRestart` |

Ranking, injection patterns and texts are inputs: a document is what the stages
tell apart. Qdrant's live transport is external. `AcknowledgedIsHeld` says of each
report what the code can promise: after "ingested" every chunk of the document is in
the table; after "duplicate" its first chunk is, and the document that has it is stored
whole, or another document with that first chunk was.

### ExactArithmetic, Subsequences, Chunker, Sentinel, Algorithms

`ExactArithmetic.tla` has the sign rewriting, the shunting-yard pass and the stack
evaluation of the deterministic provider, over tokens, beside the grammar they
implement (`Values`). `Subsequences.tla` has `keep`, the `filter` and `slice` of the
repair and of the splitter, as an operator that can be reasoned about (`SelectSeq` is
recursive). `Chunker.tla` has normalisation and the overlapping windows: a turn of the
loop is `nextPiece`, and `pieces` is as many turns as the text has characters.
`Sentinel.tla` has bands, hysteresis, ring and degradation ladder. `Algorithms.tla`
extends `Decompose` and `Chunker`: a behaviour writes one input element by element
(`algorithm`, `input`), and `plane` is the sentinel's state; the properties compare
outputs with reference definitions on every prefix.

### MC modules

Each MC module gives the constants of its specification small values. No
configuration replaces a definition.

## 3. Runs

| Run | Shows | States |
|---|---|---|
| `exec` | keys executed once, outcomes real, replies recorded, owners exclusive; started processes end, leases are freed | 347 k |
| `run_lease` | completion earned; stale workers stop, interrupted runs recover | 250 k |
| `budget` | the ceiling and the coverage of bills | 27 k |
| `mission` | accounts, limit, plan and completion of a run over its attempts | 1.47 M |
| `audit` | the chain verifies, a healthy report is true and recent, refinement of AuditLog | 1.75 M |
| `cosign` | governed answers, single release, records of what was executed, the hourly limit, how far a battery may stray from its envelope | 1.02 M |
| `dispatch` | an approval executes once, confidential content stays inside, spending is ledgered | 341 k |
| `telegram` | a mission runs once, "approved" was done | 499 k |
| `knowledge` | clearance of answers, acknowledged documents are held | 3.53 M |
| `knowledge_recovery` | a recovery the documentation promises and the code does not make (section 5) | |
| `verification` | the barrier covers what may be running, verdicts are final, the worktree comes back | 780 k |
| `algorithms` | calculator, plan repair, splitter and alert ladder against their references | 827 k |

Bounds. Executor: two processes on one unit, because every property relates two
requests, and five pairs of inputs (a retry of one approval by another owner,
rivals, an owner who acts and observes, an approval reused for another action, a
malformed request beside an approval that came from memory). STOP, crashes, the
revocation of one approval and the end of the other's window happen at any point.
RunLease: one run, two
replicas, one fix cycle (two attempts), two outages: enough for a claim, a stall,
a takeover by either replica and the return of the stale worker. ModelBudget:
three calls, two at a time, amounts 1..3 against a ceiling of 6, overrun by 1,
two signed subtotals. MissionRunner: three attempts, so that a third one meets
what an interruption of the second left; calls that cost nothing or the whole
limit of 2; two permitted assignments and one outside the mandate, in three plans
two of which share an assignment, so that a second planning can disagree with the
first. Attempts follow one another; what holds when they overlap is proved (section 4).
AuditMirror: two replicas, so that appends race, and one kind of payload.
GovernedDecisions: two replicas, operators, sessions and queries, interchangeable
(TLC's symmetry; no liveness is checked there); two autonomous decisions per hour,
so that the limit is met; a market day with a dear hour between two cheap ones, whose
discharge is held while the charge after it is executed, so that the battery does end
above its ceiling (to end below the floor a charge would have to be held and a discharge
executed, and the gate holds every discharge of that size: that side rests on the
proof); two hours of clock, a crash, a failing statement; seven
deployments (a policy that classifies the domain and the repository's own; the gate
armed or not, in and out of production; two sessions; two queries). MissionDispatch:
three deployments, one of which could call an engine of level 0, two missions, five
queries (a restricted one names that engine among the allowed), planner answers with an
unexecutable plan and a cyclic one, engines that answer, block or time out, a restart.
TelegramBot: two handlers, because the races are between two updates;
three users of different roles, two approvals, three updates, two faults, TTLs
shorter than the clock. CommitVerification: two verifications and an authoring
request, so that a late proof, answer or release of one meets another owner, and
one shutdown or crash. Knowledge: two jobs, six documents in three batches, three
queries, four environments. Algorithms: expressions of up to 6 tokens, plans of up
to 3 tasks, texts of up to 7 characters, up to 4 polls of two metrics, unavailable and
non-finite readings among them: long enough for a sign inside a parenthesis, a cycle with
a task behind it, three windows, and an alert that is confirmed and cleared. Deadlock is not an error in these systems:
requests and runs come to an end, and bounded inputs run out.

Fairness. Executor: a process that has started goes on (Node's event loop, timers
and bounded commands), and time passes for leases; nothing is assumed of the
console, systemd or callers. RunLease: heartbeats fire (`OwnershipLost`); an
execution returns once its signal is aborted or its mandate's deadline passed,
as every adapter call takes the signal; the lease of a dead holder runs out; the
supervisor's timer fires; a process told to stop exits; and the services behind
the preflight do not refuse for ever (strong fairness of `Recover`). An execution
that works is never required to end, and a mandate is never required to expire.
Knowledge (`KnowledgeFairSpec`, used by `knowledge_recovery` only): the process starts, a
request in progress goes on, the embedding service returns, and documents are
offered again and again (strong fairness of `Offers`). CommitVerification:
deadlines pass, their timers fire, a call whose signal is aborted rejects, a
controller that went down is restarted, and somebody keeps asking for the worktree
(strong fairness of `beginDevelopmentAdmission`); nothing is assumed of the services,
which may never answer. The other specifications are
checked for safety only.

Every property of a passing run has a mutant: the definition with a plausible
bug (named `<definition>_<bug>` next to it) under which TLC finds it violated.

## 4. Proofs

Eight modules: `ExecutorProofs.tla`, `AutomationProofs.tla` (RunLease and
MissionRunner), `VerificationAndKnowledgeProofs.tla` (CommitVerification and
Knowledge), `AuditMirrorProofs.tla`, `GovernedDecisionsProofs.tla`,
`MissionDispatchProofs.tla` (MissionDispatch and ModelBudget),
`TelegramBotProofs.tla` and `AlgorithmsProofs.tla` prove, for every value of the
constants that satisfies the named assumptions:

* Executor: `TypeOK`, `KeySingleUse`, `LiveRowIsOpen`, `OutcomeIsFinal`,
  `ReplyIsRecorded`, `DoneIsReal`, `InterruptedIsQuiet` unconditionally;
  `LeaseCountsHolders` and `ExclusiveAcrossOwners` if halting does not outlast
  the lease (`~Overtime`). The inductive invariants tie `pc` to the row (which
  states a process at each place may have), the client to the job (an exited
  client with code 0 had its own job done), and the row to the keys (two rows
  never share one). `ReplyIsRecorded` needs `NonceAssumption`: a signer does not
  use one `approval_id` for two actions. For the lease, the invariant counts
  holders: the proof needs their cardinality to change by one with each claim and
  release, hence `RequestsAssumption` (finitely many).
* RunLease: `TypeOK`, `HolderIsLatest`, `CompleteIsEarned`, `FixCyclesBounded`,
  `TerminalIsFinal`. The invariant `LeaseInv` adds the shape of a row (a token exactly
  while running), the order of claims (the attempts of a run's claims increase
  and are at most its row's) and that a result belongs to an ended claim.
  `FixCyclesBounded` follows since claim |-> attempt is injective on the claims
  of a run, into 1..MaxFix+1.
* MissionRunner: `TypeOK` and `CompleteIsVerified` unconditionally; `CostIsAccounted`,
  `OverrunIsOneCall`, `CompletedIsAnswerable` and `PlanIsKept` if attempts do not overlap
  (`~Overlap`, what the lease gives while its holder renews it). The first three relate
  the fabric to what was spent, and between the two stand the subtotal in memory and the
  call that is out. The invariant `Inv` therefore says for each place of an attempt
  what these four amounts have to do with each other (`Books`), that at most one
  attempt is alive (`Solo`), and what the fabric and the registry say (`Ledger`).
  `CompleteIsVerified` rests on two invariants that overlapping attempts keep.
  `ProgressInv` says what an attempt has behind it: the assignments before its position
  are complete, all of them once it asks for a verdict; no other attempt takes that
  back (`TasksKept`). `PassInv` says that who ends with "complete" has Victoria's pass in
  the fabric. `PlanIsKept` is about what a later attempt reads: `KeptInv` says that while
  a plan is being stored the checkpoints hold a prefix of it, and that an attempt which
  works has the plan that would be read back. The plan is read with `FlattenSeq`, a
  recursion over the checkpoints; `PlanReadBack` undoes it by counting up (`CountingUp`).
* CommitVerification: `TypeOK`, `BarrierCoversWork` and `VerdictIsFinal` for any
  number of verifications, authoring requests and crashes, from `OwnersAssumption`
  and `CrashesAssumption` alone. A proof of quiet is gathered over two awaits and used
  after them, so the invariant `Inv` says of each verification what its attempt has
  already excluded (`Proof`); that rests on which service may be out in which phase
  (`Phase`) and on what the ledger tells of the model's call (`Budget`). `Covered`
  is the property, strengthened by the executions that are before their deadline.
* Knowledge: `AnswersWithinClearance` and `AcknowledgedIsHeld`, for any documents, batches,
  queries, environments, faults and restarts, from `KnowledgeAssumption`. `KnowledgeInv` says
  of the table that its rows are chunks of screened documents under a classification
  inside the ceiling of the store and that no document is held in part (`RowsOk`); and of a
  request, for each of its stages, that the acknowledgements given so far are true of the
  table and that what a search hydrated was within the clearance of the query (`JobOk`). Rows
  are only ever added by a working store, so what was acknowledged stays true.
* AuditMirror: `TypeOK`, `ChainVerifies`, `NoFalseGreen`, `GreenIsRecent`, and that
  the chain and its mirror implement AuditLog (`ImplementsLog`), for any number of
  replicas, links and probes, from `PayloadsAssumption` and `BoundsAssumption`. The
  health report counts holes in a window that is compacted as answers come in, and is
  sent after an await. So the invariant says what the window's start and the confirmed
  links stand for in the register (`Window`), and what a count taken before the await
  still means after it (`Stored`). The refinement needs that an insert which is
  out belongs to a recorded link without a row (`OneRowPerLink`).
* GovernedDecisions: `TypeOK`, `ReleasedOnce`, `AnswersAreGoverned`,
  `AutonomousWithinLimit` and `ExecutedIsRecorded` for any number of replicas, requests, sessions,
  queries, operators and crashes; `ExecutedWithinEnvelope` and `AllowedIsNotRejected` under one
  hypothesis each. They rest on `DecisionAssumption`, `DeploymentsAssumption`,
  `ModelActionsAssumption` and `ScenarioAssumption`. The invariant `Inv` has a part
  for each actor (`Answers`, `Loops`, `Exchanges`) and one for the section a replica
  is in (`Sections`): between two awaits the rows and the chain disagree, and `BusyOk`
  says what the section in progress has written and what it has yet to write. That an
  operator signed before the row changed is remembered only in the chain, so `Answers`
  carries the positions of the two records.
  The hourly limit is a window the gate keeps by filtering its own memory, while the
  property counts decisions over the whole history: `RateInv` says that the window of a
  replica records the decisions it ran, in order, and that no hour up to now or
  later holds more of them than the limit.
  For the battery, `Battery` says that the charge of a session differs from the one
  `fallbackDay` had at that hour by at most an hour at rated power for each held action,
  downwards for a charge and upwards for a discharge (`Drift`, kept by `DriftMoves`); the
  day of the fallback itself stays between floor and ceiling. `fallbackDay` and
  `runBaselinePolicy` are recursive functions; that they stay in bounds is proved by the
  first hour at which they would not (`WFMin`), as induction is not available. The
  hypothesis is that the day starts inside the envelope: `DEMO_ASSET`
  (`bess-scenario.ts:261`) does, a caller may send an asset that does not, and the
  adapter does not check. `AllowedIsNotRejected` assumes `SoundAsset`, the two scores
  below which the exposure analysis is critical by the asset alone; the proof bounds
  every exposure of an action that passed all nine gates.
* MissionDispatch: `TypeOK`, `ApprovalExecutesOnce`, `ConfidentialStaysInside` and
  `SpendIsLedgered`, for any requests, deployments, planner's answers, results of the
  engines and restarts, from `DispatchAssumption` alone.
  Two facts carry the approval. `MissionsNeedConsent`: a mission has side effects and no
  sources, so under every policy modelled the gate holds or blocks it, and only a
  settlement starts one. `StoreOk`: a record of the approval store belongs to a job
  that is still held, under its key and expiry, so that a job has at most one record and a
  consumed one does not come back.
  For confidentiality, `GuardInv` says that every engine a job has asked or may still ask
  is admitted for its request. That rests on lemmas about the router: the ranking is a
  permutation of the eligible engines, whatever scores the windows give, and the windows
  stay well formed over restarts, where they are seeded from the recorded attempts.
  For the ledger, `SpendInv` balances what was charged with the rows and what is in
  hand (`LedgerOk`). A row is written under the id of its task, and a second one under the same
  label would replace the first: that plans have distinct ids, which repair establishes,
  is part of the invariant.
* ModelBudget: `WithinCeiling`, `BillsAreCovered`, `DispatchesBounded` and `FrozenForGood`, for
  any number of calls, amounts, earlier spending and overruns, from `BudgetAssumption`.
  `BudgetInv` bounds what is spent and reserved together, as long as no settlement exceeded
  its reservation, and says that what is spent covers the settled rows. Sums over the
  reservations change by one row at a time; the lemmas that say so build a set of calls
  up from the smallest for which the sum would be wrong.
* TelegramBot: `MissionRunsOnce`, `ApprovedWasDone` and `ReleasedByApprover`, for any
  number of users, handlers, approvals and faults, in both modes, from
  `TelegramAssumption` alone. An approval is looked at before an await and marked after
  it, so `WorkOk` says of each handler what it has established about its approval,
  which no step of another handler takes back, and `ApprovalOk` that the runtime's
  record counts the runs of a mission.

* Algorithms: `PlanIsExecutable`, `DegradationIsWarranted` and `ChunksCover` for inputs of any
  length, from `AlgorithmsAssumption`. Repair goes round until no task remains: `RoundInv`
  says that ordered and remaining tasks divide the plan, that the ordered ones are in
  order, and that without a cycle no dependency was lost; each round takes a task or severs a
  dependency, so the rounds provided are enough. `PollsInv` follows the plane through the
  polls: its pending bands, streaks and levels are those of the readings. `LoopInv` says
  that the pieces so far cover the text up to the cursor and how the last one lies to it.

Two forms recur. A handler that returns early is one definition with an IF chain, and a
proof about it has a CASE for each return. Where the code loops over data, the models use
recursive functions and folds, and the proofs look at the first index at which the claim
would fail (`CountingUp`, `WFMin`) or the smallest set (`AddingElements`), as the library's
induction theorems take an operator as a parameter.

The type invariants of these modules, `LiveRowIsOpen`, `LeaseCountsHolders`, `OutcomeIsFinal`,
`HolderIsLatest`, `FixCyclesBounded`, `TerminalIsFinal`, `CompletedIsAnswerable`,
`DispatchesBounded`, `FrozenForGood` and `ReleasedByApprover` are proved and therefore not
repeated in a run.

Left to TLC: liveness (`EveryProcessEnds`, `LeaseIsFreed`, `StaleWorkerStops`,
`InterruptedRecovers`, `WorkspaceComesBack`), since fairness and ENABLED are beyond the
prover; and `ComputedIsExact`, which compares two readings of one expression, a pass with
a stack and a grammar, and needs an induction over the structure of the expression.
No type invariant is proved of Knowledge, ModelBudget's is part of `BudgetInv`.

## 5. Findings

### A finding with a run

`knowledge_recovery`: one refused write sets `writeRefused`
(`knowledge/stores/sqlite-store.ts:223`), which raises the degradation level; at
that level ingestion refuses before it reaches the store (`ingestion.ts:354`), and
only a successful write clears the flag. `planes/r-knowledge/index.ts:282` says
every level is reversible without a restart. `LevelRecovers` is violated under
`KnowledgeFairSpec`: the store works again and documents keep being offered.

### Statements the code does not keep

Each is a definition beside the model; a configuration with the constants of the
named run and the definition as its invariant or property gives the counterexample.

1. `SingleActuationPerUnit` (`exec`, with a pair of requests of one owner under two
   approvals): one owner with two approvals is
   admitted twice on one unit; `executor.ts:28` says a second actuation is refused
   whoever owns it.
2. `NeverAdmitsRevoked` (`exec`): a revocation during the await of the
   unit's state is not seen before the start; only the poll catches it.
3. `RenewedForWork` (`run_lease`): a start request that fails after
   `startHeartbeat` leaves a heartbeat that renews a run nobody executes, until the
   process exits.
4. `SettledAsBilled` (`budget`): the settlement report contains reserved worst cases.
5. `UnknownIsNeverFree` (`mission`): when an append throws after a dispatch, the
   route's handler records a cost of zero, and the next attempt spends from there.
   The accounting properties exempt runs with that recorded failure.
6. `NoSilentReplacement` (`mission` with `Overlap = TRUE`): the runner reads the
   version right before each append, so the expected version fences nobody; an
   attempt whose lease ran out overwrites its successor's status.

### What the models show besides

These are behaviours of the code that the models have as well; the properties are
stated around them, and a reader who changes the code should know them.

* Existing-commit verification. A test request that is delivered after its sender
  gave up escapes the proof of quiet: the verification is cancelled, the runner is
  asked, is idle, the barrier goes, and then the tests begin
  (`existing-commit-verification.ts:250`). `BarrierCoversWork` exempts such requests
  (`late`); for the model's request the code has `reached_model`, and needs it. The
  barrier of an authoring request whose caller disconnects, or whose controller dies
  before the response, is never released: only `verify_` owners are (`:168`). The
  comment at `development-controller.ts:102` keeps it on purpose, but nothing in the
  code gives it back; `WorkspaceComesBack` is about verifications. A run whose budget
  the proxy refused has reached the model and no budget, so it holds the worktree
  until its deadline.
* Audit. Replicas can fork the chain (`hash-chain.ts:164-187`: head and insert are
  two statements); `ChainVerifies` therefore exempts raced appends. A lost copy is
  never sent again, although `r2-adapter.ts:27` says "queued in memory and
  retried"; holes are forgotten at a restart, another replica's links count as
  holes, and a timed-out write may still land.
* Inference and co-signature. `POST /inference` passes no metadata, so the
  repository's own policy blocks every inference. When the gate, the append or the
  hold raises, the response keeps its content (`orchestrator.ts:239`). A crash
  between append and hold leaves an escalated record without a row to co-sign. The
  decision loop applies an action before it records it. It computes a proposal for the
  charge at dawn and does not compute it again when an action is held: what follows is
  applied to a battery that is not where the proposal thinks, and `applyAction`
  (`decision-loop/orchestrator.ts:318`) checks no bound, so the charge may leave the
  governed envelope. `ExecutedWithinEnvelope` says how far. The hourly window is
  memory of a replica: a restart or a second replica starts a new one.
* Model Exchange. Only a `block` verdict stops a query: one that is escalated or
  needs a co-signature is executed and answered, and recorded as held. A fallback
  engine runs under the first engine's verdict. A query refused by policy, or whose
  engines all failed, leaves neither audit record nor ledger row
  (`work-ledger.ts:4`: "Every request produces one entry"). The header of
  `policy.ts` calls P8 the MI9 pass; the code's P8 is the jurisdiction pin.
* Dispatch. An escalated query is executed and answered. A rejected mission stays
  "open" and leaves no audit record. The planner's cost has no ledger row, and a
  mission whose workers all failed has no mission row; `SpendIsLedgered` counts the
  planner's cost apart. `jurisdiction_pin` of a mission is accepted and not
  forwarded. Truncating a plan may drop the curator. A crash leaves the mission
  "executing" and forgets pending approvals. The gate reads the USD budget as EUR.
* Arithmetic. `(2 3 +)` is 5 and `2 ()` is accepted, although
  `deterministic.ts:137` says null on any malformity; `-2^2` is 4; `-(-2)` declines.
  The properties are about the sentences of the grammar.
* Runs. An attempt that dies while it stores its plan leaves items behind; the next one
  plans again under the same numbers (`runner.ts:150`) and the fabric keeps both. A later
  attempt takes the merged list for the plan if its assignments are distinct, a plan
  that nobody made, and otherwise plans anew each time. `PlanIsKept` therefore speaks of
  runs where nobody was interrupted there.
* Plans. Repair severs the first unmet dependency of the first remaining task,
  which may lie behind the cycle and not on it.
* Telegram. Approving by id does not look at the expiry. Two presses in webhook
  mode may nominate twice. A gate may say "approved" though the arm failed, and
  "rejected" though the runtime ran the mission (a timeout, then 409:
  `ronor-client.ts:157-172`); `ApprovedWasDone` exempts trades whose nomination
  failed. Pruning happens in polling mode only.
* Knowledge. No configuration opens Qdrant (`vector-store.ts:196` has no transport
  factory) and SQLite is prohibited in production: a production plane is always at
  level 3. The duplicate check compares the first chunk only, and concurrent
  ingestion of one document stores it twice. A failed read in a search is an empty
  answer. Documents stored without vectors are never embedded later.
  Normalisation is not idempotent, which `tests/knowledge/chunker.test.ts:56`
  expects of it.
* Sentinel. `response-controller.ts:12` says that nothing executes without
  `SENTINEL_DEGRADATION_ENABLED`; lines 28-29 there, the code and
  `tests/sentinel/degradation.test.ts:140-167` let levels 1 and 2 authorise themselves,
  which is what `DegradationIsWarranted` takes for warranted. `alert-engine.ts:11` says "N
  consecutive polls": polls without a reading are skipped, so the N readings need not be
  of consecutive polls. A non-finite reading is "no signal" in the comment at line 34 and
  counts as green in the code: N of them clear an alert, where an unavailable probe does
  not. A metric whose probe is unavailable keeps its band; one that flaps
  between two bands above green is never confirmed in either. No plane reads the
  degradation level.

## 6. Plan

Done: Executor, RunLease, MissionRunner and existing-commit verification with proofs;
ModelBudget with proofs; audit chain and mirror with a refinement and its proof; gate,
co-signature, decision loop and Model Exchange with proofs; router, providers, agents
and approvals, and the Telegram bridge, with proofs; the knowledge plane with proofs of
its two safety properties; the sequential algorithms, all but the calculator with
proofs. Next, in order:

1. The calculator: that the grammar gives an expression at most one value, then that
   `shunt` and `evaluateOutput` compute it, by the shortest phrase for which they do not.
2. MissionRunner and RunLease together: the row of MissionRunner is the registry
   of RunLease restricted to one run.
3. The operator loop.

## 7. Not modelled

Cryptography, parsing, formatting and transport; LangGraph, OpenHands and their
bridges; the operator loop; R-PowerTrade, a Python service of request handlers
over a read-only ledger; the web console, operations and repository scripts; the
archived trading arm. The sentinel's forecaster is a regression over floats. Pid
reuse, clock skew between replicas (a lease that expires early is `Expire`) and
disk loss are outside the fault model. `PROJECT.json` lists the components with
reasons.

Within the modelled parts, these details are left out; no property tells them apart.

* Runs. The fabric and the run row have other writers: the reconciliation of legacy runs
  (`legacy-reconciliation.ts:85-89`) and `POST /missions/:id/fabric/events`
  (`routes.ts:489-555`). An append that meets one throws, and every append of
  MissionRunner may throw; what they write is not modelled. `RecordVerdict` has one bit
  for `ok` and `verdict == 'pass'` (`runner.ts:306-307`).
* Gate. A confidence that is no number throws in `toFixed` (`mi9-gate.ts:461`). The
  regulatory dimension looks for its words anywhere in the domain
  (`exposure-analysis.ts:145`); in the model a part of the domain is one of them.
* Inference. System messages of the context (`r-context/index.ts:175-181`), and the
  caller's `preferredModel` and `requireCapabilities` (`r-model-fabric/index.ts:285-301`).
* Dispatch. The measured latency of a call is the catalogue's (`exchange.ts:208`), so a
  calibrated latency never differs from the seeded one in a run; the proofs assume nothing of
  the ranking's scores. One lost write loses every write of its block
  (`coordinator.ts:458-545`, `pipeline.ts:337-446`), where the code loses those after it;
  `SpendIsLedgered` exempts such jobs. The audit write of a held mission is outside the try
  (`coordinator.ts:182`): if it raises, the approval exists and the caller has an error
  instead of its id, so nobody settles it. The hourly window of the gate is empty
  throughout. Provider names are compared as given (`policy.ts:182` also takes display
  names, in any case). A task of the planner without instruction is skipped and a null
  one rejects the answer (`decompose.ts:228-250`): both are other answers of the planner.
* Telegram. Of the configuration only the arm that trades (`config.ts:202-209`). An answer in
  several messages that fails halfway (`telegram-api.ts:202-211`) counts as not sent.
* Arithmetic. The expression is one run of arithmetic characters; which run of a text is
  taken, and line breaks (`deterministic.ts:57-71`), are left out. Numbers are integers,
  and TLC is given no `/` and no `%`.
