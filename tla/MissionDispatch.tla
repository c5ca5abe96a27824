-------------------------- MODULE MissionDispatch --------------------------
(***************************************************************************)
(* The runtime API of RONOR: queries (src/runtime/api/pipeline.ts), agent  *)
(* missions (src/runtime/agents/coordinator.ts, workers.ts) and the        *)
(* settlement of held missions (src/runtime/api/approval-settlement.ts).   *)
(*                                                                         *)
(* A job is one request to the API.  Its engine calls are made one at a    *)
(* time: an exchange walks the ranked engines until one answers, refuses   *)
(* the content, or three have failed.  Between two calls other jobs run.   *)
(*                                                                         *)
(* A request r is the record of what its caller supplied.  Neither surface *)
(* moves the hourly window of the gate: a mission has no sources, which    *)
(* escalates it under every policy modelled here, and a query is           *)
(* conversational; the window is therefore the empty sequence throughout.  *)
(***************************************************************************)
EXTENDS ModelRouter, Decompose, MI9Gate, Functions

CONSTANTS
    Jobs,
    Keys,           \* the keys of the environment, seeded at boot
    Deployments,    \* [env, tier]: credentials, and the tier of unclassified domains
    Missions,       \* mission requests
    Queries,        \* query requests
    PlannerAnswers, \* what a planner may answer: sequences of tasks
    Outcomes,       \* subset of WireResults a call may end with
    Usages,         \* [input, output] token counts of an answer
    ApprovalTTL,
    MaxClock,       \* bound: ticks
    MaxFailures,    \* bound: calls of a job that end without an answer
    MaxCrashes,     \* bound: crashes
    MaxLosses       \* bound: ledger writes that raise

ASSUME DispatchAssumption ==
    /\ Outcomes \subseteq WireResults
    /\ Usages \subseteq [input : Nat, output : Nat]
    /\ PlannerAnswers \subseteq Seq(PlannedTask)
    /\ \A r \in Missions : r.maxTasks \in Nat
    /\ \A n \in {ApprovalTTL, MaxClock, MaxFailures, MaxCrashes, MaxLosses} : n \in Nat

VARIABLES
    now,
    deployed,   \* the member of Deployments this process runs as
    keys,       \* keys[k]: "active" or "revoked"
    win,        \* the calibrator's windows
    attempts,   \* the attempts table, oldest first
    pend,       \* held missions: [job, key, expires]
    job,
    missions,   \* missions[j]: status of the mission record of job j
    rows,       \* rows[j]: the costs in the work ledger's rows of job j, by label
    trail,      \* trail[j]: actions of the audit records of job j
    faults      \* [crashes, losses] so far

vars == <<now, deployed, keys, win, attempts, pend, job, missions, rows, trail, faults>>

env == deployed.env

NoRequest == [kind |-> "none"]

Idle == [pc |-> "idle", req |-> NoRequest, key |-> "none", verdict |-> "none", phase |-> "none",
         routing |-> <<>>, tried |-> <<>>, spent |-> 0, planCost |-> 0, total |-> 0, charged |-> 0,
         plan |-> <<>>, next |-> 1, good |-> {}, bad |-> {}, exhausted |-> FALSE,
         engines |-> {}, tools |-> {}, starts |-> 0, settledBy |-> "none", settledAt |-> 0,
         expires |-> 0, failed |-> 0, lost |-> FALSE, result |-> "none"]

EmptyWindows == [m \in Models |-> <<>>]

(* Seeding the keys of the environment: an insert activates a key, the      *)
(* conflict clause leaves the flag of a key that is there alone.            *)
upsertApiKey(state) == IF state = "absent" THEN "active" ELSE state

bootstrapApiKeys(ks) == [k \in Keys |-> upsertApiKey(ks[k])]

(* A row is labelled by its request, a worker's by its task as well.        *)
NoRows == [label \in {} |-> 0]

RequestRow == <<>>

TaskRow(t) == <<t.id>>

Init ==
    /\ now = 0
    /\ deployed \in Deployments
    /\ keys = bootstrapApiKeys([k \in Keys |-> "absent"])
    /\ win = EmptyWindows
    /\ attempts = <<>>
    /\ pend = {}
    /\ job = [j \in Jobs |-> Idle]
    /\ missions = [j \in Jobs |-> "none"]
    /\ rows = [j \in Jobs |-> NoRows]
    /\ trail = [j \in Jobs |-> <<>>]
    /\ faults = [crashes |-> 0, losses |-> 0]

----------------------------------------------------------------------------
(* Governance of the two surfaces.                                          *)

(* The file of the repository classifies runtime.*; a deployment whose      *)
(* policy does not leaves it to unknown_domain_tier.                        *)
policyInForce ==
    IF deployed.tier = "classified" THEN Policy("unacceptable")
    ELSE [Policy(deployed.tier) EXCEPT !.domain_tiers = {}]

deriveConfidenceFromQuality(q) == IF q > 90 THEN 90 ELSE IF q < 30 THEN 30 ELSE q

buildDecisionContext(j, surface, task, confidence, sources, sideEffects, unit, value) ==
    [decisionId |-> j, domain |-> <<"runtime", surface, task>>,
     taskClass |-> IF sideEffects THEN "operational"
                   ELSE IF surface = "query" THEN "conversational" ELSE "analytical",
     confidence |-> confidence, reversible |-> ~sideEffects, unit |-> unit, value |-> value,
     residency |-> "eu", jurisdiction |-> "EU", sourceCount |-> sources, age |-> 0,
     consensus |-> sources >= 2, fallbackAvailable |-> TRUE, role |-> "operator",
     priorApproval |-> {}]

evaluateGovernance(ctx) == evaluate(ctx, policyInForce, <<>>, now)

missionContext(j, r, approved) ==
    [buildDecisionContext(j, "agent", "decomposition", 60, 0, TRUE,
                          IF r.cost > 0 THEN "EUR" ELSE "other",
                          IF r.cost > 0 THEN r.cost \div 100000000 ELSE 100)
     EXCEPT !.priorApproval = IF approved THEN {[decisionId |-> j, at |-> now]} ELSE {}]

outcomeActionFor(verdict, executed) ==
    CASE verdict = "block" -> "blocked"
      [] verdict # "block" /\ ~executed -> "escalated"
      [] executed /\ verdict = "allow-with-cosign" -> "held-for-cosign"
      [] executed /\ verdict = "escalate" -> "escalated"
      [] executed /\ verdict = "allow" -> "executed"

----------------------------------------------------------------------------
(* What each exchange asks of the router.  A query forwards everything its  *)
(* caller supplied; the exchanges of a mission do not.                      *)

PromptChars == 400

buildConstraints(r) ==
    [NoConstraints EXCEPT !.task = r.task, !.confidentiality = r.confidentiality,
                          !.allowed = r.allowed, !.denied = r.denied, !.cost = r.cost,
                          !.pin = r.pin]

planConstraints(r) ==
    [NoConstraints EXCEPT !.task = "decomposition", !.confidentiality = r.confidentiality]

(* What is left of the budget, and never less than a hundredth of a cent;   *)
(* 0 without a budget.                                                      *)
budgetLeft(jb) ==
    IF jb.req.cost = 0 THEN 0
    ELSE IF jb.req.cost - jb.total > 10000 THEN jb.req.cost - jb.total ELSE 10000

workerConstraints(jb, passport) ==
    [NoConstraints EXCEPT !.task = passport.task, !.confidentiality = jb.req.confidentiality,
                          !.evidence = passport.evidence, !.cost = budgetLeft(jb)]

synthesisConstraints(jb) ==
    [NoConstraints EXCEPT !.task = "synthesis", !.confidentiality = jb.req.confidentiality,
                          !.cost = budgetLeft(jb)]

route(c) == routeOnly(c, PromptChars, env, win)

MaxAttempts == 3

exchanging(jb, phase, routing) ==
    [jb EXCEPT !.pc = "calling", !.phase = phase, !.routing = routing, !.tried = <<>>, !.spent = 0]

----------------------------------------------------------------------------
(* The ledgers.  A row is written once per label: a second write replaces.  *)

upsertRow(rs, label, cost) ==
    [l \in DOMAIN rs \cup {label} |-> IF l = label THEN cost ELSE rs[l]]

writeRow(j, label, cost, lose) ==
    rows' = IF lose THEN rows ELSE [rows EXCEPT ![j] = upsertRow(@, label, cost)]

recordAttempts(tried, lose) == attempts' = IF lose THEN attempts ELSE attempts \o tried

audit(j, action) == trail' = [trail EXCEPT ![j] = Append(@, action)]

(* A write may raise; the code logs it and goes on.                         *)
mayLose(lose) ==
    /\ lose => faults.losses < MaxLosses
    /\ faults' = [faults EXCEPT !.losses = @ + IF lose THEN 1 ELSE 0]

----------------------------------------------------------------------------
authenticated(k) == keys[k] = "active"

(* terminate(): the one exit of a query.  A request refused before the gate *)
(* leaves a row and no audit record; a dry run costs nothing.               *)
terminate(j, jb, result, cost, governed, lose) ==
    /\ mayLose(lose)
    /\ writeRow(j, RequestRow, cost, lose)
    /\ recordAttempts(jb.tried, lose)
    /\ IF governed /\ ~lose
       THEN audit(j, outcomeActionFor(jb.verdict, result \in {"completed", "completed-after-fallback"}))
       ELSE UNCHANGED trail
    /\ job' = [job EXCEPT ![j] = [jb EXCEPT !.pc = "done", !.result = result, !.total = cost,
                                            !.spent = 0, !.lost = lose]]

QueryArrives(j, k) ==
    \E r \in Queries, lose \in BOOLEAN :
        /\ job[j].pc = "idle" /\ authenticated(k)
        /\ IF r.hostile
           THEN terminate(j, [Idle EXCEPT !.req = r, !.key = k], "rejected-governance", 0, FALSE, lose)
           ELSE /\ ~lose
                /\ job' = [job EXCEPT ![j] = [Idle EXCEPT !.pc = "retrieving", !.req = r, !.key = k]]
                /\ UNCHANGED <<rows, attempts, trail, faults>>
        /\ UNCHANGED <<now, deployed, keys, win, pend, missions>>

(* Retrieval came back with some sources.  The gate judges the engine the   *)
(* router would choose now; execution routes again, on the same state.      *)
Retrieved(j) ==
    \E sources \in {0, 2}, lose \in BOOLEAN :
        LET r == job[j].req
            routing == route(buildConstraints(r))
            verdict == evaluateGovernance(
                buildDecisionContext(j, "query", r.task,
                    deriveConfidenceFromQuality(getCatalogueEntry(Head(routing)).quality),
                    sources, FALSE, "other", 1))
            jb == [job[j] EXCEPT !.verdict = IF routing = <<>> THEN "none" ELSE verdict]
        IN  /\ job[j].pc = "retrieving"
            /\ CASE routing = <<>> -> terminate(j, jb, "rejected-policy", 0, FALSE, lose)
                 [] routing # <<>> /\ verdict = "block" ->
                        terminate(j, jb, "rejected-governance", 0, TRUE, lose)
                 [] routing # <<>> /\ verdict # "block" /\ r.dry ->
                        terminate(j, jb, "completed", 0, TRUE, lose)
                 [] OTHER ->
                        /\ ~lose
                        /\ job' = [job EXCEPT ![j] = exchanging(jb, "query", routing)]
                        /\ UNCHANGED <<rows, attempts, trail, faults>>
            /\ UNCHANGED <<now, deployed, keys, win, pend, missions>>

----------------------------------------------------------------------------
(* dispatchMission(): the gate comes before any spending.  Without an       *)
(* approval a mission that needs one is held.                               *)

createPendingExecution(j, k) == [job |-> j, key |-> k, expires |-> now + ApprovalTTL]

hold(j, jb, store) ==
    /\ pend' = store \cup {createPendingExecution(j, jb.key)}
    /\ missions' = [missions EXCEPT ![j] = "open"]
    /\ audit(j, "held-for-cosign")
    /\ job' = [job EXCEPT ![j] = [jb EXCEPT !.pc = "held", !.expires = now + ApprovalTTL]]
    /\ UNCHANGED rows

blockMission(j, jb) ==
    /\ missions' = [missions EXCEPT ![j] = "failed"]
    /\ audit(j, "blocked")
    /\ writeRow(j, RequestRow, 0, FALSE)
    /\ job' = [job EXCEPT ![j] = [jb EXCEPT !.pc = "done", !.result = "blocked"]]

(* The planner's exchange; with no engine for it the fallback plan, at no   *)
(* cost.                                                                    *)
planned(jb, answer) ==
    [jb EXCEPT !.pc = "planned", !.planCost = jb.spent, !.total = jb.spent, !.spent = 0,
               !.plan = planFrom(answer, jb.req.confidentiality, jb.req.maxTasks, jb.req.evidence)]

startPlanning(j, jb) ==
    LET routing == route(planConstraints(jb.req))
        begun == [jb EXCEPT !.starts = @ + 1]
    IN  /\ missions' = [missions EXCEPT ![j] = "executing"]
        /\ job' = [job EXCEPT ![j] = IF routing = <<>> THEN planned(begun, <<>>)
                                     ELSE exchanging(begun, "plan", routing)]
        /\ UNCHANGED <<rows, trail>>

(* store is what the approval store holds once this request is out of it.   *)
dispatchMission(j, jb, approved, store) ==
    LET verdict == evaluateGovernance(missionContext(j, jb.req, approved))
        jv == [jb EXCEPT !.verdict = verdict]
    IN  CASE humanCoSignRequired(verdict) /\ ~approved -> hold(j, jv, store)
          [] verdict = "block" -> blockMission(j, jv) /\ pend' = store
          [] OTHER -> startPlanning(j, jv) /\ pend' = store

Dispatch(j, k) ==
    \E r \in Missions :
        /\ job[j].pc = "idle" /\ authenticated(k)
        /\ dispatchMission(j, [Idle EXCEPT !.req = r, !.key = k], FALSE, pend)
        /\ UNCHANGED <<now, deployed, keys, win, attempts, faults>>

(* Mutant: the record is left in the store until the mission has run. *)
consumed_Kept(p) == pend

(* A record taken for a settlement leaves the store before anything runs.   *)
consumed(p) == pend \ {p}

settleable(p, k) == p.expires >= now /\ p.key = k

(* POST /approvals/:id/settle.  A caller with another key, or with an id    *)
(* the store no longer has, changes nothing; an expired record is dropped.  *)
(* A rejection leaves no trace: the mission record stays open.              *)
Settle(j, k, decision) ==
    \E p \in {q \in pend : q.job = j} :
        /\ authenticated(k)
        /\ \/ /\ p.expires < now
              /\ pend' = pend \ {p}
              /\ UNCHANGED <<job, missions, rows, trail>>
           \/ /\ settleable(p, k) /\ decision = "rejected"
              /\ pend' = consumed(p)
              /\ job' = [job EXCEPT ![j].pc = "done", ![j].result = "rejected"]
              /\ UNCHANGED <<missions, rows, trail>>
           \/ /\ settleable(p, k) /\ decision = "approved"
              /\ dispatchMission(j, [job[j] EXCEPT !.settledBy = k, !.settledAt = now], TRUE,
                                 consumed(p))
        /\ UNCHANGED <<now, deployed, keys, win, attempts, faults>>

----------------------------------------------------------------------------
(* The loop over the plan.  The budget is looked at before a task, never    *)
(* during one.                                                              *)

failMission(j, jb) ==
    /\ missions' = [missions EXCEPT ![j] = "failed"]
    /\ job' = [job EXCEPT ![j] = [jb EXCEPT !.pc = "done", !.result = "failed"]]
    /\ UNCHANGED <<rows, trail, attempts, faults>>

(* Mutant: the mission's row carries the whole cost of the mission. *)
missionRowCost_Total(jb) == jb.total + jb.spent

(* The workers have rows of their own, so the mission's has the synthesis.  *)
missionRowCost(jb) == jb.spent

finishMission(j, jb, lose) ==
    LET status == IF jb.exhausted \/ jb.bad # {} THEN "partial" ELSE "complete"
    IN  /\ mayLose(lose)
        /\ missions' = [missions EXCEPT ![j] = IF status = "complete" THEN "complete" ELSE "open"]
        /\ IF lose THEN UNCHANGED trail ELSE audit(j, outcomeActionFor(jb.verdict, TRUE))
        /\ writeRow(j, RequestRow, missionRowCost(jb), lose)
        /\ UNCHANGED attempts
        /\ job' = [job EXCEPT ![j] = [jb EXCEPT !.pc = "done", !.result = status, !.spent = 0,
                                                !.total = @ + jb.spent, !.lost = @ \/ lose]]

reportTask(j, jb, ok, lose) ==
    LET t == jb.plan[jb.next]
    IN  /\ mayLose(lose)
        /\ writeRow(j, TaskRow(t), jb.spent, lose)
        /\ recordAttempts(jb.tried, lose)
        /\ job' = [job EXCEPT ![j] =
               [jb EXCEPT !.pc = "planned", !.next = @ + 1, !.total = @ + jb.spent, !.spent = 0,
                          !.good = IF ok THEN @ \cup {t.id} ELSE @,
                          !.bad = IF ok THEN @ ELSE @ \cup {t.id}, !.lost = @ \/ lose]]
        /\ UNCHANGED <<missions, trail>>

overBudget(jb) == jb.req.cost > 0 /\ jb.total >= jb.req.cost

EndOfPlan(j) ==
    LET jb == [job[j] EXCEPT !.exhausted = job[j].next <= Len(job[j].plan)]
        routing == route(synthesisConstraints(jb))
    IN  /\ job[j].pc = "planned"
        /\ job[j].next > Len(job[j].plan) \/ overBudget(job[j])
        /\ \/ jb.good = {} /\ failMission(j, jb)
           \/ /\ jb.good # {} /\ routing # <<>>
              /\ job' = [job EXCEPT ![j] = exchanging(jb, "synthesis", routing)]
              /\ UNCHANGED <<missions, rows, trail, attempts, faults>>
           \/ /\ jb.good # {} /\ routing = <<>>
              /\ \E lose \in BOOLEAN : finishMission(j, [jb EXCEPT !.spent = 0], lose)
        /\ UNCHANGED <<now, deployed, keys, win, pend>>

(* runWorker(): the passport, then the tools, then the engines.             *)
StartTask(j) ==
    LET jb == job[j]
        t == jb.plan[jb.next]
        passport == getPassport(t.agent)
        routing == route(workerConstraints(jb, passport))
        equipped == [jb EXCEPT !.tools = @ \cup toolsRun(passport, t, jb.req.knowledge,
                                                         jb.req.confidentiality)]
        none == [equipped EXCEPT !.tried = <<>>, !.spent = 0]
    IN  /\ jb.pc = "planned" /\ jb.next <= Len(jb.plan) /\ ~overBudget(jb)
        /\ \/ /\ passportPermits(passport, jb.req.confidentiality) /\ routing # <<>>
              /\ job' = [job EXCEPT ![j] = exchanging(equipped, "task", routing)]
              /\ UNCHANGED <<missions, rows, trail, attempts, faults>>
           \/ /\ ~passportPermits(passport, jb.req.confidentiality)
              /\ \E lose \in BOOLEAN : reportTask(j, [jb EXCEPT !.tried = <<>>, !.spent = 0], FALSE, lose)
           \/ /\ passportPermits(passport, jb.req.confidentiality) /\ routing = <<>>
              /\ \E lose \in BOOLEAN : reportTask(j, none, FALSE, lose)
        /\ UNCHANGED <<now, deployed, keys, win, pend>>

----------------------------------------------------------------------------
(* One call of executeExchange() comes back.                                *)

exchangeEnds(j, jb, response, answer, lose) ==
  LET ok == response.ok
  IN CASE jb.phase = "query" ->
            /\ terminate(j, jb, IF response.kind = "content-refused" THEN "content-refused"
                                ELSE IF ~ok THEN "all-providers-failed"
                                ELSE IF Len(jb.tried) > 1 THEN "completed-after-fallback"
                                ELSE "completed", jb.spent, TRUE, lose)
            /\ UNCHANGED missions
      [] jb.phase = "plan" ->
            /\ ~lose
            /\ job' = [job EXCEPT ![j] = planned(jb, IF ok THEN answer ELSE <<>>)]
            /\ UNCHANGED <<missions, rows, attempts, trail, faults>>
      [] jb.phase = "task" -> reportTask(j, jb, ok, lose)
      [] jb.phase = "synthesis" -> finishMission(j, jb, lose)

called(jb, entry, res, response) ==
    LET cost == computeActualCost(entry, response.input, response.output)
    IN  [jb EXCEPT !.tried = Append(@, [model |-> entry.model, ms |-> entry.ms, ok |-> response.ok]),
                   !.spent = @ + cost, !.charged = @ + cost,
                   !.failed = IF res.k = "answer" THEN @ ELSE @ + 1,
                   !.engines = IF response.kind \in {"credential-absent", "model-unsupported"} THEN @
                               ELSE @ \cup {entry.model}]

Respond(j) ==
    \E res \in Outcomes, usage \in Usages, answer \in PlannerAnswers, lose \in BOOLEAN :
        LET entry == getCatalogueEntry(job[j].routing[Len(job[j].tried) + 1])
            response == invoke(entry, env, res, usage, job[j].req.computable)
            jb == called(job[j], entry, res, response)
            over == \/ response.ok \/ response.kind = "content-refused"
                    \/ Len(jb.tried) \in {MaxAttempts, Len(jb.routing)}
        IN  /\ job[j].pc = "calling"
            /\ res.k # "answer" => jb.failed <= MaxFailures
            /\ jb.phase # "plan" \/ ~over => answer = <<>>
            /\ win' = recordSample(win, entry.model, entry.ms, response.ok)
            /\ IF over THEN exchangeEnds(j, jb, response, answer, lose)
               ELSE /\ ~lose
                    /\ job' = [job EXCEPT ![j] = jb]
                    /\ UNCHANGED <<missions, rows, attempts, trail, faults>>
            /\ UNCHANGED <<now, deployed, keys, pend>>

----------------------------------------------------------------------------
(* Keys, the clock and the process.                                         *)

Revoke(k) ==
    /\ keys[k] = "active"
    /\ keys' = [keys EXCEPT ![k] = "revoked"]
    /\ UNCHANGED <<now, deployed, win, attempts, pend, job, missions, rows, trail, faults>>

Reactivate(k) ==
    /\ keys[k] = "revoked"
    /\ keys' = [keys EXCEPT ![k] = "active"]
    /\ UNCHANGED <<now, deployed, win, attempts, pend, job, missions, rows, trail, faults>>

Tick ==
    /\ now < MaxClock
    /\ now' = now + 1
    /\ UNCHANGED <<deployed, keys, win, attempts, pend, job, missions, rows, trail, faults>>

(* The most recent rows, oldest first.                                      *)
recentAttemptSamples(samples, perModel) ==
    SubSeq(samples, IF Len(samples) > perModel * 20 THEN Len(samples) - perModel * 20 + 1 ELSE 1,
           Len(samples))

(* The process stops and starts again: held missions and running jobs are   *)
(* gone, the calibrator is seeded from the attempts table, and the seeding  *)
(* of the keys leaves a revoked one revoked.                                *)
Restart ==
    /\ faults.crashes < MaxCrashes
    /\ faults' = [faults EXCEPT !.crashes = @ + 1]
    /\ keys' = bootstrapApiKeys(keys)
    /\ pend' = {}
    /\ win' = seedFromLedger(EmptyWindows, recentAttemptSamples(attempts, 50))
    /\ job' = [j \in Jobs |-> IF job[j].pc \in {"retrieving", "calling", "planned"}
                              THEN [job[j] EXCEPT !.pc = "lost"] ELSE job[j]]
    /\ UNCHANGED <<now, deployed, attempts, missions, rows, trail>>

Next ==
    \/ \E j \in Jobs, k \in Keys : QueryArrives(j, k) \/ Dispatch(j, k)
    \/ \E j \in Jobs, k \in Keys, d \in {"approved", "rejected"} : Settle(j, k, d)
    \/ \E j \in Jobs : Retrieved(j) \/ StartTask(j) \/ EndOfPlan(j) \/ Respond(j)
    \/ \E k \in Keys : Revoke(k) \/ Reactivate(k)
    \/ Tick \/ Restart

Spec == Init /\ [][Next]_vars

----------------------------------------------------------------------------
TypeOK ==
    /\ now \in 0 .. MaxClock
    /\ deployed \in Deployments
    /\ keys \in [Keys -> {"active", "revoked"}]
    /\ pend \subseteq [job : Jobs, key : Keys, expires : 0 .. MaxClock + ApprovalTTL]
    /\ missions \in [Jobs -> {"none", "open", "executing", "complete", "failed"}]

(* A held mission runs at most once, for the key that asked for it, before  *)
(* its approval expired and not after a rejection, whatever the retries,    *)
(* the other keys, the clock and the restarts do (approval-settlement.ts).  *)
ApprovalExecutesOnce ==
    \A j \in Jobs :
        /\ job[j].starts <= 1
        /\ job[j].starts = 1 => /\ job[j].settledBy = job[j].key
                                /\ job[j].settledAt <= job[j].expires
                                /\ job[j].result # "rejected"

(* Sovereign material is seen by no engine outside the sovereign perimeter  *)
(* and causes no fetch; restricted material by no engine without an         *)
(* attestation: over the query, the plan, every worker, the synthesis and   *)
(* every fallback (policy.ts P1, tools.ts, registry.ts).                    *)
ConfidentialStaysInside ==
    \A j \in Jobs :
        LET levels == {getCatalogueEntry(m).sovereignty : m \in job[j].engines}
        IN  /\ job[j].req.kind # "none" /\ job[j].req.confidentiality = "sovereign" =>
                  (\A l \in levels : l >= 3) /\ "web.fetch" \notin job[j].tools
            /\ job[j].req.kind # "none" /\ job[j].req.confidentiality = "restricted" =>
                  \A l \in levels : l >= 1

(* Everything the engines charged for is in the job's rows, once, or is the *)
(* planner's cost, which has no row, or belongs to the running exchange,    *)
(* unless a ledger write raised (coordinator.ts, work-ledger.ts).           *)
SpendIsLedgered ==
    \A j \in Jobs :
        ~job[j].lost =>
            job[j].charged = SumFunction(rows[j]) + job[j].planCost + job[j].spent
=============================================================================
