------------------------- MODULE GovernedDecisions -------------------------
(***************************************************************************)
(* The governed control plane: inference through the seven planes          *)
(* (src/orchestrator.ts, src/planes/), retention and co-signature of a     *)
(* held answer (src/governance/cosign-store.ts, POST /cosign of            *)
(* src/api/router.ts), the decision loop of POST /decisions                *)
(* (src/decision-loop/orchestrator.ts) and POST /query of the Model        *)
(* Exchange (src/model-exchange/orchestrator.ts), on replicas that share   *)
(* one SQLite database.                                                    *)
(*                                                                         *)
(* A replica runs JavaScript: a handler is uninterrupted between two       *)
(* awaits.  busy[p] is the uninterrupted section replica p is in, cut at   *)
(* its database statements, because another replica's statements and a     *)
(* crash fall between them.  Windows, buckets and histories are memory of  *)
(* the replica; the audit chain and cosign_pending are the database.       *)
(***************************************************************************)
EXTENDS MI9Gate, BessScenario

CONSTANTS
    Replicas,       \* processes over one database
    Requests,       \* inference requests
    Sessions,       \* decision-loop sessions
    Queries,        \* queries to the Model Exchange
    UnifiedRequests,\* what such a query may ask
    Operators,      \* authenticated keys that may co-sign
    Deployments,    \* [env, work]: settings, and the requests and sessions submitted
    ModelActions,   \* what the frontier model may propose: sequences of actions
    DecisionDomains,\* the domains POST /decisions is called with
    maxRPM,         \* RATE_LIMIT_RPM of the gateway plane
    Minute,         \* ticks of a gateway bucket
    KeepRecent,     \* messages compress() keeps (18); it acts above KeepRecent + 2
    TokenLimit,     \* messages that fill CONTEXT_MAX_TOKENS to its threshold
    MaxTime, MaxCrashes, MaxDbFailures  \* bounds of the model

ASSUME DecisionAssumption ==
    /\ maxRPM \in Nat \ {0} /\ Minute \in Nat \ {0} /\ KeepRecent \in Nat
    /\ TokenLimit \in Nat \ {0}
    /\ MaxTime \in Nat /\ MaxCrashes \in Nat /\ MaxDbFailures \in Nat

(* Settings: production, MI9_ENFORCE off, unknown_domain_tier, engine keys. *)
Settings == [production : BOOLEAN, enforceOff : BOOLEAN,
             unknownTier : {"unacceptable", "limited"},
             keys : SUBSET {"openai", "anthropic"}]

ASSUME ModelActionsAssumption == ModelActions \subseteq Seq(DispatchActions)

ASSUME DeploymentsAssumption == \A d \in Deployments : d.env \in Settings

VARIABLES
    now,      \* the clock
    env,      \* [production, enforceOff, unknownTier, keys]: the deployment's settings
    up,       \* up[p]: replica p serves
    window,   \* window[p]: decisionsThisHour
    bucket,   \* bucket[p]: the gateway's rate-limit bucket of the one session
    history,  \* history[p]: messages R-Context holds for the session
    busy,     \* busy[p]: the synchronous section in progress
    req,      \* req[r]: [pc, at, answer, verdict]; answer is the length class
    held,     \* held[r]: the cosign_pending row, [state, by]
    sent,     \* sent[r]: [direct, released], how often the content went out
    ses,      \* ses[s]: a decision session
    qry,      \* qry[q]: a query, at the i-th engine of its routing table
    work,     \* work[q]: the rows of the work ledger the query wrote
    chain,    \* the audit chain: a sequence of AuditRecords
    ran,      \* ran[p]: when replica p executed an action on its own, since boot
    faults    \* [crashes, db]: how many failures there were

vars == <<now, env, up, window, bucket, history, busy, req, held, sent, ses,
          qry, work, chain, ran, faults>>

Exchange == INSTANCE ModelExchange

Idle == [k |-> "idle", id |-> "none", by |-> "none"]
NoBucket == [count |-> 0, resetAt |-> -1]

TypeOK ==
    /\ now \in 0 .. MaxTime
    /\ env \in Settings
    /\ up \in [Replicas -> BOOLEAN]
    /\ \A p \in Replicas : bucket[p].count \in 0 .. maxRPM /\ history[p] \in Nat
    /\ \A p \in Replicas :
          busy[p].k \in {"idle", "enforce", "cosign", "signed", "loop", "append",
                        "record", "work"}
    /\ \A r \in Requests :
          /\ req[r].pc \in {"new", "gateway", "context", "modelled", "enforcing",
                            "done", "failed"}
          /\ held[r].state \in {"none", "open", "released"}
          /\ sent[r] \in [direct : 0 .. 1, released : Nat]
    /\ \A s \in Sessions :
          ses[s].pc \in {"new", "proposing", "looping", "done", "failed"}
    /\ \A q \in Queries :
          qry[q].pc \in {"new", "executing", "recording", "done", "failed"}

(* mi9-enforcement.ts refuses to boot a disarmed gate in production.        *)
assertMi9EnforcementAllowed == ~(env.production /\ env.enforceOff)

Init ==
    /\ now = 0 /\ faults = [crashes |-> 0, db |-> 0]
    /\ up = [p \in Replicas |-> FALSE]
    /\ window = [p \in Replicas |-> <<>>]
    /\ bucket = [p \in Replicas |-> NoBucket]
    /\ history = [p \in Replicas |-> TokenLimit]  \* a session with earlier turns
    /\ busy = [p \in Replicas |-> Idle]
    /\ \E d \in Deployments :
         /\ env = d.env
         /\ req = [r \in Requests |->
                     [pc |-> IF r \in d.work THEN "new" ELSE "done", at |-> "none",
                      answer |-> "none", verdict |-> "none"]]
         /\ ses = [s \in Sessions |->
                     [pc |-> IF s \in d.work THEN "new" ELSE "done", at |-> "none",
                      domain |-> <<>>, actions |-> <<>>, i |-> 1, fallback |-> FALSE,
                      baseline |-> Asset.soc,
                      soc |-> Asset.soc, verdicts |-> <<>>, advisories |-> <<>>]]
         /\ qry = [q \in Queries |->
                     [pc |-> IF q \in d.work THEN "new" ELSE "done", at |-> "none",
                      ask |-> "none", routing |-> <<>>, i |-> 1, verdict |-> "none",
                      confidence |-> 0, status |-> "none"]]
    /\ work = [q \in Queries |-> <<>>]
    /\ held = [r \in Requests |-> [state |-> "none", by |-> "none"]]
    /\ sent = [r \in Requests |-> [direct |-> 0, released |-> 0]]
    /\ chain = <<>>
    /\ ran = [p \in Replicas |-> <<>>]

Free(p) == up[p] /\ busy[p] = Idle
dbFails == /\ faults.db < MaxDbFailures
           /\ faults' = [faults EXCEPT !.db = @ + 1]
AuditRecord(type, id, action, by, index) ==
    [type |-> type, id |-> id, action |-> action, by |-> by, index |-> index]

----------------------------------------------------------------------------
(* The seven planes.                                                        *)

(* Plane 1.  The bucket is charged before the prompt is screened.           *)
checkRateLimit(b) ==
    IF b = NoBucket \/ now > b.resetAt
    THEN [ok |-> TRUE, bucket |-> [count |-> 1, resetAt |-> now + Minute]]
    ELSE IF b.count >= maxRPM THEN [ok |-> FALSE, bucket |-> b]
    ELSE [ok |-> TRUE, bucket |-> [b EXCEPT !.count = @ + 1]]

Gateway(r, p, injected) ==
    /\ Free(p) /\ req[r].pc = "new"
    /\ LET limit == checkRateLimit(bucket[p])
       IN  /\ bucket' = [bucket EXCEPT ![p] = limit.bucket]
           /\ req' = [req EXCEPT ![r].at = p,
                        ![r].pc = IF limit.ok /\ ~injected THEN "gateway" ELSE "failed"]
    /\ UNCHANGED <<now, env, up, window, history, busy, held, sent, ses, qry, work,
                   chain, ran, faults>>

(* Plane 2.  A message counts as one unit of tokens; grounding enriches the *)
(* prompt, and a provider that raises is contained.                         *)
compress(messages) ==
    IF messages <= KeepRecent + 2 THEN messages ELSE 1 + KeepRecent

Context(r, p) ==
    /\ Free(p) /\ req[r].pc = "gateway" /\ req[r].at = p
    /\ history' = [history EXCEPT ![p] = IF @ + 1 > TokenLimit THEN compress(@ + 1)
                                              ELSE @ + 1]
    /\ req' = [req EXCEPT ![r].pc = "context"]
    /\ UNCHANGED <<now, env, up, window, bucket, busy, held, sent, ses, qry, work,
                   chain, ran, faults>>

(* Plane 3.  MODEL_REGISTRY (window in thousands, cost per 100M input       *)
(* tokens, latency in ms) and the selection.  The model called is always    *)
(* the gateway's; the selected one decides whether a failure is retried.    *)
MODEL_REGISTRY ==
    <<[id |-> "gpt-4o", window |-> 128, cost |-> 500, latency |-> 1200],
      [id |-> "gpt-4o-mini", window |-> 128, cost |-> 15, latency |-> 600],
      [id |-> "gpt-4-turbo", window |-> 128, cost |-> 1000, latency |-> 2000],
      [id |-> "o1-preview", window |-> 128, cost |-> 1500, latency |-> 8000],
      [id |-> "o1-mini", window |-> 128, cost |-> 300, latency |-> 3000],
      [id |-> "gpt-3.5-turbo", window |-> 16, cost |-> 50, latency |-> 400],
      [id |-> "text-embedding-3-large", window |-> 8, cost |-> 13, latency |-> 200],
      [id |-> "text-embedding-3-small", window |-> 8, cost |-> 2, latency |-> 150],
      [id |-> "whisper-1", window |-> 0, cost |-> 0, latency |-> 500]>>

(* quality - cost - latency, in thousandths (sovereignty is the same for all). *)
modelEmsProxy(m) ==
    (IF m.window > 100 THEN 900 ELSE 700)
    - (IF m.cost >= 1000 THEN 1000 ELSE m.cost)
    - (IF m.latency >= 10000 THEN 1000 ELSE m.latency \div 10)

selectModel(strategy) ==
    LET candidates == {i \in DOMAIN MODEL_REGISTRY : MODEL_REGISTRY[i].window > 0}
        key(i) == CASE strategy = "cost" -> MODEL_REGISTRY[i].cost
                    [] strategy = "latency" -> MODEL_REGISTRY[i].latency
                    [] strategy = "quality" -> - MODEL_REGISTRY[i].window
                    [] strategy = "sovereignty" -> 0
                    [] strategy = "ems" -> - modelEmsProxy(MODEL_REGISTRY[i])
        best == {i \in candidates : \A j \in candidates : key(i) <= key(j)}
    IN  MODEL_REGISTRY[Lowest(best)].id

Strategies == {"ems", "cost", "latency", "quality", "sovereignty"}

(* calls: the outcome of the first call and of the one retry.               *)
ModelFabric(r, p, strategy, calls, answer) ==
    /\ Free(p) /\ req[r].pc = "context" /\ req[r].at = p
    /\ LET answered == \/ calls[1]
                       \/ selectModel(strategy) # "gpt-4o-mini" /\ calls[2]
       IN  req' = [req EXCEPT ![r].pc = IF answered THEN "modelled" ELSE "failed",
                              ![r].answer = IF answered THEN answer ELSE "none"]
    /\ UNCHANGED <<now, env, up, window, bucket, history, busy, held, sent, ses, qry,
                   work, chain, ran, faults>>

(* Planes 4 to 7 as the gate sees them: the agent loop repeats the same     *)
(* content, tool calls are refused, and the evidence is the model's own.    *)
buildEvidenceChain(agentActivated) ==
    {[type |-> "model-output", independent |-> FALSE]}
    \cup (IF agentActivated THEN {[type |-> "computation", independent |-> FALSE]} ELSE {})

assessQuality(answer) ==
    CASE answer = "empty" -> 10 [] answer = "short" -> 70 [] answer = "long" -> 85

independentEvidence(agentActivated) ==
    {e \in buildEvidenceChain(agentActivated) :
        e.independent /\ e.type \notin {"model-output", "computation"}}

(* The route passes no metadata, so the domain is always 'general'; without *)
(* an independent source its age is beyond every threshold.                 *)
inferenceContext(r, agentActivated) ==
    LET sources == Cardinality(independentEvidence(agentActivated))
    IN  [decisionId |-> r, domain |-> <<"general">>,
         confidence |-> assessQuality(req[r].answer), reversible |-> TRUE,
         unit |-> "EUR", value |-> 0, residency |-> "eu", jurisdiction |-> "RO",
         sourceCount |-> sources, consensus |-> sources >= 2,
         age |-> IF sources = 0 THEN MaxTime + 2 ELSE 0,
         role |-> "operator", taskClass |-> "operational", priorApproval |-> {},
         fallbackAvailable |-> FALSE]

outcomeAction(verdict) ==
    CASE verdict = "allow" -> "executed"
      [] verdict = "allow-with-cosign" -> "held-for-cosign"
      [] verdict = "escalate" -> "escalated"
      [] verdict = "block" -> "blocked"

----------------------------------------------------------------------------
(* The gate, the audit record and the enforcement: one try block, whose     *)
(* catch keeps the content in the response.                                 *)

Gate(r, p, agentActivated) ==
    /\ Free(p) /\ req[r].pc = "modelled" /\ req[r].at = p
    /\ LET verdict == evaluate(inferenceContext(r, agentActivated),
                               Policy(env.unknownTier), window[p], now)
       IN  /\ chain' = Append(chain, AuditRecord("planes.inference", r,
                                              outcomeAction(verdict), "none", 0))
           /\ req' = [req EXCEPT ![r].pc = "enforcing", ![r].verdict = verdict,
                                  ![r].answer = "none"]
           /\ busy' = [busy EXCEPT ![p] = [k |-> "enforce", id |-> r, by |-> "none"]]
    /\ UNCHANGED <<now, env, up, window, bucket, history, held, sent, ses, qry, work,
                   ran, faults>>

GateRaises(r, p) ==
    /\ Free(p) /\ req[r].pc = "modelled" /\ req[r].at = p
    /\ dbFails
    /\ req' = [req EXCEPT ![r].pc = "done", ![r].verdict = "audit-error",
                          ![r].answer = "none"]
    /\ sent' = [sent EXCEPT ![r].direct = 1]
    /\ UNCHANGED <<now, env, up, window, bucket, history, busy, held, ses, qry, work,
                   chain, ran>>

(* Mutant: an escalation is reported but the answer is not withheld. *)
enforcement_LeaksEscalated(verdict) ==
    CASE env.enforceOff -> "recorded-only"
      [] ~env.enforceOff /\ verdict = "block" -> "blocked"
      [] ~env.enforceOff /\ verdict = "allow-with-cosign" -> "held-for-cosign"
      [] OTHER -> "allowed"

enforcement(verdict) ==
    CASE env.enforceOff -> "recorded-only"
      [] ~env.enforceOff /\ verdict = "block" -> "blocked"
      [] ~env.enforceOff /\ humanCoSignRequired(verdict) -> "held-for-cosign"
      [] OTHER -> "allowed"

Enforce(p) ==
    /\ up[p] /\ busy[p].k = "enforce"
    /\ LET r == busy[p].id
           how == enforcement(req[r].verdict)
       IN  /\ held' = IF how = "held-for-cosign"
                      THEN [held EXCEPT ![r] = [state |-> "open", by |-> "none"]] ELSE held
           /\ sent' = IF how \in {"recorded-only", "allowed"}
                      THEN [sent EXCEPT ![r].direct = 1] ELSE sent
           /\ req' = [req EXCEPT ![r].pc = "done"]
    /\ busy' = [busy EXCEPT ![p] = Idle]
    /\ UNCHANGED <<now, env, up, window, bucket, history, ses, qry, work, chain, ran,
                   faults>>

HoldRaises(p) ==
    /\ up[p] /\ busy[p].k = "enforce"
    /\ enforcement(req[busy[p].id].verdict) = "held-for-cosign"
    /\ dbFails
    /\ req' = [req EXCEPT ![busy[p].id].pc = "done",
                          ![busy[p].id].verdict = "audit-error"]
    /\ sent' = [sent EXCEPT ![busy[p].id].direct = 1]
    /\ busy' = [busy EXCEPT ![p] = Idle]
    /\ UNCHANGED <<now, env, up, window, bucket, history, held, ses, qry, work, chain,
                   ran>>

----------------------------------------------------------------------------
(* POST /cosign: read the row, append the release record, mark the row.     *)
(* An absent or released row answers 404 or 409 and changes nothing.        *)

CosignRead(o, p, r) ==
    /\ Free(p) /\ held[r].state = "open"
    /\ busy' = [busy EXCEPT ![p] = [k |-> "cosign", id |-> r, by |-> o]]
    /\ UNCHANGED <<now, env, up, window, bucket, history, req, held, sent, ses, qry,
                   work, chain, ran, faults>>

CosignAppend(p) ==
    /\ up[p] /\ busy[p].k = "cosign"
    /\ chain' = Append(chain, AuditRecord("cosign.release", busy[p].id, "executed",
                                       busy[p].by, 0))
    /\ busy' = [busy EXCEPT ![p].k = "signed"]
    /\ UNCHANGED <<now, env, up, window, bucket, history, req, held, sent, ses, qry,
                   work, ran, faults>>

(* The append raises: the error handler answers 500.                        *)
CosignAppendRaises(p) ==
    /\ up[p] /\ busy[p].k = "cosign"
    /\ dbFails
    /\ busy' = [busy EXCEPT ![p] = Idle]
    /\ UNCHANGED <<now, env, up, window, bucket, history, req, held, sent, ses, qry,
                   work, chain, ran>>

(* Mutant: the UPDATE lost its IS NULL condition. *)
markReleased_Unconditional(r) == held[r].state # "none"

(* UPDATE ... WHERE released_at IS NULL: whether the row was still open.    *)
markReleased(r) == held[r].state = "open"

CosignMark(p) ==
    /\ up[p] /\ busy[p].k = "signed"
    /\ LET r == busy[p].id
       IN  IF markReleased(r)
           THEN /\ held' = [held EXCEPT ![r] = [state |-> "released", by |-> busy[p].by]]
                /\ sent' = [sent EXCEPT ![r].released = @ + 1]
           ELSE UNCHANGED <<held, sent>>
    /\ busy' = [busy EXCEPT ![p] = Idle]
    /\ UNCHANGED <<now, env, up, window, bucket, history, req, ses, qry, work, chain,
                   ran, faults>>

----------------------------------------------------------------------------
(* POST /decisions.  The proposal is awaited; the loop over its actions is  *)
(* one synchronous section that evaluates, applies and appends per action.  *)

Decide(s, p, domain) ==
    /\ Free(p) /\ ses[s].pc = "new"
    /\ ses' = [ses EXCEPT ![s].pc = "proposing", ![s].at = p, ![s].domain = domain,
                          ![s].baseline = runBaselinePolicy[Len(Ticks)]]
    /\ UNCHANGED <<now, env, up, window, bucket, history, busy, req, held, sent, qry,
                   work, chain, ran, faults>>

(* proposePolicy: no key, a failed call and invalid JSON all fall back.     *)
Propose(s, p, fallback, proposal) ==
    /\ Free(p) /\ ses[s].pc = "proposing" /\ ses[s].at = p
    /\ LET actions == IF fallback THEN deterministicFallback ELSE proposal
       IN  /\ ses' = [ses EXCEPT ![s].actions = actions, ![s].fallback = fallback,
                                 ![s].pc = IF actions = <<>> THEN "done" ELSE "looping"]
           /\ busy' = [busy EXCEPT ![p] = IF actions = <<>> THEN Idle
                                          ELSE [k |-> "loop", id |-> s, by |-> "none"]]
    /\ UNCHANGED <<now, env, up, window, bucket, history, req, held, sent, qry, work,
                   chain, ran, faults>>

dispatchContext(s, action) ==
    LET impact == impactOfAction(action)
    IN  [decisionId |-> s, domain |-> ses[s].domain, confidence |-> action.confidence,
         reversible |-> action.type # "discharge" \/ action.volume <= 2,
         unit |-> impact.unit, value |-> impact.value,
         residency |-> "eu", jurisdiction |-> "RO",
         sourceCount |-> 3, age |-> 0, consensus |-> TRUE,
         role |-> "operator", taskClass |-> "operational", priorApproval |-> {},
         fallbackAvailable |-> TRUE, asset |-> Asset]

LoopEvaluate(p) ==
    /\ up[p] /\ busy[p].k = "loop"
    /\ LET s == busy[p].id
           action == ses[s].actions[ses[s].i]
           ctx == dispatchContext(s, action)
           verdict == evaluate(ctx, Policy(env.unknownTier), window[p], now)
       IN  /\ ses' = [ses EXCEPT
                        ![s].verdicts = Append(@, verdict),
                        ![s].advisories = Append(@, analyzeExposure(ctx)),
                        ![s].soc = IF verdict = "allow" THEN applyAction(action, @) ELSE @]
           /\ IF verdict = "allow"
              THEN /\ window' = [window EXCEPT
                                   ![p] = recordExecution(@, verdict, ctx.taskClass, now)]
                   /\ ran' = [ran EXCEPT ![p] = Append(@, now)]
              ELSE UNCHANGED <<window, ran>>
    /\ busy' = [busy EXCEPT ![p].k = "append"]
    /\ UNCHANGED <<now, env, up, bucket, history, req, held, sent, qry, work, chain,
                   faults>>

LoopAppend(p) ==
    /\ up[p] /\ busy[p].k = "append"
    /\ LET s == busy[p].id
           last == ses[s].i = Len(ses[s].actions)
       IN  /\ chain' = Append(chain, AuditRecord("decision", s,
                                              outcomeAction(Last(ses[s].verdicts)),
                                              "none", ses[s].i))
           /\ ses' = [ses EXCEPT ![s].i = @ + 1, ![s].pc = IF last THEN "done" ELSE @]
           /\ busy' = [busy EXCEPT ![p] = IF last THEN Idle ELSE [@ EXCEPT !.k = "loop"]]
    /\ UNCHANGED <<now, env, up, window, bucket, history, req, held, sent, qry, work,
                   ran, faults>>

(* Mutant: the failed append is only logged and the loop goes on. *)
LoopAppendRaises_GoesOn(p) ==
    /\ up[p] /\ busy[p].k = "append"
    /\ dbFails
    /\ LET s == busy[p].id
           last == ses[s].i = Len(ses[s].actions)
       IN  /\ ses' = [ses EXCEPT ![s].i = @ + 1, ![s].pc = IF last THEN "done" ELSE @]
           /\ busy' = [busy EXCEPT ![p] = IF last THEN Idle ELSE [@ EXCEPT !.k = "loop"]]
    /\ UNCHANGED <<now, env, up, window, bucket, history, req, held, sent, qry, work,
                   chain, ran>>

(* The append raises out of the loop: the session is lost with what it ran. *)
LoopAppendRaises(p) ==
    /\ up[p] /\ busy[p].k = "append"
    /\ dbFails
    /\ ses' = [ses EXCEPT ![busy[p].id].pc = "failed"]
    /\ busy' = [busy EXCEPT ![p] = Idle]
    /\ UNCHANGED <<now, env, up, window, bucket, history, req, held, sent, qry, work,
                   chain, ran>>

----------------------------------------------------------------------------
(* POST /query.  Policy, routing and the gate are synchronous; a blocked    *)
(* query is recorded at once.  A verdict that asks for a human does not     *)
(* stop the execution: it only shows in the record.                         *)

routingOf == [request \in UnifiedRequests |-> Exchange!rankModels(request)]

Query(q, p, request) ==
    /\ Free(p) /\ qry[q].pc = "new"
    /\ LET routing == routingOf[request]
           verdict == evaluate(Exchange!buildDecisionContext(q, Head(routing), request),
                               Policy(env.unknownTier), window[p], now)
           asked == [qry[q] EXCEPT !.at = p, !.ask = request, !.verdict = verdict,
                                   !.routing = [k \in DOMAIN routing |-> routing[k].id]]
       IN  IF routing = <<>>
           THEN /\ qry' = [qry EXCEPT ![q].pc = "done", ![q].status = "rejected-policy"]
                /\ busy' = busy
           ELSE IF verdict = "block"
           THEN /\ qry' = [qry EXCEPT ![q] = [asked EXCEPT !.pc = "recording",
                                                !.status = "rejected-governance"]]
                /\ busy' = [busy EXCEPT ![p] = [k |-> "record", id |-> q, by |-> "none"]]
           ELSE /\ qry' = [qry EXCEPT ![q] = [asked EXCEPT !.pc = "executing"]]
                /\ busy' = busy
    /\ UNCHANGED <<now, env, up, window, bucket, history, req, held, sent, ses, work,
                   chain, ran, faults>>

(* The engine a query is at: the i-th of its routing table.                 *)
candidate(q) == Exchange!getModel(qry[q].routing[qry[q].i])

(* The engines are tried in order until one answers, all of them under the  *)
(* verdict the first one got.  That none did is answered without a record.  *)
ExecuteEngine(q, p) ==
    /\ Free(p) /\ qry[q].pc = "executing" /\ qry[q].at = p
    /\ \E x \in Exchange!executeEngine(candidate(q), qry[q].ask, env.keys) :
         IF x.ok
         THEN /\ qry' = [qry EXCEPT
                   ![q].pc = "recording",
                   ![q].status = IF qry[q].i = 1 THEN "completed" ELSE "escalated",
                   ![q].confidence = Exchange!assure(candidate(q), x)]
              /\ busy' = [busy EXCEPT ![p] = [k |-> "record", id |-> q, by |-> "none"]]
         ELSE /\ qry' = IF qry[q].i = Len(qry[q].routing)
                        THEN [qry EXCEPT ![q].pc = "done", ![q].status = "failed"]
                        ELSE [qry EXCEPT ![q].i = @ + 1]
              /\ busy' = busy
    /\ UNCHANGED <<now, env, up, window, bucket, history, req, held, sent, ses, work,
                   chain, ran, faults>>

queryAction(q) ==
    CASE qry[q].status = "rejected-governance" -> "blocked"
      [] qry[q].status # "rejected-governance" /\ humanCoSignRequired(qry[q].verdict)
            -> "held-for-cosign"
      [] OTHER -> "executed"

QueryAppend(p) ==
    /\ up[p] /\ busy[p].k = "record"
    /\ LET q == busy[p].id
       IN  chain' = Append(chain, AuditRecord("model-exchange", q, queryAction(q),
                                              candidate(q).id, 0))
    /\ busy' = [busy EXCEPT ![p].k = "work"]
    /\ UNCHANGED <<now, env, up, window, bucket, history, req, held, sent, ses, qry, work,
                   ran, faults>>

(* The ledger row carries the hash of the record, and the answer goes out   *)
(* after it.                                                                *)
recordWork(p) ==
    /\ up[p] /\ busy[p].k = "work"
    /\ LET q == busy[p].id
           status == IF qry[q].status = "rejected-governance" THEN "rejected"
                     ELSE qry[q].status
       IN  /\ work' = [work EXCEPT ![q] =
                         Append(@, [engine |-> candidate(q).id,
                                    status |-> status,
                                    confidence |-> qry[q].confidence])]
           /\ qry' = [qry EXCEPT ![q].pc = "done"]
    /\ busy' = [busy EXCEPT ![p] = Idle]
    /\ UNCHANGED <<now, env, up, window, bucket, history, req, held, sent, ses, chain,
                   ran, faults>>

(* Either statement raises: the route answers 500.                          *)
QueryRaises(p) ==
    /\ up[p] /\ busy[p].k \in {"record", "work"}
    /\ dbFails
    /\ qry' = [qry EXCEPT ![busy[p].id].pc = "failed"]
    /\ busy' = [busy EXCEPT ![p] = Idle]
    /\ UNCHANGED <<now, env, up, window, bucket, history, req, held, sent, ses, work,
                   chain, ran>>

----------------------------------------------------------------------------
Tick ==
    /\ now < MaxTime
    /\ now' = now + 1
    /\ UNCHANGED <<env, up, window, bucket, history, busy, req, held, sent, ses, qry,
                   work, chain, ran, faults>>

Boot(p) ==
    /\ ~up[p] /\ assertMi9EnforcementAllowed
    /\ up' = [up EXCEPT ![p] = TRUE]
    /\ UNCHANGED <<now, env, window, bucket, history, busy, req, held, sent, ses, qry,
                   work, chain, ran, faults>>

(* What the process held in memory is gone; the database keeps its rows.    *)
Crash(p) ==
    /\ up[p] /\ faults.crashes < MaxCrashes
    /\ faults' = [faults EXCEPT !.crashes = @ + 1]
    /\ up' = [up EXCEPT ![p] = FALSE]
    /\ window' = [window EXCEPT ![p] = <<>>]
    /\ ran' = [ran EXCEPT ![p] = <<>>]
    /\ bucket' = [bucket EXCEPT ![p] = NoBucket]
    /\ history' = [history EXCEPT ![p] = 0]
    /\ busy' = [busy EXCEPT ![p] = Idle]
    /\ req' = [r \in Requests |->
                 IF req[r].at = p /\ req[r].pc \notin {"done", "failed"}
                 THEN [req[r] EXCEPT !.pc = "failed"] ELSE req[r]]
    /\ ses' = [s \in Sessions |->
                 IF ses[s].at = p /\ ses[s].pc \notin {"done", "failed"}
                 THEN [ses[s] EXCEPT !.pc = "failed"] ELSE ses[s]]
    /\ qry' = [q \in Queries |->
                 IF qry[q].at = p /\ qry[q].pc \notin {"done", "failed"}
                 THEN [qry[q] EXCEPT !.pc = "failed"] ELSE qry[q]]
    /\ UNCHANGED <<now, env, held, sent, work, chain>>

Next ==
    \/ Tick
    \/ \E p \in Replicas :
         \/ Boot(p) \/ Crash(p)
         \/ Enforce(p) \/ HoldRaises(p)
         \/ CosignAppend(p) \/ CosignAppendRaises(p) \/ CosignMark(p)
         \/ LoopEvaluate(p) \/ LoopAppend(p) \/ LoopAppendRaises(p)
         \/ QueryAppend(p) \/ recordWork(p) \/ QueryRaises(p)
         \/ \E q \in Queries :
              \/ ExecuteEngine(q, p)
              \/ \E request \in UnifiedRequests : Query(q, p, request)
         \/ \E r \in Requests :
              \/ Context(r, p)
              \/ \E b \in BOOLEAN : Gateway(r, p, b) \/ Gate(r, p, b)
              \/ \E strategy \in Strategies, calls \in [1 .. 2 -> BOOLEAN],
                    answer \in {"empty", "short", "long"} :
                    ModelFabric(r, p, strategy, calls, answer)
              \/ GateRaises(r, p)
              \/ \E o \in Operators : CosignRead(o, p, r)
         \/ \E s \in Sessions :
              \/ \E domain \in DecisionDomains : Decide(s, p, domain)
              \/ \E fallback \in BOOLEAN, proposal \in ModelActions :
                    Propose(s, p, fallback, proposal)

Spec == Init /\ [][Next]_vars

----------------------------------------------------------------------------
(* In production an answer that was not allowed outright reaches a client   *)
(* only after the audit chain holds its own record, with the outcome held   *)
(* or escalated, followed by a release record signed by the operator whose  *)
(* name the row carries (orchestrator.ts:207-238, router.ts:104-147).  The  *)
(* exception is the catch of orchestrator.ts:239: when the append or the    *)
(* hold raises, the response keeps its content.                             *)
AnswersAreGoverned ==
    env.production =>
    \A r \in Requests :
        /\ sent[r].direct > 0 => req[r].verdict \in {"allow", "audit-error"}
        /\ sent[r].released > 0 =>
              \E i, j \in DOMAIN chain :
                 /\ i < j
                 /\ chain[i].type = "planes.inference" /\ chain[i].id = r
                 /\ chain[i].action \in {"held-for-cosign", "escalated"}
                 /\ chain[j] = AuditRecord("cosign.release", r, "executed",
                                           held[r].by, 0)

(* A held answer is handed out once: two operators who co-sign it at the    *)
(* same time on two replicas cannot both receive it (cosign-store.ts:148),  *)
(* whichever of them signed the chain first.                                *)
ReleasedOnce == \A r \in Requests : sent[r].released <= 1

SessionIsRecorded(s) ==
    LET unrecorded == {i \in DOMAIN ses[s].verdicts :
                         /\ ses[s].verdicts[i] = "allow"
                         /\ AuditRecord("decision", s, "executed", "none", i)
                               \notin Range(chain)}
    IN  /\ Cardinality(unrecorded) <= 1
        /\ ses[s].pc = "done" => unrecorded = {}

QueryIsRecorded(q) ==
    /\ \A row \in Range(work[q]) :
         \E rec \in Range(chain) :
            /\ rec.type = "model-exchange" /\ rec.id = q /\ rec.by = row.engine
            /\ (row.status = "rejected") = (rec.action = "blocked")
    /\ qry[q].pc = "done" /\ qry[q].status \notin {"none", "rejected-policy", "failed"}
          => Len(work[q]) = 1

(* What ran is in the chain.  The actions a session executed on its own are *)
(* recorded, except at most the one whose append failed or was cut off by a *)
(* crash: it was applied and charged first (orchestrator.ts:167-182 of      *)
(* decision-loop).  A query that was answered by an engine, or refused by   *)
(* the gate, has one row in the work ledger, and no row is without the      *)
(* audit record of the same engine and outcome, so that work and evidence   *)
(* can be reconciled (work-ledger.ts:7); a crash or a failed statement may  *)
(* leave a record without a row, never the reverse.                         *)
ExecutedIsRecorded ==
    /\ \A s \in Sessions : SessionIsRecorded(s)
    /\ \A q \in Queries : QueryIsRecorded(q)

(* No replica executes more than the hourly number of autonomous actions in *)
(* any window of an hour since it booted, whatever sessions share it: the   *)
(* window that evaluate() reads is charged only after execution.            *)
AutonomousWithinLimit ==
    \A p \in Replicas : \A t \in 0 .. MaxTime :
        Cardinality({i \in DOMAIN ran[p] : ran[p][i] \in t .. t + Hour}) <= AutonomousPerHour

(* The two risk opinions agree: with an asset of good quality, the gate     *)
(* never lets an action run on its own that the exposure analysis, which    *)
(* has thresholds of its own, advises to defer or to reject.                *)
AllowedIsNotRejected ==
    \A s \in Sessions : \A i \in DOMAIN ses[s].verdicts :
        ses[s].verdicts[i] = "allow" =>
            ses[s].advisories[i] \in {"proceed", "proceed-with-controls"}

(* The actions of one type that the gate did not let session s execute.     *)
heldActions(s, type) ==
    {i \in DOMAIN ses[s].verdicts :
        ses[s].verdicts[i] # "allow" /\ ses[s].actions[i].type = type}

(* "AI proposes, physics disposes": a fallback proposal keeps the battery   *)
(* within the floor and the ceiling of the governed envelope as long as all *)
(* of it is executed.  Once an action is held, the rest was computed for a  *)
(* charge the battery does not have, and applyAction checks no bound: each  *)
(* charge that was held may take it below the floor by one hour at rated    *)
(* power, each discharge above the ceiling, and nothing takes it further.   *)
(* The baseline stays within the rating.                                    *)
ExecutedWithinEnvelope ==
    \A s \in Sessions :
        LET astray(type) == Cardinality(heldActions(s, type)) * Asset.ratedPower
        IN  /\ ses[s].baseline \in 0 .. Asset.ratedEnergy
            /\ ses[s].fallback =>
                  ses[s].soc \in generateGovernedEnvelope.socFloor - astray("charge")
                              .. generateGovernedEnvelope.socCeiling + astray("discharge")
============================================================================
