--------------------------- MODULE ModelExchange ---------------------------
(***************************************************************************)
(* The pure part of src/model-exchange/: the registry of engines, the      *)
(* policy filter P1 to P8, the six-term score, the decision context handed *)
(* to the MI9 gate, what an engine adapter may return and the assurance of *)
(* its answer.  GovernedDecisions runs the pipeline over them.             *)
(*                                                                         *)
(* Scales: prices in millionths of a dollar per thousand tokens, so that   *)
(* an estimate is in billionths; scores and confidences in hundredths.     *)
(* A request is [task, level, providers, latency, cost, evidence, pin,     *)
(* words, computable]; 0 and {} stand for a field that is not given, words *)
(* is the length of the query over four, and computable says whether it    *)
(* holds an expression that evaluates.                                     *)
(***************************************************************************)
EXTENDS Integers, Sequences, FiniteSets, SequencesExt

Generative == {"reasoning", "generation", "analysis", "extraction"}

MODEL_REGISTRY ==
    <<[id |-> "openai/gpt-4.1", engine |-> "openai",
       capabilities |-> Generative \cup {"summarization"}, input |-> 2000, output |-> 8000,
       latency |-> 2600, jurisdictions |-> {"US"}, quality |-> 92, sovereignty |-> 1,
       evidence |-> 74, risk |-> 18, status |-> "live"],
      [id |-> "anthropic/claude-sonnet-4", engine |-> "anthropic",
       capabilities |-> Generative \cup {"summarization"}, input |-> 3000, output |-> 15000,
       latency |-> 3100, jurisdictions |-> {"US"}, quality |-> 91, sovereignty |-> 1,
       evidence |-> 76, risk |-> 20, status |-> "simulated"],
      [id |-> "mistral/mistral-large-2", engine |-> "mistral",
       capabilities |-> Generative \cup {"summarization"}, input |-> 2000, output |-> 6000,
       latency |-> 2400, jurisdictions |-> {"EU", "FR"}, quality |-> 87, sovereignty |-> 2,
       evidence |-> 78, risk |-> 14, status |-> "simulated"],
      [id |-> "qwen/qwen3-72b", engine |-> "qwen",
       capabilities |-> Generative, input |-> 500, output |-> 2000,
       latency |-> 2900, jurisdictions |-> {"sovereign", "self-hosted"}, quality |-> 84,
       sovereignty |-> 3, evidence |-> 70, risk |-> 22, status |-> "simulated"],
      [id |-> "ronor/deterministic-core", engine |-> "deterministic",
       capabilities |-> {"calculation", "validation", "lookup"}, input |-> 0, output |-> 0,
       latency |-> 12, jurisdictions |-> {"sovereign"}, quality |-> 100,
       sovereignty |-> 3, evidence |-> 100, risk |-> 2, status |-> "live"]>>

getModel(id) ==
    CHOOSE m \in Range(MODEL_REGISTRY) : m.id = id

----------------------------------------------------------------------------
(* The policy filter.  The rules only remove engines, so that their order   *)
(* shows in the recorded evaluations, not in what is left.                  *)

EXACT_TASKS == {"calculation", "validation", "lookup"}

estimateCost(m, q) == (q.words + 400) * m.input + 700 * m.output

sovereignOnly(m, q) == q.level = "sovereign" => m.sovereignty >= 3

capabilityMatch(m, q) ==
    \/ q.task \in m.capabilities
    \/ q.task \in EXACT_TASKS /\ "reasoning" \in m.capabilities

jurisdictionPin(m, q) ==
    /\ q.pin = "EU" => m.jurisdictions \cap {"EU", "sovereign", "FR", "DE", "IT", "ES",
                                             "RO", "NL", "BE"} # {}
    /\ q.pin = "sovereign" => "sovereign" \in m.jurisdictions

(* providers holds the ids of the engines the allow-list names.             *)
applyPolicies(q) ==
    {m \in Range(MODEL_REGISTRY) :
        /\ m.status # "offline"
        /\ sovereignOnly(m, q) /\ capabilityMatch(m, q)
        /\ q.providers # {} => m.engine \in q.providers
        /\ q.latency > 0 => m.latency <= q.latency
        /\ q.cost > 0 => estimateCost(m, q) <= q.cost
        /\ q.evidence > 0 => m.evidence >= q.evidence
        /\ jurisdictionPin(m, q)}

deterministicFirst(q) == q.task = "calculation"

----------------------------------------------------------------------------
(* The router: +quality -cost -latency -risk +sovereignty +evidence, each   *)
(* term normalised to 0..100, weighted and rounded to hundredths.           *)

rounded(n, d) == (2 * n + d) \div (2 * d)

scoreModel(m, q) ==
    LET cost == rounded(estimateCost(m, q) * 16, 100000)
        latency == rounded(m.latency * 5, 8)
    IN  100 * m.quality
        - (IF cost > 8000 THEN 8000 ELSE cost)
        - (IF latency > 5000 THEN 5000 ELSE latency)
        - 60 * m.risk + rounded(7000 * m.sovereignty, 3) + 60 * m.evidence

(* Highest score first, ties in the order of the registry; for an exact     *)
(* calculation the deterministic engine is moved to the front.              *)
rankModels(q) ==
    LET models == SelectSeq(MODEL_REGISTRY, LAMBDA m : m \in applyPolicies(q))
        total == [i \in DOMAIN models |-> scoreModel(models[i], q)]
        place(i) == 1 + Cardinality({j \in DOMAIN models :
                                       \/ total[j] > total[i]
                                       \/ total[j] = total[i] /\ j < i})
        scored == [k \in DOMAIN models |->
                     models[CHOOSE i \in DOMAIN models : place(i) = k]]
        core(m) == m.id = "ronor/deterministic-core"
    IN  IF deterministicFirst(q)
        THEN SelectSeq(scored, core) \o SelectSeq(scored, LAMBDA m : ~core(m))
        ELSE scored

----------------------------------------------------------------------------
(* The context of the gate.  The confidence is the score over 200 plus one  *)
(* half; there is one source, and the impact is the estimate as euros.      *)

dataResidency(m, q) ==
    IF q.level = "sovereign" THEN "eu"
    ELSE IF m.jurisdictions \cap {"EU", "UK", "RO", "FR", "sovereign", "self-hosted"} # {}
    THEN "eu" ELSE IF "US" \in m.jurisdictions THEN "us" ELSE "eu"

buildDecisionContext(id, m, q) ==
    LET confidence == scoreModel(m, q) \div 200 + 50
    IN  [decisionId |-> id, domain |-> <<"model-exchange", q.task>>,
         confidence |-> IF confidence > 100 THEN 100
                        ELSE IF confidence < 0 THEN 0 ELSE confidence,
         reversible |-> TRUE, unit |-> "EUR", value |-> estimateCost(m, q) \div 1000000000,
         residency |-> dataResidency(m, q), jurisdiction |-> "RO",
         sourceCount |-> 1, age |-> 0, consensus |-> FALSE,
         role |-> "operator", taskClass |-> "operational", priorApproval |-> {},
         fallbackAvailable |-> FALSE]

----------------------------------------------------------------------------
(* What an adapter may return.  A failed call, a status that is not ok and  *)
(* content that is no JSON are all `failed'.                                *)

Answer(confidence, sources, substantive, simulated) ==
    [ok |-> TRUE, confidence |-> confidence, sources |-> sources,
     substantive |-> substantive, simulated |-> simulated]

failed ==
    [ok |-> FALSE, confidence |-> 0, sources |-> FALSE, substantive |-> FALSE,
     simulated |-> FALSE]

real == {Answer(90, TRUE, TRUE, FALSE), Answer(20, FALSE, FALSE, FALSE), failed}

executeOpenAI(keys) == IF "openai" \in keys THEN real ELSE {failed}

executeSimulatedProvider == {Answer(50, TRUE, TRUE, TRUE)}

executeAnthropic(keys) ==
    IF "anthropic" \in keys THEN real ELSE executeSimulatedProvider

executeDeterministic(q) ==
    {IF q.computable THEN Answer(100, TRUE, TRUE, FALSE) ELSE failed}

executeEngine(m, q, keys) ==
    CASE m.engine = "openai" -> executeOpenAI(keys)
      [] m.engine = "anthropic" -> executeAnthropic(keys)
      [] m.engine \in {"mistral", "qwen"} -> executeSimulatedProvider
      [] m.engine = "deterministic" -> executeDeterministic(q)

(* R-Assurance: the confidence recorded with the work.                      *)
assure(m, x) ==
    LET penalised == x.confidence - (IF x.sources THEN 0 ELSE 15)
                                  - (IF x.substantive THEN 0 ELSE 20)
        verified == IF m.engine = "deterministic" THEN 100 ELSE penalised
        capped == IF x.simulated /\ verified > 50 THEN 50 ELSE verified
    IN  IF capped < 0 THEN 0 ELSE capped
============================================================================
