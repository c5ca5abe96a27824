---------------------------- MODULE ModelRouter ----------------------------
(***************************************************************************)
(* The catalogue, the policy, the score and the calibrator of              *)
(* src/runtime/router: which engines may take a request, and in which      *)
(* order they are tried.                                                   *)
(*                                                                         *)
(* Prices are cents per million tokens, so that tokens times price is in   *)
(* units of 1e-8 USD, the precision the code rounds to.  Scores are        *)
(* hundredths.                                                             *)
(***************************************************************************)
EXTENDS Providers, SequencesExt

CONSTANTS
    WINDOW_SIZE,    \* samples kept per model
    MIN_SAMPLES     \* below this the catalogue's latency is used

ASSUME RouterAssumption == WINDOW_SIZE \in Nat \ {0} /\ MIN_SAMPLES \in Nat

----------------------------------------------------------------------------
Entry(provider, model, in, out, ms, juris, level, quality, evidence, risk, search, caps) ==
    [provider |-> provider, model |-> model, in |-> in, out |-> out, ms |-> ms,
     jurisdictions |-> juris, sovereignty |-> level, quality |-> quality,
     evidence |-> evidence, risk |-> risk, search |-> search, capabilities |-> caps]

Prose == {"reasoning", "generation", "analysis", "synthesis"}

ollamaEntries ==
    LET local(model, ms, q, ev, risk, caps) ==
            Entry("ollama", model, 0, 0, ms, {"LOCAL", "RO"}, 3, q, ev, risk, FALSE, caps)
    IN  <<local("deepseek-r1:1.5b", 4200, 59, 48, 14, {"reasoning", "analysis", "calculation"}),
          local("deepseek-r1:70b", 125000, 86, 65, 18,
                {"reasoning", "analysis", "calculation", "synthesis"}),
          local("llama3.1:70b", 116000, 84, 72, 15,
                {"reasoning", "analysis", "verification", "synthesis"}),
          local("qwen2.5:72b", 102000, 85, 68, 16, Prose \cup {"summarization", "decomposition"}),
          local("qwen2.5-coder:3b", 5200, 66, 58, 12,
                {"generation", "analysis", "validation", "verification"}),
          local("qwen3:4b", 6500, 68, 55, 12,
                {"generation", "analysis", "summarization", "extraction", "decomposition"}),
          local("qwen3-coder:30b", 75000, 87, 68, 14,
                {"generation", "analysis", "validation", "verification", "decomposition"}),
          local("qwen3.5:35b", 80000, 89, 70, 14,
                Prose \cup {"summarization", "decomposition", "verification"}),
          local("qwen3.5:4b", 7000, 73, 57, 12,
                {"reasoning", "generation", "analysis", "summarization", "extraction"})>>

openaiEntries ==
    LET gpt(model, in, out, ms, q, ev, risk, caps) ==
            Entry("openai", model, in, out, ms, {"US"}, 1, q, ev, risk, FALSE, caps)
    IN  <<gpt("gpt-5", 125, 1000, 6500, 93, 76, 17, Prose \cup {"decomposition", "extraction"}),
          gpt("gpt-5-mini", 25, 200, 3800, 86, 70, 19,
              {"reasoning", "generation", "analysis", "summarization", "extraction", "validation"}),
          gpt("gpt-5-nano", 5, 40, 2200, 76, 62, 22,
              {"summarization", "extraction", "validation", "lookup"}),
          gpt("gpt-5.5", 500, 3000, 9000, 96, 78, 16, Prose \cup {"decomposition", "extraction"})>>

anthropicEntries ==
    LET claude(model, in, out, ms, q, ev, risk, caps) ==
            Entry("anthropic", model, in, out, ms, {"US"}, 1, q, ev, risk, FALSE, caps)
    IN  <<claude("claude-haiku-4-5", 100, 500, 2600, 82, 72, 18,
                 {"summarization", "extraction", "validation", "analysis", "verification"}),
          claude("claude-opus-4-7", 500, 2500, 8500, 95, 82, 15,
                 Prose \cup {"verification", "decomposition"}),
          claude("claude-sonnet-4-6", 300, 1500, 5200, 92, 80, 16,
                 Prose \cup {"verification", "extraction"})>>

googleEntries ==
    LET gemini(model, in, out, ms, q, ev, risk, caps) ==
            Entry("google", model, in, out, ms, {"US"}, 1, q, ev, risk, FALSE, caps)
    IN  <<gemini("gemini-3.1-pro-preview", 200, 1200, 6000, 91, 74, 18,
                 Prose \cup {"summarization", "extraction"}),
          gemini("gemini-3.6-flash", 50, 300, 2400, 83, 68, 20,
                 {"summarization", "extraction", "analysis", "validation", "lookup"}),
          gemini("gemini-3.7-flash", 50, 300, 2400, 89, 72, 18,
                 Prose \cup {"summarization", "extraction", "verification"})>>

deepseekEntries ==
    <<Entry("deepseek", "deepseek-chat", 27, 110, 4200, {"CN"}, 0, 80, 60, 44, FALSE,
            {"generation", "summarization", "extraction", "analysis"}),
      Entry("deepseek", "deepseek-reasoner", 55, 219, 11000, {"CN"}, 0, 88, 64, 42, FALSE,
            {"reasoning", "analysis", "calculation", "synthesis"})>>

perplexityEntries ==
    <<Entry("perplexity", "sonar", 100, 100, 4000, {"US"}, 1, 76, 86, 22, TRUE,
            {"search", "lookup", "summarization"}),
      Entry("perplexity", "sonar-pro", 300, 1500, 7000, {"US"}, 1, 84, 90, 20, TRUE,
            {"search", "lookup", "summarization", "analysis"})>>

kimiEntry == Entry("kimi", "kimi-k2.6", 95, 400, 7000, {"CN"}, 0, 91, 68, 42, FALSE,
                   Prose \cup {"decomposition"})

xaiEntry == Entry("xai", "grok-4.5", 200, 600, 7000, {"US"}, 1, 94, 76, 18, FALSE,
                  Prose \cup {"decomposition", "verification"})

deterministicEntry == Entry("deterministic", "deterministic-core", 0, 0, 5, {"sovereign"}, 3,
                            100, 100, 2, FALSE, {"calculation", "validation", "lookup"})

(* Ordered by identifier, which is the last criterion of the ranking.       *)
RUNTIME_CATALOGUE ==
    anthropicEntries \o deepseekEntries \o googleEntries \o <<kimiEntry>> \o ollamaEntries
        \o openaiEntries \o perplexityEntries \o <<deterministicEntry, xaiEntry>>

Models == {RUNTIME_CATALOGUE[i].model : i \in DOMAIN RUNTIME_CATALOGUE}

getCatalogueEntry(model) ==
    RUNTIME_CATALOGUE[CHOOSE i \in DOMAIN RUNTIME_CATALOGUE : RUNTIME_CATALOGUE[i].model = model]

----------------------------------------------------------------------------
(* The calibrator: win[m] is the window of samples [ms, ok] of model m.     *)

recordSample(win, model, ms, ok) ==
    LET ring == Append(win[model], [ms |-> ms, ok |-> ok])
    IN  [win EXCEPT ![model] = IF Len(ring) > WINDOW_SIZE THEN Tail(ring) ELSE ring]

(* The lower median of the successful samples; the seed while warming up.   *)
telemetryFor(entry, ring) ==
    LET good == {i \in DOMAIN ring : ring[i].ok}
        faster(i, j) == ring[i].ms < ring[j].ms \/ (ring[i].ms = ring[j].ms /\ i < j)
        median == CHOOSE i \in good : Cardinality({j \in good : faster(j, i)})
                                          = (Cardinality(good) - 1) \div 2
    IN  [latency |-> IF Len(ring) < MIN_SAMPLES \/ good = {} THEN entry.ms ELSE ring[median].ms,
         ok |-> IF ring = <<>> THEN 1 ELSE Cardinality(good),
         of |-> IF ring = <<>> THEN 1 ELSE Len(ring)]

seedFromLedger(win, samples) ==
    LET seeded[n \in 0 .. Len(samples)] ==
            IF n = 0 THEN win
            ELSE recordSample(seeded[n - 1], samples[n].model, samples[n].ms, samples[n].ok)
    IN  seeded[Len(samples)]

----------------------------------------------------------------------------
(* The policy.  A constraint that was not supplied is 0, {} or "none".      *)

NoConstraints == [task |-> "reasoning", confidentiality |-> "internal", allowed |-> {},
                  denied |-> {}, latency |-> 0, cost |-> 0, evidence |-> 0, pin |-> "none",
                  search |-> FALSE, model |-> "none"]

EXACT_TASKS == {"calculation", "validation", "lookup"}

EU_JURISDICTIONS == {"EU", "RO"}

(* A deliberate over-estimate: 600 tokens of context, 900 of answer.        *)
estimateRequestCost(entry, chars) == ((chars + 3) \div 4 + 600) * entry.in + 900 * entry.out

computeActualCost(entry, input, output) == input * entry.in + output * entry.out

credentialPresent(entry, env) == entry.provider \in invocableProviders(env)

(* Mutant: only the restricted level is checked. *)
confidentialityAdmits_Restricted(entry, c) ==
    c.confidentiality = "restricted" => entry.sovereignty >= 1

confidentialityAdmits(entry, c) ==
    CASE c.confidentiality = "sovereign" -> entry.sovereignty >= 3
      [] c.confidentiality = "restricted" -> entry.sovereignty >= 1
      [] OTHER -> TRUE

capabilityMatches(entry, c) ==
    \/ c.task \in entry.capabilities
    \/ c.task \in EXACT_TASKS /\ "reasoning" \in entry.capabilities

providerListed(entry, c) ==
    /\ c.allowed # {} => {entry.provider, entry.model} \cap c.allowed # {}
    /\ {entry.provider, entry.model} \cap c.denied = {}

latencyAdmits(entry, c, win) ==
    c.latency > 0 => telemetryFor(entry, win[entry.model]).latency <= c.latency

costAdmits(entry, c, chars) == c.cost > 0 => estimateRequestCost(entry, chars) <= c.cost

jurisdictionAdmits(entry, c) ==
    CASE c.pin = "EU" -> entry.jurisdictions \cap (EU_JURISDICTIONS \cup {"sovereign"}) # {}
      [] c.pin = "sovereign" -> "sovereign" \in entry.jurisdictions
      [] c.pin = "US" -> entry.jurisdictions \cap {"US", "sovereign"} # {}
      [] OTHER -> TRUE

(* Every rule filters what the rules before it left, so the eligible        *)
(* engines are those that pass them all; an operator's pin selects within.  *)
(* They are known by their places in the catalogue.                         *)
applyRuntimePolicies(c, chars, env, win) ==
    {i \in DOMAIN RUNTIME_CATALOGUE :
        LET e == RUNTIME_CATALOGUE[i]
        IN  /\ credentialPresent(e, env)
            /\ confidentialityAdmits(e, c)
            /\ capabilityMatches(e, c)
            /\ providerListed(e, c)
            /\ latencyAdmits(e, c, win)
            /\ costAdmits(e, c, chars)
            /\ c.evidence > 0 => e.evidence >= c.evidence
            /\ jurisdictionAdmits(e, c)
            /\ c.search => e.search
            /\ c.model # "none" => e.model = c.model}

----------------------------------------------------------------------------
atMost(n, max) == IF n > max THEN max ELSE n

(* Quality discounted by reliability, plus sovereignty and evidence, minus  *)
(* cost (full penalty at 0.05 USD), latency (at 15 s) and risk.             *)
scoreCandidate(entry, chars, ring) ==
    LET t == telemetryFor(entry, ring)
    IN  (entry.quality * 100 * t.ok) \div t.of
        - (8 * atMost(estimateRequestCost(entry, chars) \div 500, 10000)) \div 10
        - atMost((t.latency * 2) \div 3, 10000) \div 2
        - 60 * entry.risk
        + (7 * ((entry.sovereignty * 10000) \div 3)) \div 10
        + 60 * entry.evidence

(* Best score first, then cheaper, then faster, then by identifier; an      *)
(* exact task has the exact engine moved to the front.                      *)
rankCandidates(eligible, chars, win, deterministicFirst) ==
    LET score(i) ==
            LET e == RUNTIME_CATALOGUE[i]
            IN  [at |-> i,
                 rest |-> IF deterministicFirst /\ e.provider = "deterministic" THEN 0 ELSE 1,
                 total |-> scoreCandidate(e, chars, win[e.model]),
                 cost |-> estimateRequestCost(e, chars),
                 ms |-> telemetryFor(e, win[e.model]).latency]
        scored == {score(i) : i \in eligible}
        before(a, b) ==
            \/ a.rest < b.rest
            \/ a.rest = b.rest /\ a.total > b.total
            \/ a.rest = b.rest /\ a.total = b.total /\ a.cost < b.cost
            \/ a.rest = b.rest /\ a.total = b.total /\ a.cost = b.cost /\ a.ms < b.ms
            \/ /\ a.rest = b.rest /\ a.total = b.total /\ a.cost = b.cost /\ a.ms = b.ms
               /\ a.at < b.at
        placed == {[at |-> a.at, place |-> Cardinality({b \in scored : before(b, a)}) + 1] : a \in scored}
    IN  [n \in 1 .. Cardinality(eligible) |->
            RUNTIME_CATALOGUE[(CHOOSE p \in placed : p.place = n).at].model]

(* The engines to try, in order; empty when policy rejects the request.     *)
routeOnly(c, chars, env, win) ==
    rankCandidates(applyRuntimePolicies(c, chars, env, win), chars, win, c.task = "calculation")
=============================================================================
