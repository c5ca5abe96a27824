------------------------------ MODULE MI9Gate ------------------------------
(***************************************************************************)
(* The nine-gate evaluation of src/governance/mi9-gate.ts and the          *)
(* eight-dimension exposure analysis of src/governance/exposure-           *)
(* analysis.ts, as pure operators.  A gate is the verdict it returns; its  *)
(* wording and detail are left out.                                        *)
(*                                                                         *)
(* Scales: confidences and the asset's quality scores are hundredths,      *)
(* exposure scores are ten-thousandths, ages and the clock are ticks.      *)
(* A domain is the sequence of its dotted parts.                           *)
(***************************************************************************)
EXTENDS Integers, Sequences, FiniteSets, SequencesExt

CONSTANTS
    AutonomousPerHour,  \* rate_limits.autonomous_per_hour
    CosignPerHour,      \* rate_limits.cosign_per_hour
    Hour,               \* ticks of the sliding window
    ApprovalValidity    \* APPROVAL_VALIDITY_MS, in ticks

ASSUME GateAssumption ==
    /\ AutonomousPerHour \in Nat \ {0} /\ CosignPerHour \in Nat \ {0}
    /\ Hour \in Nat \ {0} /\ ApprovalValidity \in Nat

Verdict == {"allow", "allow-with-cosign", "escalate", "block"}

VERDICT_ORDER ==
    [v \in Verdict |-> CASE v = "allow" -> 0 [] v = "allow-with-cosign" -> 1
                         [] v = "escalate" -> 2 [] v = "block" -> 3]

(* What folding strictest(a, b) over the verdicts leaves: the greatest.      *)
strictest(verdicts) ==
    CHOOSE v \in verdicts : \A u \in verdicts : VERDICT_ORDER[v] >= VERDICT_ORDER[u]

(* The sections of policies.yaml the gates read, with the domains the       *)
(* models use.  unknown_domain_tier is the one setting a deployment varies  *)
(* here (MI9_POLICY_PATH): the file in the repository says unacceptable.    *)
Policy(unknown_domain_tier) ==
    [allowed_residencies |-> {"eu", "uk"},
     required_for |-> [j \in {"RO", "EU", "UK", "US", "OTHER"} |->
                          CASE j \in {"RO", "EU"} -> {"eu"} [] j = "UK" -> {"uk", "eu"}
                            [] j \in {"US", "OTHER"} -> {"eu", "uk", "us"}],
     domain_tiers |-> {[domain |-> <<"energy", "bess", "dispatch">>, tier |-> "high"],
                       [domain |-> <<"energy", "forecast", "price">>, tier |-> "limited"],
                       [domain |-> <<"runtime", "query">>, tier |-> "limited"],
                       [domain |-> <<"runtime", "agent">>, tier |-> "limited"],
                       [domain |-> <<"development", "merge", "main">>,
                        tier |-> "unacceptable"]},
     unknown_domain_tier |-> unknown_domain_tier,
     escalation_required_at_tier |-> {}, cosign_required_at_tier |-> {"high"},
     irreversible |-> "allow-with-cosign",
     block |-> [EUR |-> 100000, MWh |-> 40, MW |-> 100],
     escalation |-> [EUR |-> 10000, MWh |-> 15, MW |-> 30],
     cosign |-> [EUR |-> 1000, MWh |-> 5, MW |-> 10],
     minimum_autonomous |-> 85, minimum_cosign |-> 55,
     min_source_count |-> 2, max_data_age |-> 1,
     consensus_required |-> {<<"energy", "bess", "dispatch">>},
     fallback_required |-> {<<"energy", "bess", "dispatch">>}]

----------------------------------------------------------------------------
(* The window decisionsThisHour: a sequence of [ts, verdict], oldest first. *)

(* The places of the entries that pruning leaves.                           *)
pruneOldDecisions(w, now) == {i \in DOMAIN w : w[i].ts >= now - Hour}

countOf(verdict, w, now) ==
    Cardinality({i \in pruneOldDecisions(w, now) : w[i].verdict = verdict})

autonomousCount(w, now) == countOf("allow", w, now)

cosignCount(w, now) == countOf("allow-with-cosign", w, now)

(* Mutant: the window is charged with nothing. *)
recordExecution_Forgets(w, verdict, taskClass, now) == w

recordExecution(w, verdict, taskClass, now) ==
    IF taskClass = "operational" /\ verdict \in {"allow", "allow-with-cosign"}
    THEN Append(w, [ts |-> now, verdict |-> verdict]) ELSE w

RATE_LIMIT_EXEMPT_CLASSES == {"conversational", "analytical"}

(* priorApproval is a set of at most one [decisionId, at].                  *)
hasValidPriorApproval(ctx, now) ==
    \E a \in ctx.priorApproval :
        /\ a.decisionId = ctx.decisionId
        /\ now - a.at \in 0 .. ApprovalValidity

----------------------------------------------------------------------------
gateSovereignty(ctx, p) ==
    IF /\ ctx.residency \in p.allowed_residencies
       /\ ctx.residency \in p.required_for[ctx.jurisdiction]
    THEN "allow" ELSE "block"

(* The most specific classified prefix decides; none leaves the domain      *)
(* unclassified (null in the code, the empty set here).                     *)
resolveDomainTier(domain, tiers) ==
    LET matches == {t \in tiers : IsPrefix(t.domain, domain)}
    IN  {t.tier : t \in {m \in matches :
                            \A o \in matches : Len(o.domain) <= Len(m.domain)}}

gateRiskTier(ctx, p) ==
    LET resolved == resolveDomainTier(ctx.domain, p.domain_tiers)
        tier == IF resolved = {} THEN p.unknown_domain_tier
                ELSE CHOOSE t \in resolved : TRUE
    IN  IF tier = "unacceptable" THEN "block"
        ELSE IF tier \in p.escalation_required_at_tier THEN "escalate"
        ELSE IF tier \in p.cosign_required_at_tier THEN "allow-with-cosign"
        ELSE "allow"

gateReversibility(ctx, p) == IF ctx.reversible THEN "allow" ELSE p.irreversible

abs(n) == IF n < 0 THEN -n ELSE n

gateImpact(ctx, p) ==
    LET reaches(threshold) ==
            ctx.unit \in DOMAIN threshold /\ abs(ctx.value) >= threshold[ctx.unit]
    IN  CASE reaches(p.block) -> "block"
          [] ~reaches(p.block) /\ reaches(p.escalation) -> "escalate"
          [] ~reaches(p.escalation) /\ reaches(p.cosign) -> "allow-with-cosign"
          [] OTHER -> "allow"

gateConfidence(ctx, p) ==
    IF ctx.confidence < p.minimum_cosign THEN "escalate"
    ELSE IF ctx.confidence < p.minimum_autonomous THEN "allow-with-cosign"
    ELSE "allow"

gateEvidence(ctx, p) ==
    IF ctx.sourceCount < p.min_source_count THEN "escalate"
    ELSE IF ctx.age > p.max_data_age THEN "allow-with-cosign"
    ELSE IF ctx.domain \in p.consensus_required /\ ~ctx.consensus THEN "escalate"
    ELSE "allow"

(* Gate 7 only attaches the domain's rules to the record.                   *)
gatePolicyCompliance(ctx, p) == "allow"

(* The autonomous limit is tested first, so that it hides the co-sign one.  *)
gateRateLimits(ctx, p, w, now) ==
    IF hasValidPriorApproval(ctx, now) \/ ctx.taskClass \in RATE_LIMIT_EXEMPT_CLASSES
    THEN "allow"
    ELSE IF autonomousCount(w, now) >= AutonomousPerHour THEN "allow-with-cosign"
    ELSE IF cosignCount(w, now) >= CosignPerHour THEN "escalate"
    ELSE "allow"

gateFallback(ctx, p) ==
    IF ctx.domain \in p.fallback_required /\ ~ctx.fallbackAvailable
    THEN "block" ELSE "allow"

(* The strictest of the nine findings.                                      *)
evaluate(ctx, p, w, now) ==
    strictest({gateSovereignty(ctx, p), gateRiskTier(ctx, p),
               gateReversibility(ctx, p), gateImpact(ctx, p),
               gateConfidence(ctx, p), gateEvidence(ctx, p),
               gatePolicyCompliance(ctx, p), gateRateLimits(ctx, p, w, now),
               gateFallback(ctx, p)})

humanCoSignRequired(verdict) == verdict \in {"allow-with-cosign", "escalate"}

----------------------------------------------------------------------------
(* Exposure analysis.  A finding is the dimension's score.                  *)

Clamp(n) == IF n > 10000 THEN 10000 ELSE n

tierFromScore(score) ==
    IF score < 1500 THEN "low" ELSE IF score < 3000 THEN "moderate"
    ELSE IF score < 5000 THEN "elevated" ELSE IF score < 7500 THEN "high" ELSE "critical"

(* Twice the transaction over 100,000 EUR, 140 EUR standing for a MWh or MW. *)
financialExposure(ctx) ==
    Clamp((abs(ctx.value) * (IF ctx.unit = "EUR" THEN 1 ELSE 140)) \div 5)

regulatoryExposure(ctx) ==
    IF \E part \in Range(ctx.domain) :
          part \in {"bess", "vpp", "ancillary", "dispatch", "bid"}
    THEN 5500 ELSE 1500

operationalExposure(ctx) ==
    10000 - (ctx.asset.socIntegrity * 40 + ctx.asset.voltage * 30
             + ctx.asset.reliability * 30)

reputationalExposure(ctx) ==
    LET magnitude == IF ctx.unit = "EUR" THEN abs(ctx.value) ELSE 5000
    IN  Clamp(IF ctx.reversible THEN magnitude \div 10 ELSE magnitude \div 5)

counterpartyExposure(ctx) == Clamp((100 - ctx.asset.reliability) * 150)

cyberExposure(ctx) ==
    1500 + (IF ctx.role = "external" THEN 2000 ELSE 0)
         + (IF ctx.sourceCount < 2 THEN 1500 ELSE 0)

modelExposure(ctx) == (IF ctx.confidence > 100 THEN 0 ELSE 100 - ctx.confidence) * 70 + 1000

(* Mutant: a transaction that stays in the EU is the one held against it. *)
sovereigntyExposure_Inverted(ctx) ==
    IF ctx.jurisdiction = "RO" /\ ctx.residency = "eu" THEN 8500 ELSE 1000

sovereigntyExposure(ctx) ==
    IF ctx.jurisdiction = "RO" /\ ctx.residency # "eu" THEN 8500 ELSE 1000

Findings(ctx) ==
    <<financialExposure(ctx), regulatoryExposure(ctx), operationalExposure(ctx),
      reputationalExposure(ctx), counterpartyExposure(ctx), cyberExposure(ctx),
      modelExposure(ctx), sovereigntyExposure(ctx)>>

WEIGHTS == <<22, 18, 14, 8, 10, 10, 10, 8>>

aggregate(findings) ==
    LET weighted(i) == findings[i] * WEIGHTS[i]
    IN  (weighted(1) + weighted(2) + weighted(3) + weighted(4) + weighted(5)
         + weighted(6) + weighted(7) + weighted(8)) \div 100

advisoryFromAggregate(score, findings) ==
    IF \E f \in Range(findings) : tierFromScore(f) = "critical" THEN "reject"
    ELSE IF score >= 6500 THEN "defer"
    ELSE IF score >= 3500 THEN "proceed-with-controls" ELSE "proceed"

analyzeExposure(ctx) ==
    advisoryFromAggregate(aggregate(Findings(ctx)), Findings(ctx))
============================================================================
