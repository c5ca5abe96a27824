----------------------- MODULE MissionDispatchProofs -----------------------
(***************************************************************************)
(* Proofs about MissionDispatch: a mission runs only by the settlement of  *)
(* its approval, once, for the key that asked, in time and not after a     *)
(* rejection.  It rests on two facts of the code: the gate never lets a    *)
(* mission run by itself (MissionsNeedConsent), and a record leaves the    *)
(* approval store before anything runs (Inv).                              *)
(*                                                                         *)
(* And: confidential material stays with the engines its level admits.     *)
(* That rests on the catalogue (every entry is well formed), on the        *)
(* ranking (a model that is ranked is the model of an eligible entry, at   *)
(* every place of the routing) and on GuardInv, which says of every job    *)
(* and of the recorded telemetry what the next call needs.                 *)
(***************************************************************************)
EXTENDS MissionDispatch, ModelBudget, AlgorithmsProofs

----------------------------------------------------------------------------
(* The gate.                                                                *)

(* Folding strictest() leaves a finding that no other exceeds.              *)
LEMMA StrictestExceedsAll ==
    ASSUME NEW V \in SUBSET Verdict, V # {}
    PROVE  /\ strictest(V) \in V
           /\ \A u \in V : VERDICT_ORDER[strictest(V)] >= VERDICT_ORDER[u]
  <1>1. \E v \in V : \A u \in V : VERDICT_ORDER[v] >= VERDICT_ORDER[u]
    <2>1. CASE "block" \in V
      BY <2>1 DEF Verdict, VERDICT_ORDER
    <2>2. CASE "block" \notin V /\ "escalate" \in V
      BY <2>2 DEF Verdict, VERDICT_ORDER
    <2>3. CASE "block" \notin V /\ "escalate" \notin V /\ "allow-with-cosign" \in V
      BY <2>3 DEF Verdict, VERDICT_ORDER
    <2>4. CASE V = {"allow"}
      BY <2>4 DEF Verdict, VERDICT_ORDER
    <2>5. QED
      BY <2>1, <2>2, <2>3, <2>4 DEF Verdict
  <1>2. QED
    BY <1>1 DEF strictest

(* The policies a deployment may run under share what the proof needs.      *)
LEMMA PolicyFacts ==
    policyInForce.min_source_count = 2 /\ policyInForce.irreversible = "allow-with-cosign"
  <1>1. \A t : Policy(t).min_source_count = 2 /\ Policy(t).irreversible = "allow-with-cosign"
    BY DEF Policy
  <1>2. \A t : LET p == [Policy(t) EXCEPT !.domain_tiers = {}]
               IN  p.min_source_count = 2 /\ p.irreversible = "allow-with-cosign"
    BY DEF Policy
  <1>3. QED
    BY <1>1, <1>2, Zenon DEF policyInForce

LEMMA MissionFacts ==
    ASSUME NEW j, NEW r, NEW approved
    PROVE  /\ missionContext(j, r, approved).sourceCount = 0
           /\ missionContext(j, r, approved).reversible = FALSE
  <1> DEFINE unit == IF r.cost > 0 THEN "EUR" ELSE "other"
             value == IF r.cost > 0 THEN r.cost \div 100000000 ELSE 100
             ctx == buildDecisionContext(j, "agent", "decomposition", 60, 0, TRUE, unit, value)
             prior == IF approved THEN {[decisionId |-> j, at |-> now]} ELSE {}
  <1>1. missionContext(j, r, approved) = [ctx EXCEPT !.priorApproval = prior]
    BY SMT DEF missionContext
  <1> HIDE DEF unit, value, prior
  <1>2. ctx.sourceCount = 0
    BY Zenon DEF buildDecisionContext
  <1>3. ctx.reversible = FALSE
    BY Zenon DEF buildDecisionContext
  <1>4. "sourceCount" \in DOMAIN ctx /\ "reversible" \in DOMAIN ctx
    BY SMT DEF buildDecisionContext
  <1>5. PICK c : c = ctx
    OBVIOUS
  <1>6. QED
    BY <1>1, <1>2, <1>3, <1>4, <1>5

(* buildDecisionContext() gives a mission side effects and no sources, so   *)
(* the evidence gate escalates it under every policy: it is held or         *)
(* blocked, never released by the gate alone.                               *)
LEMMA MissionsNeedConsent ==
    ASSUME NEW j, NEW r, NEW approved
    PROVE  evaluateGovernance(missionContext(j, r, approved)) \in {"escalate", "block"}
  <1>1. PICK p : p = policyInForce
    OBVIOUS
  <1>2. PICK ctx : ctx = missionContext(j, r, approved)
    OBVIOUS
  <1>3. p.min_source_count = 2 /\ p.irreversible = "allow-with-cosign"
    BY <1>1, PolicyFacts
  <1>4. ctx.sourceCount = 0 /\ ctx.reversible = FALSE
    BY <1>2, MissionFacts
  <1> DEFINE F == {gateSovereignty(ctx, p), gateRiskTier(ctx, p),
                   gateReversibility(ctx, p), gateImpact(ctx, p),
                   gateConfidence(ctx, p), gateEvidence(ctx, p),
                   gatePolicyCompliance(ctx, p), gateRateLimits(ctx, p, <<>>, now),
                   gateFallback(ctx, p)}
  <1>5. gateEvidence(ctx, p) = "escalate"
    BY <1>3, <1>4 DEF gateEvidence
  <1>6. gateReversibility(ctx, p) \in Verdict
    BY <1>3, <1>4 DEF gateReversibility, Verdict
  <1>7. gateSovereignty(ctx, p) \in Verdict /\ gateFallback(ctx, p) \in Verdict
        /\ gatePolicyCompliance(ctx, p) \in Verdict
    BY DEF gateSovereignty, gateFallback, gatePolicyCompliance, Verdict
  <1>8. gateRiskTier(ctx, p) \in Verdict
    BY Zenon DEF gateRiskTier, Verdict
  <1>9. gateImpact(ctx, p) \in Verdict
    BY Zenon DEF gateImpact, Verdict
  <1>10. gateConfidence(ctx, p) \in Verdict
    BY Zenon DEF gateConfidence, Verdict
  <1>11. gateRateLimits(ctx, p, <<>>, now) \in Verdict
    BY Zenon DEF gateRateLimits, Verdict
  <1>12. "escalate" \in Verdict
    BY DEF Verdict
  <1>13. F \in SUBSET Verdict /\ "escalate" \in F
    BY <1>5, <1>6, <1>7, <1>8, <1>9, <1>10, <1>11, <1>12
  <1>14. evaluateGovernance(missionContext(j, r, approved)) = strictest(F)
    BY <1>1, <1>2, Zenon DEF evaluateGovernance, evaluate
  <1> HIDE DEF F
  <1>15. /\ strictest(F) \in Verdict
         /\ VERDICT_ORDER[strictest(F)] >= VERDICT_ORDER["escalate"]
    BY <1>13, StrictestExceedsAll
  <1>16. strictest(F) \in {"escalate", "block"}
    BY <1>15 DEF Verdict, VERDICT_ORDER
  <1>17. QED
    BY <1>14, <1>16


----------------------------------------------------------------------------
(* The inductive invariant.  A job is a record of which the proof reads     *)
(* these fields.                                                            *)

ApprovalFields == {"pc", "phase", "key", "starts", "settledBy", "settledAt", "expires", "result"}

Places == {"idle", "retrieving", "held", "calling", "planned", "done", "lost"}

Phases == {"query", "plan", "task", "synthesis"}

(* What a job knows of its approval.                                        *)
JobOk(jb) ==
    /\ ApprovalFields \subseteq DOMAIN jb
    /\ jb.pc \in Places
    /\ jb.pc = "calling" => jb.phase \in Phases
    /\ jb.pc = "held" => jb.starts = 0 /\ jb.result = "none"
    /\ jb.starts \in {0, 1}
    /\ jb.starts = 1 => /\ jb.settledBy = jb.key
                        /\ jb.settledAt <= jb.expires
                        /\ jb.result # "rejected"

(* A record of the approval store is that of a job still held, under its    *)
(* key and with its expiry.                                                 *)
StoreOk ==
    \A p \in pend : /\ job[p.job].pc = "held"
                    /\ p.key = job[p.job].key
                    /\ p.expires = job[p.job].expires

Inv ==
    /\ TypeOK
    /\ DOMAIN job = Jobs
    /\ \A j \in Jobs : JobOk(job[j])
    /\ StoreOk

(* An authenticated arrival starts from the idle job.                       *)
LEMMA ArrivalOk ==
    ASSUME NEW r, NEW k, NEW jb, jb = [Idle EXCEPT !.req = r, !.key = k]
    PROVE  /\ JobOk(jb) /\ ApprovalFields \subseteq DOMAIN jb
           /\ jb.pc = "idle" /\ jb.key = k /\ jb.starts = 0 /\ jb.result = "none"
  <1>1. /\ ApprovalFields \subseteq DOMAIN jb /\ jb.pc = "idle" /\ jb.key = k
        /\ jb.starts = 0 /\ jb.result = "none"
    BY DEF Idle, ApprovalFields
  <1>2. QED
    BY <1>1 DEF JobOk, Places

(* A step after which a job is not held and keeps what it knows.            *)
LEMMA Onward ==
    ASSUME NEW old, JobOk(old), NEW jb, ApprovalFields \subseteq DOMAIN jb,
           jb.key = old.key, jb.starts = old.starts, jb.settledBy = old.settledBy,
           jb.settledAt = old.settledAt, jb.expires = old.expires,
           jb.pc \in Places \ {"held"}, jb.pc = "calling" => jb.phase \in Phases,
           jb.result = old.result \/ jb.result # "rejected"
    PROVE  JobOk(jb)
  BY DEF JobOk

(* A job ends with a result other than a rejection.                         *)
LEMMA EndsOk ==
    ASSUME NEW old, JobOk(old), NEW result, result # "rejected", NEW jb,
           \/ \E total, lost :
                 jb = [old EXCEPT !.pc = "done", !.result = result, !.total = total, !.spent = 0,
                                  !.lost = lost]
           \/ jb = [old EXCEPT !.pc = "done", !.result = result]
    PROVE  JobOk(jb) /\ jb.pc = "done"
  <1>1. ApprovalFields \subseteq DOMAIN old
    BY DEF JobOk
  <1>2. /\ ApprovalFields \subseteq DOMAIN jb
        /\ jb.key = old.key /\ jb.starts = old.starts /\ jb.settledBy = old.settledBy
        /\ jb.settledAt = old.settledAt /\ jb.expires = old.expires
        /\ jb.pc = "done" /\ jb.result = result
    BY <1>1 DEF ApprovalFields
  <1>3. QED
    BY <1>2, Onward DEF Places

(* An exchange begins.                                                      *)
LEMMA ExchangingOk ==
    ASSUME NEW old, JobOk(old), NEW phase \in Phases, NEW routing, NEW jb,
           jb = exchanging(old, phase, routing)
    PROVE  JobOk(jb) /\ jb.pc = "calling"
  <1>1. ApprovalFields \subseteq DOMAIN old
    BY DEF JobOk
  <1>2. /\ ApprovalFields \subseteq DOMAIN jb
        /\ jb.key = old.key /\ jb.starts = old.starts /\ jb.settledBy = old.settledBy
        /\ jb.settledAt = old.settledAt /\ jb.expires = old.expires
        /\ jb.pc = "calling" /\ jb.phase = phase /\ jb.result = old.result
    BY <1>1 DEF exchanging, ApprovalFields
  <1>3. QED
    BY <1>2, Onward DEF Places

(* A plan is made, or the fallback taken.                                   *)
LEMMA PlannedOk ==
    ASSUME NEW old, JobOk(old), NEW answer, NEW jb, jb = planned(old, answer)
    PROVE  JobOk(jb) /\ jb.pc = "planned"
  <1>1. ApprovalFields \subseteq DOMAIN old
    BY DEF JobOk
  <1>2. PICK plan :
           jb = [old EXCEPT !.pc = "planned", !.planCost = old.spent, !.total = old.spent,
                            !.spent = 0, !.plan = plan]
    BY Zenon DEF planned
  <1>3. /\ ApprovalFields \subseteq DOMAIN jb
        /\ jb.key = old.key /\ jb.starts = old.starts /\ jb.settledBy = old.settledBy
        /\ jb.settledAt = old.settledAt /\ jb.expires = old.expires
        /\ jb.pc = "planned" /\ jb.result = old.result
    BY <1>1, <1>2 DEF ApprovalFields
  <1>4. QED
    BY <1>3, Onward DEF Places

MissionStatuses == {"none", "open", "executing", "complete", "failed"}

(* One job moves; records of its approval are there only if it is held.     *)
LEMMA StoreStep ==
    ASSUME Inv, NEW j \in Jobs, NEW jb, JobOk(jb), job' = [job EXCEPT ![j] = jb],
           missions' \in [Jobs -> MissionStatuses], UNCHANGED <<now, deployed, keys>>,
           pend' \subseteq [job : Jobs, key : Keys, expires : 0 .. MaxClock + ApprovalTTL],
           \A p \in pend' : \/ p \in pend /\ p.job # j
                            \/ /\ p.job = j /\ jb.pc = "held"
                               /\ p.key = jb.key /\ p.expires = jb.expires
    PROVE  Inv'
  <1>1. /\ DOMAIN job' = Jobs /\ job'[j] = jb
        /\ \A i \in Jobs : i # j => job'[i] = job[i]
    BY DEF Inv
  <1>2. TypeOK'
    BY DEF Inv, TypeOK, MissionStatuses
  <1>3. \A i \in Jobs : JobOk(job'[i])
    BY <1>1 DEF Inv
  <1>4. StoreOk'
    <2>1. ASSUME NEW p \in pend'
          PROVE  /\ job'[p.job].pc = "held" /\ p.key = job'[p.job].key
                 /\ p.expires = job'[p.job].expires
      <3>1. p.job \in Jobs
        BY <2>1
      <3>2. CASE p \in pend /\ p.job # j
        BY <1>1, <3>1, <3>2 DEF Inv, StoreOk
      <3>3. CASE p.job = j /\ jb.pc = "held" /\ p.key = jb.key /\ p.expires = jb.expires
        BY <1>1, <3>3
      <3>4. QED
        BY <2>1, <3>2, <3>3
    <2>2. QED
      BY <2>1 DEF StoreOk
  <1>5. QED
    BY <1>1, <1>2, <1>3, <1>4 DEF Inv

LEMMA JobStep ==
    ASSUME Inv, NEW j \in Jobs, NEW jb, JobOk(jb), job' = [job EXCEPT ![j] = jb],
           job[j].pc # "held", missions' \in [Jobs -> MissionStatuses],
           UNCHANGED <<now, deployed, keys, pend>>
    PROVE  Inv'
  <1>1. \A p \in pend' : p \in pend /\ p.job # j
    BY DEF Inv, StoreOk
  <1>2. pend' \subseteq [job : Jobs, key : Keys, expires : 0 .. MaxClock + ApprovalTTL]
    BY DEF Inv, TypeOK
  <1>3. QED
    BY <1>1, <1>2, StoreStep

----------------------------------------------------------------------------
(* Queries.                                                                 *)

(* terminate() ends a query, and never as a rejected mission.               *)
LEMMA TerminateStep ==
    ASSUME Inv, NEW j \in Jobs, job[j].pc # "held", NEW jb, JobOk(jb),
           NEW result, result # "rejected", NEW cost, NEW governed, NEW lose,
           terminate(j, jb, result, cost, governed, lose),
           UNCHANGED <<now, deployed, keys, pend, missions>>
    PROVE  Inv'
  <1>1. PICK new : new = [jb EXCEPT !.pc = "done", !.result = result, !.total = cost, !.spent = 0,
                                    !.lost = lose]
    OBVIOUS
  <1>2. job' = [job EXCEPT ![j] = new]
    BY <1>1 DEF terminate
  <1>3. JobOk(new)
    BY <1>1, EndsOk
  <1>4. missions' \in [Jobs -> MissionStatuses]
    BY DEF Inv, TypeOK, MissionStatuses
  <1>5. QED
    BY <1>2, <1>3, <1>4, JobStep

LEMMA QueryArrivesStep ==
    ASSUME Inv, NEW j \in Jobs, NEW k \in Keys, QueryArrives(j, k)
    PROVE  Inv'
  <1>1. PICK r \in Queries, lose \in BOOLEAN :
           /\ job[j].pc = "idle"
           /\ \/ terminate(j, [Idle EXCEPT !.req = r, !.key = k], "rejected-governance", 0, FALSE, lose)
              \/ job' = [job EXCEPT ![j] = [Idle EXCEPT !.pc = "retrieving", !.req = r, !.key = k]]
           /\ UNCHANGED <<now, deployed, keys, pend, missions>>
    BY DEF QueryArrives
  <1>2. PICK jb : jb = [Idle EXCEPT !.req = r, !.key = k]
    OBVIOUS
  <1>3. JobOk(jb)
    BY <1>2, ArrivalOk
  <1>4. CASE terminate(j, [Idle EXCEPT !.req = r, !.key = k], "rejected-governance", 0, FALSE, lose)
    BY <1>1, <1>2, <1>3, <1>4, TerminateStep
  <1>5. CASE job' = [job EXCEPT ![j] = [Idle EXCEPT !.pc = "retrieving", !.req = r, !.key = k]]
    <2>1. PICK new : new = [Idle EXCEPT !.pc = "retrieving", !.req = r, !.key = k]
      OBVIOUS
    <2>2. /\ ApprovalFields \subseteq DOMAIN new /\ new.pc = "retrieving" /\ new.starts = 0
      BY <2>1 DEF Idle, ApprovalFields
    <2>3. JobOk(new)
      BY <2>2 DEF JobOk, Places
    <2>4. missions' \in [Jobs -> MissionStatuses]
      BY <1>1 DEF Inv, TypeOK, MissionStatuses
    <2>5. QED
      BY <1>1, <1>5, <2>1, <2>3, <2>4, JobStep
  <1>6. QED
    BY <1>1, <1>4, <1>5

LEMMA RetrievedStep ==
    ASSUME Inv, NEW j \in Jobs, Retrieved(j)
    PROVE  Inv'
  <1>1. PICK routing, verdict, jb, lose :
           /\ job[j].pc = "retrieving"
           /\ jb = [job[j] EXCEPT !.verdict = verdict]
           /\ \/ \E result \in {"rejected-policy", "rejected-governance", "completed"},
                    governed \in BOOLEAN : terminate(j, jb, result, 0, governed, lose)
              \/ job' = [job EXCEPT ![j] = exchanging(jb, "query", routing)]
           /\ UNCHANGED <<now, deployed, keys, pend, missions>>
    <2>1. PICK sources \in {0, 2}, lose \in BOOLEAN :
        LET r == job[j].req
            routing == route(buildConstraints(r))
            verdict == evaluateGovernance(
                buildDecisionContext(j, "query", r.task,
                    deriveConfidenceFromQuality(getCatalogueEntry(Head(routing)).quality),
                    sources, FALSE, "other", 1))
            jb == [job[j] EXCEPT !.verdict = IF routing = <<>> THEN "none" ELSE verdict]
        IN  /\ job[j].pc = "retrieving"
            /\ CASE routing = <<>> -> terminate(j, jb, "rejected-policy", 0, FALSE, lose)
                 [] routing # <<>> /\ verdict = "block" ->
                        terminate(j, jb, "rejected-governance", 0, TRUE, lose)
                 [] routing # <<>> /\ verdict # "block" /\ r.dry ->
                        terminate(j, jb, "completed", 0, TRUE, lose)
                 [] OTHER ->
                        /\ ~lose
                        /\ job' = [job EXCEPT ![j] = exchanging(jb, "query", routing)]
                        /\ UNCHANGED <<rows, attempts, trail, faults>>
            /\ UNCHANGED <<now, deployed, keys, win, pend, missions>>
      BY Zenon DEF Retrieved
    <2> DEFINE r == job[j].req
               routing == route(buildConstraints(r))
               verdict == evaluateGovernance(
                   buildDecisionContext(j, "query", r.task,
                       deriveConfidenceFromQuality(getCatalogueEntry(Head(routing)).quality),
                       sources, FALSE, "other", 1))
               seen == IF routing = <<>> THEN "none" ELSE verdict
               jb == [job[j] EXCEPT !.verdict = seen]
    <2>2. /\ job[j].pc = "retrieving"
          /\ CASE routing = <<>> -> terminate(j, jb, "rejected-policy", 0, FALSE, lose)
               [] routing # <<>> /\ verdict = "block" ->
                      terminate(j, jb, "rejected-governance", 0, TRUE, lose)
               [] routing # <<>> /\ verdict # "block" /\ r.dry ->
                      terminate(j, jb, "completed", 0, TRUE, lose)
               [] OTHER ->
                      /\ ~lose
                      /\ job' = [job EXCEPT ![j] = exchanging(jb, "query", routing)]
                      /\ UNCHANGED <<rows, attempts, trail, faults>>
          /\ UNCHANGED <<now, deployed, keys, win, pend, missions>>
      BY <2>1, Zenon
    <2>3. jb = [job[j] EXCEPT !.verdict = seen]
      OBVIOUS
    <2> HIDE DEF routing, verdict, seen, jb
    <2>4. \/ terminate(j, jb, "rejected-policy", 0, FALSE, lose)
          \/ terminate(j, jb, "rejected-governance", 0, TRUE, lose)
          \/ terminate(j, jb, "completed", 0, TRUE, lose)
          \/ job' = [job EXCEPT ![j] = exchanging(jb, "query", routing)]
      BY <2>2, Zenon
    <2>5. \/ \E result \in {"rejected-policy", "rejected-governance", "completed"},
                governed \in BOOLEAN : terminate(j, jb, result, 0, governed, lose)
          \/ job' = [job EXCEPT ![j] = exchanging(jb, "query", routing)]
      BY <2>4, Zenon
    <2>6. UNCHANGED <<now, deployed, keys, pend, missions>>
      BY <2>2
    <2>7. QED
      BY <2>2, <2>3, <2>5, <2>6, Zenon
  <1>2. JobOk(jb)
    <2>1. ApprovalFields \subseteq DOMAIN job[j] /\ JobOk(job[j])
      BY DEF Inv, JobOk
    <2>2. /\ ApprovalFields \subseteq DOMAIN jb
          /\ jb.key = job[j].key /\ jb.starts = job[j].starts /\ jb.settledBy = job[j].settledBy
          /\ jb.settledAt = job[j].settledAt /\ jb.expires = job[j].expires
          /\ jb.pc = "retrieving" /\ jb.result = job[j].result
      BY <1>1, <2>1 DEF ApprovalFields
    <2>3. QED
      BY <2>1, <2>2, Onward DEF Places
  <1>3. ASSUME NEW result \in {"rejected-policy", "rejected-governance", "completed"},
               NEW governed \in BOOLEAN, terminate(j, jb, result, 0, governed, lose)
        PROVE  Inv'
    BY <1>1, <1>2, <1>3, TerminateStep
  <1>4. CASE job' = [job EXCEPT ![j] = exchanging(jb, "query", routing)]
    <2>1. JobOk(exchanging(jb, "query", routing))
      BY <1>2, ExchangingOk DEF Phases
    <2>2. missions' \in [Jobs -> MissionStatuses]
      BY <1>1 DEF Inv, TypeOK, MissionStatuses
    <2>3. QED
      BY <1>1, <1>4, <2>1, <2>2, JobStep
  <1>5. QED
    BY <1>1, <1>3, <1>4

----------------------------------------------------------------------------
(* Missions: held, refused, or started by the settlement of their approval. *)

LEMMA StoreTypes ==
    ASSUME Inv
    PROVE  /\ pend \subseteq [job : Jobs, key : Keys, expires : 0 .. MaxClock + ApprovalTTL]
           /\ missions \in [Jobs -> MissionStatuses]
           /\ now \in 0 .. MaxClock /\ MaxClock \in Nat /\ ApprovalTTL \in Nat
           /\ DOMAIN job = Jobs
  BY DispatchAssumption DEF Inv, TypeOK, MissionStatuses

LEMMA DispatchStep ==
    ASSUME Inv, NEW j \in Jobs, NEW k \in Keys, Dispatch(j, k)
    PROVE  Inv'
  <1>1. PICK r \in Missions :
           /\ job[j].pc = "idle"
           /\ dispatchMission(j, [Idle EXCEPT !.req = r, !.key = k], FALSE, pend)
           /\ UNCHANGED <<now, deployed, keys>>
    BY DEF Dispatch
  <1>2. PICK jb : jb = [Idle EXCEPT !.req = r, !.key = k]
    OBVIOUS
  <1>3. PICK verdict : verdict = evaluateGovernance(missionContext(j, jb.req, FALSE))
    OBVIOUS
  <1>4. PICK jv : jv = [jb EXCEPT !.verdict = verdict]
    OBVIOUS
  <1>5. verdict \in {"escalate", "block"}
    BY <1>3, MissionsNeedConsent
  <1>6. \/ verdict = "escalate" /\ hold(j, jv, pend)
        \/ verdict = "block" /\ blockMission(j, jv) /\ pend' = pend
    <2>1. (CASE humanCoSignRequired(verdict) /\ ~FALSE -> hold(j, jv, pend)
             [] verdict = "block" -> blockMission(j, jv) /\ pend' = pend
             [] OTHER -> startPlanning(j, jv) /\ pend' = pend)
      BY <1>1, <1>2, <1>3, <1>4, Zenon DEF dispatchMission
    <2>2. CASE verdict = "escalate"
      <3>1. humanCoSignRequired(verdict) /\ verdict # "block"
        BY <2>2 DEF humanCoSignRequired
      <3>2. QED
        BY <2>1, <2>2, <3>1, Zenon
    <2>3. CASE verdict = "block"
      <3>1. ~humanCoSignRequired(verdict)
        BY <2>3 DEF humanCoSignRequired
      <3>2. QED
        BY <2>1, <2>3, <3>1, Zenon
    <2>4. QED
      BY <1>5, <2>2, <2>3
  <1>7. /\ ApprovalFields \subseteq DOMAIN jv /\ jv.pc = "idle" /\ jv.key = k
        /\ jv.starts = 0 /\ jv.result = "none"
    BY <1>2, <1>4 DEF Idle, ApprovalFields
  <1>8. \A p \in pend : p.job # j
    BY <1>1 DEF Inv, StoreOk
  <1>9. CASE hold(j, jv, pend)
    <2>1. PICK new : new = [jv EXCEPT !.pc = "held", !.expires = now + ApprovalTTL]
      OBVIOUS
    <2>2. PICK p : p = createPendingExecution(j, jv.key)
      OBVIOUS
    <2>3. /\ pend' = pend \cup {p} /\ missions' = [missions EXCEPT ![j] = "open"]
          /\ job' = [job EXCEPT ![j] = new]
      BY <1>9, <2>1, <2>2, Zenon DEF hold
    <2>4. /\ ApprovalFields \subseteq DOMAIN new /\ new.pc = "held" /\ new.key = k
          /\ new.starts = 0 /\ new.result = "none" /\ new.expires = now + ApprovalTTL
      BY <1>7, <2>1 DEF ApprovalFields
    <2>5. JobOk(new)
      BY <2>4 DEF JobOk, Places
    <2>6. now + ApprovalTTL \in 0 .. MaxClock + ApprovalTTL
      BY StoreTypes
    <2>7. /\ p \in [job : Jobs, key : Keys, expires : 0 .. MaxClock + ApprovalTTL]
          /\ p.job = j /\ p.key = k /\ p.expires = now + ApprovalTTL
      BY <1>7, <2>2, <2>6 DEF createPendingExecution
    <2>8. missions' \in [Jobs -> MissionStatuses]
      BY <2>3, StoreTypes DEF MissionStatuses
    <2>9. pend' \subseteq [job : Jobs, key : Keys, expires : 0 .. MaxClock + ApprovalTTL]
      BY <2>3, <2>7, StoreTypes
    <2>10. \A q \in pend' : \/ q \in pend /\ q.job # j
                            \/ /\ q.job = j /\ new.pc = "held"
                               /\ q.key = new.key /\ q.expires = new.expires
      BY <1>8, <2>3, <2>4, <2>7
    <2>11. QED
      BY <1>1, <2>3, <2>5, <2>8, <2>9, <2>10, StoreStep
  <1>10. CASE blockMission(j, jv) /\ pend' = pend
    <2>1. PICK new : new = [jv EXCEPT !.pc = "done", !.result = "blocked"]
      OBVIOUS
    <2>2. /\ missions' = [missions EXCEPT ![j] = "failed"]
          /\ job' = [job EXCEPT ![j] = new]
      BY <1>10, <2>1, Zenon DEF blockMission
    <2>3. JobOk(jv)
      BY <1>7 DEF JobOk, Places
    <2>4. JobOk(new)
      BY <2>1, <2>3, EndsOk
    <2>5. missions' \in [Jobs -> MissionStatuses]
      BY <2>2, StoreTypes DEF MissionStatuses
    <2>6. QED
      BY <1>1, <1>10, <2>2, <2>4, <2>5, JobStep
  <1>11. QED
    BY <1>6, <1>9, <1>10

(* An approved settlement: the record is gone from the store, and the job   *)
(* starts for the first time, for its own key and before its expiry.        *)
LEMMA ApprovedStep ==
    ASSUME Inv, NEW j \in Jobs, NEW k \in Keys, NEW p \in pend, p.job = j, settleable(p, k),
           dispatchMission(j, [job[j] EXCEPT !.settledBy = k, !.settledAt = now], TRUE, consumed(p)),
           UNCHANGED <<now, deployed, keys>>
    PROVE  Inv'
  <1>1. PICK jb : jb = [job[j] EXCEPT !.settledBy = k, !.settledAt = now]
    OBVIOUS
  <1>2. PICK verdict : verdict = evaluateGovernance(missionContext(j, jb.req, TRUE))
    OBVIOUS
  <1>3. PICK jv : jv = [jb EXCEPT !.verdict = verdict]
    OBVIOUS
  <1>4. /\ pend' = consumed(p)
        /\ blockMission(j, jv) \/ startPlanning(j, jv)
    <2>1. (CASE humanCoSignRequired(verdict) /\ ~TRUE -> hold(j, jv, consumed(p))
             [] verdict = "block" -> blockMission(j, jv) /\ pend' = consumed(p)
             [] OTHER -> startPlanning(j, jv) /\ pend' = consumed(p))
      BY <1>1, <1>2, <1>3, Zenon DEF dispatchMission
    <2>2. QED
      BY <2>1, Zenon
  <1>5. /\ job[j].pc = "held" /\ JobOk(job[j])
        /\ p.key = job[j].key /\ p.expires = job[j].expires
    BY DEF Inv, StoreOk
  <1>6. /\ ApprovalFields \subseteq DOMAIN job[j]
        /\ job[j].starts = 0 /\ job[j].result = "none"
    BY <1>5 DEF JobOk
  <1>7. /\ ApprovalFields \subseteq DOMAIN jv /\ jv.pc = "held"
        /\ jv.starts = 0 /\ jv.result = "none" /\ jv.key = job[j].key
        /\ jv.settledBy = k /\ jv.settledAt = now /\ jv.expires = job[j].expires
    BY <1>1, <1>3, <1>5, <1>6 DEF ApprovalFields
  <1>8. JobOk(jv)
    BY <1>7 DEF JobOk, Places
  <1>9. jv.settledBy = jv.key /\ jv.settledAt <= jv.expires
    <2>1. p.expires \in Nat /\ now \in Nat /\ p.expires >= now /\ p.key = k
      BY StoreTypes DEF settleable
    <2>2. QED
      BY <1>5, <1>7, <2>1
  <1>10. /\ \A q \in pend' : q \in pend /\ q.job # j
         /\ pend' \subseteq [job : Jobs, key : Keys, expires : 0 .. MaxClock + ApprovalTTL]
    <2>1. ASSUME NEW q \in pend, q.job = j PROVE q = p
      <3>1. q.key = p.key /\ q.expires = p.expires
        BY <1>5, <2>1 DEF Inv, StoreOk
      <3>2. QED
        BY <2>1, <3>1, StoreTypes
    <2>2. QED
      BY <1>4, <2>1, StoreTypes DEF consumed
  <1>11. CASE blockMission(j, jv)
    <2>1. PICK new : new = [jv EXCEPT !.pc = "done", !.result = "blocked"]
      OBVIOUS
    <2>2. /\ missions' = [missions EXCEPT ![j] = "failed"]
          /\ job' = [job EXCEPT ![j] = new]
      BY <1>11, <2>1, Zenon DEF blockMission
    <2>3. JobOk(new)
      BY <1>8, <2>1, EndsOk
    <2>4. missions' \in [Jobs -> MissionStatuses]
      BY <2>2, StoreTypes DEF MissionStatuses
    <2>5. QED
      BY <1>10, <2>2, <2>3, <2>4, StoreStep
  <1>12. CASE startPlanning(j, jv)
    <2>1. PICK begun : begun = [jv EXCEPT !.starts = @ + 1]
      OBVIOUS
    <2>2. PICK routing : routing = route(planConstraints(jv.req))
      OBVIOUS
    <2>3. /\ missions' = [missions EXCEPT ![j] = "executing"]
          /\ job' = [job EXCEPT ![j] = IF routing = <<>> THEN planned(begun, <<>>)
                                       ELSE exchanging(begun, "plan", routing)]
      BY <1>12, <2>1, <2>2, Zenon DEF startPlanning
    <2>4. /\ ApprovalFields \subseteq DOMAIN begun /\ begun.starts = 1 /\ begun.result = "none"
          /\ begun.settledBy = begun.key /\ begun.settledAt <= begun.expires
          /\ begun.pc = "held"
      BY <1>7, <1>9, <2>1 DEF ApprovalFields
    <2>5. PICK new : new = IF routing = <<>> THEN planned(begun, <<>>)
                           ELSE exchanging(begun, "plan", routing)
      OBVIOUS
    <2>6. JobOk(new)
      <3>1. CASE routing = <<>>
        <4>1. PICK plan :
                 new = [begun EXCEPT !.pc = "planned", !.planCost = begun.spent,
                                     !.total = begun.spent, !.spent = 0, !.plan = plan]
          BY <2>5, <3>1, Zenon DEF planned
        <4>2. /\ ApprovalFields \subseteq DOMAIN new /\ new.starts = 1 /\ new.result = "none"
              /\ new.settledBy = new.key /\ new.settledAt <= new.expires
              /\ new.pc = "planned"
          BY <2>4, <4>1 DEF ApprovalFields
        <4>3. QED
          BY <4>2 DEF JobOk, Places
      <3>2. CASE routing # <<>>
        <4>1. new = [begun EXCEPT !.pc = "calling", !.phase = "plan", !.routing = routing,
                                  !.tried = <<>>, !.spent = 0]
          BY <2>5, <3>2, Zenon DEF exchanging
        <4>2. /\ ApprovalFields \subseteq DOMAIN new /\ new.starts = 1 /\ new.result = "none"
              /\ new.settledBy = new.key /\ new.settledAt <= new.expires
              /\ new.pc = "calling" /\ new.phase = "plan"
          BY <2>4, <4>1 DEF ApprovalFields
        <4>3. QED
          BY <4>2 DEF JobOk, Places, Phases
      <3>3. QED
        BY <3>1, <3>2
    <2>7. missions' \in [Jobs -> MissionStatuses]
      BY <2>3, StoreTypes DEF MissionStatuses
    <2>8. job' = [job EXCEPT ![j] = new]
      BY <2>3, <2>5
    <2>9. QED
      BY <1>10, <2>6, <2>7, <2>8, StoreStep
  <1>13. QED
    BY <1>4, <1>11, <1>12

LEMMA SettleStep ==
    ASSUME Inv, NEW j \in Jobs, NEW k \in Keys, NEW decision \in {"approved", "rejected"},
           Settle(j, k, decision)
    PROVE  Inv'
  <1>1. PICK p \in pend :
           /\ p.job = j /\ UNCHANGED <<now, deployed, keys>>
           /\ \/ pend' = pend \ {p} /\ UNCHANGED <<job, missions>>
              \/ /\ pend' = pend \ {p} /\ UNCHANGED missions
                 /\ job' = [job EXCEPT ![j].pc = "done", ![j].result = "rejected"]
              \/ /\ settleable(p, k)
                 /\ dispatchMission(j, [job[j] EXCEPT !.settledBy = k, !.settledAt = now], TRUE,
                                    consumed(p))
    BY DEF Settle, consumed
  <1>2. CASE pend' = pend \ {p} /\ UNCHANGED <<job, missions>>
    BY <1>1, <1>2 DEF Inv, TypeOK, StoreOk
  <1>3. CASE /\ pend' = pend \ {p} /\ UNCHANGED missions
             /\ job' = [job EXCEPT ![j].pc = "done", ![j].result = "rejected"]
    <2>1. PICK new : new = [job[j] EXCEPT !.pc = "done", !.result = "rejected"]
      OBVIOUS
    <2>2. /\ job[j].pc = "held" /\ JobOk(job[j])
          /\ p.key = job[j].key /\ p.expires = job[j].expires
      BY <1>1 DEF Inv, StoreOk
    <2>3. ApprovalFields \subseteq DOMAIN job[j] /\ job[j].starts = 0
      BY <2>2 DEF JobOk
    <2>4. ApprovalFields \subseteq DOMAIN new /\ new.pc = "done" /\ new.starts = 0
      BY <2>1, <2>3 DEF ApprovalFields
    <2>5. JobOk(new)
      BY <2>4 DEF JobOk, Places
    <2>6. job' = [job EXCEPT ![j] = new]
      BY <1>3, <2>1, StoreTypes
    <2>7. /\ \A q \in pend' : q \in pend /\ q.job # j
          /\ pend' \subseteq [job : Jobs, key : Keys, expires : 0 .. MaxClock + ApprovalTTL]
      <3>1. ASSUME NEW q \in pend, q.job = j PROVE q = p
        <4>1. q.key = p.key /\ q.expires = p.expires
          BY <2>2, <3>1 DEF Inv, StoreOk
        <4>2. QED
          BY <1>1, <3>1, <4>1, StoreTypes
      <3>2. QED
        BY <1>3, <3>1, StoreTypes
    <2>8. missions' \in [Jobs -> MissionStatuses]
      BY <1>3, StoreTypes
    <2>9. QED
      BY <1>1, <2>5, <2>6, <2>7, <2>8, StoreStep
  <1>4. CASE /\ settleable(p, k)
             /\ dispatchMission(j, [job[j] EXCEPT !.settledBy = k, !.settledAt = now], TRUE,
                                consumed(p))
    BY <1>1, <1>4, ApprovedStep
  <1>5. QED
    BY <1>1, <1>2, <1>3, <1>4

----------------------------------------------------------------------------
(* The loop over the plan, and the answers of the engines.                  *)

LEMMA FinishStep ==
    ASSUME Inv, NEW j \in Jobs, job[j].pc # "held", NEW jb, JobOk(jb), NEW lose,
           finishMission(j, jb, lose), UNCHANGED <<now, deployed, keys, pend>>
    PROVE  Inv'
  <1>1. PICK status \in {"partial", "complete"} :
           status = IF jb.exhausted \/ jb.bad # {} THEN "partial" ELSE "complete"
    BY Zenon
  <1>2. PICK new : /\ new = [jb EXCEPT !.pc = "done", !.result = status, !.spent = 0,
                                       !.total = @ + jb.spent, !.lost = @ \/ lose]
                   /\ job' = [job EXCEPT ![j] = new]
    BY <1>1, Zenon DEF finishMission
  <1>3. JobOk(new)
    <2>1. ApprovalFields \subseteq DOMAIN jb
      BY DEF JobOk
    <2>2. /\ ApprovalFields \subseteq DOMAIN new
          /\ new.key = jb.key /\ new.starts = jb.starts /\ new.settledBy = jb.settledBy
          /\ new.settledAt = jb.settledAt /\ new.expires = jb.expires
          /\ new.pc = "done" /\ new.result = status
      BY <1>2, <2>1 DEF ApprovalFields
    <2>3. QED
      BY <1>1, <2>2, Onward DEF Places
  <1>4. missions' \in [Jobs -> MissionStatuses]
    <2>1. missions' = [missions EXCEPT ![j] = IF status = "complete" THEN "complete" ELSE "open"]
      BY <1>1, Zenon DEF finishMission
    <2>2. QED
      BY <2>1, StoreTypes DEF MissionStatuses
  <1>5. QED
    BY <1>2, <1>3, <1>4, JobStep

LEMMA ReportStep ==
    ASSUME Inv, NEW j \in Jobs, job[j].pc # "held", NEW jb, JobOk(jb), NEW ok, NEW lose,
           reportTask(j, jb, ok, lose), UNCHANGED <<now, deployed, keys, pend>>
    PROVE  Inv'
  <1>1. PICK new, next, total, good, bad, lost :
           /\ new = [jb EXCEPT !.pc = "planned", !.next = next, !.total = total, !.spent = 0,
                               !.good = good, !.bad = bad, !.lost = lost]
           /\ job' = [job EXCEPT ![j] = new]
    BY DEF reportTask
  <1>2. ApprovalFields \subseteq DOMAIN jb
    BY DEF JobOk
  <1>3. /\ ApprovalFields \subseteq DOMAIN new
        /\ new.key = jb.key /\ new.starts = jb.starts /\ new.settledBy = jb.settledBy
        /\ new.settledAt = jb.settledAt /\ new.expires = jb.expires
        /\ new.pc = "planned" /\ new.result = jb.result
    BY <1>1, <1>2 DEF ApprovalFields
  <1>4. JobOk(new)
    BY <1>3, Onward DEF Places
  <1>5. missions' \in [Jobs -> MissionStatuses]
    BY StoreTypes DEF reportTask
  <1>6. QED
    BY <1>1, <1>4, <1>5, JobStep

LEMMA EndOfPlanStep ==
    ASSUME Inv, NEW j \in Jobs, EndOfPlan(j)
    PROVE  Inv'
  <1>1. PICK jb : jb = [job[j] EXCEPT !.exhausted = job[j].next <= Len(job[j].plan)]
    OBVIOUS
  <1>2. PICK routing : routing = route(synthesisConstraints(jb))
    OBVIOUS
  <1>3. /\ job[j].pc = "planned"
        /\ \/ failMission(j, jb)
           \/ /\ job' = [job EXCEPT ![j] = exchanging(jb, "synthesis", routing)]
              /\ UNCHANGED missions
           \/ \E lose \in BOOLEAN : finishMission(j, [jb EXCEPT !.spent = 0], lose)
        /\ UNCHANGED <<now, deployed, keys, pend>>
    BY <1>1, <1>2, Zenon DEF EndOfPlan
  <1>4. JobOk(job[j]) /\ ApprovalFields \subseteq DOMAIN job[j]
    BY DEF Inv, JobOk
  <1>5. PICK jz : jz = [jb EXCEPT !.spent = 0]
    OBVIOUS
  <1>6. JobOk(jb) /\ JobOk(jz)
    <2>1. /\ ApprovalFields \subseteq DOMAIN jb
          /\ jb.key = job[j].key /\ jb.starts = job[j].starts /\ jb.settledBy = job[j].settledBy
          /\ jb.settledAt = job[j].settledAt /\ jb.expires = job[j].expires
          /\ jb.pc = "planned" /\ jb.result = job[j].result
      BY <1>1, <1>3, <1>4 DEF ApprovalFields
    <2>2. /\ ApprovalFields \subseteq DOMAIN jz
          /\ jz.key = jb.key /\ jz.starts = jb.starts /\ jz.settledBy = jb.settledBy
          /\ jz.settledAt = jb.settledAt /\ jz.expires = jb.expires
          /\ jz.pc = "planned" /\ jz.result = jb.result
      BY <1>5, <2>1 DEF ApprovalFields
    <2>3. QED
      BY <1>4, <2>1, <2>2, Onward DEF Places
  <1>7. CASE failMission(j, jb)
    <2>1. PICK new : new = [jb EXCEPT !.pc = "done", !.result = "failed"]
      OBVIOUS
    <2>2. job' = [job EXCEPT ![j] = new] /\ missions' = [missions EXCEPT ![j] = "failed"]
      BY <1>7, <2>1, Zenon DEF failMission
    <2>3. JobOk(new)
      BY <1>6, <2>1, EndsOk
    <2>4. missions' \in [Jobs -> MissionStatuses]
      BY <2>2, StoreTypes DEF MissionStatuses
    <2>5. QED
      BY <1>3, <2>2, <2>3, <2>4, JobStep
  <1>8. CASE /\ job' = [job EXCEPT ![j] = exchanging(jb, "synthesis", routing)]
             /\ UNCHANGED missions
    <2>1. JobOk(exchanging(jb, "synthesis", routing))
      BY <1>6, ExchangingOk DEF Phases
    <2>2. QED
      BY <1>3, <1>8, <2>1, StoreTypes, JobStep
  <1>9. ASSUME NEW lose \in BOOLEAN, finishMission(j, [jb EXCEPT !.spent = 0], lose) PROVE Inv'
    BY <1>3, <1>5, <1>6, <1>9, FinishStep
  <1>10. QED
    BY <1>3, <1>7, <1>8, <1>9

LEMMA StartTaskStep ==
    ASSUME Inv, NEW j \in Jobs, StartTask(j)
    PROVE  Inv'
  <1>1. /\ job[j].pc = "planned"
        /\ \/ \E routing, tools :
                 /\ job' = [job EXCEPT ![j] =
                               exchanging([job[j] EXCEPT !.tools = tools], "task", routing)]
                 /\ UNCHANGED missions
           \/ \E lose : reportTask(j, [job[j] EXCEPT !.tried = <<>>, !.spent = 0], FALSE, lose)
           \/ \E tools, lose :
                 reportTask(j, [[job[j] EXCEPT !.tools = tools] EXCEPT !.tried = <<>>, !.spent = 0],
                            FALSE, lose)
        /\ UNCHANGED <<now, deployed, keys, pend>>
    BY Zenon DEF StartTask
  <1>2. JobOk(job[j]) /\ ApprovalFields \subseteq DOMAIN job[j]
    BY DEF Inv, JobOk
  <1>3. ASSUME NEW old, JobOk(old), old.pc = "planned", NEW jb,
               \/ jb = [old EXCEPT !.tried = <<>>, !.spent = 0]
               \/ \E tools : jb = [old EXCEPT !.tools = tools]
        PROVE  JobOk(jb) /\ jb.pc = "planned"
    <2>1. ApprovalFields \subseteq DOMAIN old
      BY <1>3 DEF JobOk
    <2>2. /\ ApprovalFields \subseteq DOMAIN jb
          /\ jb.key = old.key /\ jb.starts = old.starts /\ jb.settledBy = old.settledBy
          /\ jb.settledAt = old.settledAt /\ jb.expires = old.expires
          /\ jb.pc = "planned" /\ jb.result = old.result
      BY <1>3, <2>1 DEF ApprovalFields
    <2>3. QED
      BY <1>3, <2>2, Onward DEF Places
  <1>4. ASSUME NEW routing, NEW tools, UNCHANGED missions,
               job' = [job EXCEPT ![j] =
                          exchanging([job[j] EXCEPT !.tools = tools], "task", routing)]
        PROVE  Inv'
    <2>1. PICK jb : jb = [job[j] EXCEPT !.tools = tools]
      OBVIOUS
    <2>2. JobOk(jb)
      BY <1>1, <1>2, <1>3, <2>1
    <2>3. JobOk(exchanging(jb, "task", routing))
      BY <2>2, ExchangingOk DEF Phases
    <2>4. QED
      BY <1>1, <1>4, <2>1, <2>3, StoreTypes, JobStep
  <1>5. ASSUME NEW lose, reportTask(j, [job[j] EXCEPT !.tried = <<>>, !.spent = 0], FALSE, lose)
        PROVE  Inv'
    <2>1. PICK jb : jb = [job[j] EXCEPT !.tried = <<>>, !.spent = 0]
      OBVIOUS
    <2>2. JobOk(jb)
      BY <1>1, <1>2, <1>3, <2>1
    <2>3. QED
      BY <1>1, <1>5, <2>1, <2>2, ReportStep
  <1>6. ASSUME NEW tools, NEW lose,
               reportTask(j, [[job[j] EXCEPT !.tools = tools] EXCEPT !.tried = <<>>, !.spent = 0],
                          FALSE, lose)
        PROVE  Inv'
    <2>1. PICK jt : jt = [job[j] EXCEPT !.tools = tools]
      OBVIOUS
    <2>2. JobOk(jt) /\ jt.pc = "planned"
      BY <1>1, <1>2, <1>3, <2>1
    <2>3. PICK jb : jb = [jt EXCEPT !.tried = <<>>, !.spent = 0]
      OBVIOUS
    <2>4. JobOk(jb)
      BY <1>3, <2>2, <2>3
    <2>5. QED
      BY <1>1, <1>6, <2>1, <2>3, <2>4, ReportStep
  <1>7. QED
    BY <1>1, <1>4, <1>5, <1>6

LEMMA ExchangeEndsStep ==
    ASSUME Inv, NEW j \in Jobs, job[j].pc # "held", NEW jb, JobOk(jb), jb.pc = "calling",
           NEW response, NEW answer, NEW lose, exchangeEnds(j, jb, response, answer, lose),
           UNCHANGED <<now, deployed, keys, pend>>
    PROVE  Inv'
  <1>1. jb.phase \in Phases
    BY DEF JobOk
  <1>2. \/ \E result : /\ terminate(j, jb, result, jb.spent, TRUE, lose)
                       /\ result # "rejected" /\ UNCHANGED missions
        \/ /\ job' = [job EXCEPT ![j] = planned(jb, IF response.ok THEN answer ELSE <<>>)]
           /\ UNCHANGED missions
        \/ reportTask(j, jb, response.ok, lose)
        \/ finishMission(j, jb, lose)
    <2>1. CASE jb.phase = "query"
      <3>1. PICK result \in {"content-refused", "all-providers-failed", "completed-after-fallback",
                             "completed"} :
               result = IF response.kind = "content-refused" THEN "content-refused"
                        ELSE IF ~response.ok THEN "all-providers-failed"
                        ELSE IF Len(jb.tried) > 1 THEN "completed-after-fallback" ELSE "completed"
        BY Zenon
      <3>2. terminate(j, jb, result, jb.spent, TRUE, lose) /\ UNCHANGED missions
        BY <2>1, <3>1, Zenon DEF exchangeEnds
      <3>3. result # "rejected"
        OBVIOUS
      <3>4. QED
        BY <3>2, <3>3
    <2>2. CASE jb.phase = "plan"
      <3>1. /\ job' = [job EXCEPT ![j] = planned(jb, IF response.ok THEN answer ELSE <<>>)]
            /\ UNCHANGED missions
        BY <2>2, Zenon DEF exchangeEnds
      <3>2. QED
        BY <3>1
    <2>3. CASE jb.phase = "task"
      BY <2>3, Zenon DEF exchangeEnds
    <2>4. CASE jb.phase = "synthesis"
      BY <2>4, Zenon DEF exchangeEnds
    <2>5. QED
      BY <1>1, <2>1, <2>2, <2>3, <2>4 DEF Phases
  <1>3. ASSUME NEW result, terminate(j, jb, result, jb.spent, TRUE, lose), result # "rejected",
               UNCHANGED missions
        PROVE  Inv'
    BY <1>3, TerminateStep
  <1>4. CASE /\ job' = [job EXCEPT ![j] = planned(jb, IF response.ok THEN answer ELSE <<>>)]
             /\ UNCHANGED missions
    <2>1. PICK tasks : tasks = IF response.ok THEN answer ELSE <<>>
      OBVIOUS
    <2>2. JobOk(planned(jb, tasks))
      BY PlannedOk
    <2>3. job' = [job EXCEPT ![j] = planned(jb, tasks)] /\ missions' \in [Jobs -> MissionStatuses]
      BY <1>4, <2>1, StoreTypes
    <2>4. QED
      BY <2>2, <2>3, JobStep
  <1>5. CASE reportTask(j, jb, response.ok, lose)
    BY <1>5, ReportStep
  <1>6. CASE finishMission(j, jb, lose)
    BY <1>6, FinishStep
  <1>7. QED
    BY <1>2, <1>3, <1>4, <1>5, <1>6

LEMMA RespondStep ==
    ASSUME Inv, NEW j \in Jobs, Respond(j)
    PROVE  Inv'
  <1>1. PICK entry, outcome, response, answer, lose, jb :
           /\ job[j].pc = "calling"
           /\ jb = called(job[j], entry, outcome, response)
           /\ exchangeEnds(j, jb, response, answer, lose) \/ (job' = [job EXCEPT ![j] = jb]
                                                              /\ UNCHANGED missions)
           /\ UNCHANGED <<now, deployed, keys, pend>>
    <2>1. PICK outcome \in Outcomes, usage \in Usages, answer \in PlannerAnswers, lose \in BOOLEAN :
        LET entry == getCatalogueEntry(job[j].routing[Len(job[j].tried) + 1])
            response == invoke(entry, env, outcome, usage, job[j].req.computable)
            jb == called(job[j], entry, outcome, response)
            over == \/ response.ok \/ response.kind = "content-refused"
                    \/ Len(jb.tried) \in {MaxAttempts, Len(jb.routing)}
        IN  /\ job[j].pc = "calling"
            /\ outcome.k # "answer" => jb.failed <= MaxFailures
            /\ jb.phase # "plan" \/ ~over => answer = <<>>
            /\ win' = recordSample(win, entry.model, entry.ms, response.ok)
            /\ IF over THEN exchangeEnds(j, jb, response, answer, lose)
               ELSE /\ ~lose
                    /\ job' = [job EXCEPT ![j] = jb]
                    /\ UNCHANGED <<missions, rows, attempts, trail, faults>>
            /\ UNCHANGED <<now, deployed, keys, pend>>
      BY Zenon DEF Respond
    <2> DEFINE entry == getCatalogueEntry(job[j].routing[Len(job[j].tried) + 1])
               response == invoke(entry, env, outcome, usage, job[j].req.computable)
               jb == called(job[j], entry, outcome, response)
               over == \/ response.ok \/ response.kind = "content-refused"
                       \/ Len(jb.tried) \in {MaxAttempts, Len(jb.routing)}
    <2>2. /\ job[j].pc = "calling"
          /\ IF over THEN exchangeEnds(j, jb, response, answer, lose)
             ELSE /\ ~lose
                  /\ job' = [job EXCEPT ![j] = jb]
                  /\ UNCHANGED <<missions, rows, attempts, trail, faults>>
          /\ UNCHANGED <<now, deployed, keys, pend>>
      BY <2>1, Zenon
    <2>3. jb = called(job[j], entry, outcome, response)
      OBVIOUS
    <2> HIDE DEF entry, response, jb, over
    <2>4. exchangeEnds(j, jb, response, answer, lose) \/ (job' = [job EXCEPT ![j] = jb]
                                                         /\ UNCHANGED missions)
      BY <2>2
    <2>5. QED
      BY <2>2, <2>3, <2>4, Zenon
  <1>2. PICK old, cost :
           /\ old = job[j]
           /\ jb = [old EXCEPT
                      !.tried = Append(@, [model |-> entry.model, ms |-> entry.ms, ok |-> response.ok]),
                      !.spent = @ + cost, !.charged = @ + cost,
                      !.failed = IF outcome.k = "answer" THEN @ ELSE @ + 1,
                      !.engines = IF response.kind \in {"credential-absent", "model-unsupported"}
                                  THEN @ ELSE @ \cup {entry.model}]
    BY <1>1, Zenon DEF called
  <1>3. JobOk(job[j]) /\ ApprovalFields \subseteq DOMAIN job[j] /\ job[j].phase \in Phases
    BY <1>1 DEF Inv, JobOk
  <1>4. /\ ApprovalFields \subseteq DOMAIN jb
        /\ jb.key = job[j].key /\ jb.starts = job[j].starts /\ jb.settledBy = job[j].settledBy
        /\ jb.settledAt = job[j].settledAt /\ jb.expires = job[j].expires
        /\ jb.pc = "calling" /\ jb.phase = job[j].phase /\ jb.result = job[j].result
    BY <1>1, <1>2, <1>3 DEF ApprovalFields
  <1>5. JobOk(jb)
    BY <1>3, <1>4, Onward DEF Places
  <1>6. CASE exchangeEnds(j, jb, response, answer, lose)
    BY <1>1, <1>4, <1>5, <1>6, ExchangeEndsStep
  <1>7. CASE job' = [job EXCEPT ![j] = jb] /\ UNCHANGED missions
    BY <1>1, <1>5, <1>7, StoreTypes, JobStep
  <1>8. QED
    BY <1>1, <1>6, <1>7

----------------------------------------------------------------------------
LEMMA InitInv == Init => Inv
  <1> SUFFICES ASSUME Init PROVE Inv
    OBVIOUS
  <1>1. JobOk(Idle) /\ Idle.pc = "idle"
    BY DEF Idle, JobOk, ApprovalFields, Places
  <1>2. keys \in [Keys -> {"active", "revoked"}]
    BY DEF Init, bootstrapApiKeys, upsertApiKey
  <1>3. TypeOK
    BY <1>2, DispatchAssumption DEF Init, TypeOK
  <1>4. QED
    BY <1>1, <1>3 DEF Init, Inv, StoreOk

LEMMA RestartStep ==
    ASSUME Inv, Restart
    PROVE  Inv'
  <1>1. /\ keys' = bootstrapApiKeys(keys) /\ pend' = {} /\ UNCHANGED <<now, deployed, missions>>
        /\ job' = [j \in Jobs |-> IF job[j].pc \in {"retrieving", "calling", "planned"}
                                  THEN [job[j] EXCEPT !.pc = "lost"] ELSE job[j]]
    BY DEF Restart
  <1>2. keys' \in [Keys -> {"active", "revoked"}]
    BY <1>1 DEF Inv, TypeOK, bootstrapApiKeys, upsertApiKey
  <1>3. TypeOK'
    BY <1>1, <1>2 DEF Inv, TypeOK
  <1>4. ASSUME NEW j \in Jobs PROVE JobOk(job'[j])
    <2>1. JobOk(job[j]) /\ ApprovalFields \subseteq DOMAIN job[j]
      BY DEF Inv, JobOk
    <2>2. PICK new : new = [job[j] EXCEPT !.pc = "lost"]
      OBVIOUS
    <2>3. /\ ApprovalFields \subseteq DOMAIN new
          /\ new.key = job[j].key /\ new.starts = job[j].starts
          /\ new.settledBy = job[j].settledBy /\ new.settledAt = job[j].settledAt
          /\ new.expires = job[j].expires /\ new.pc = "lost" /\ new.result = job[j].result
      BY <2>1, <2>2 DEF ApprovalFields
    <2>4. JobOk(new)
      BY <2>1, <2>3, Onward DEF Places
    <2>5. job'[j] = new \/ job'[j] = job[j]
      BY <1>1, <2>2
    <2>6. QED
      BY <2>1, <2>4, <2>5
  <1>5. StoreOk' /\ DOMAIN job' = Jobs
    BY <1>1 DEF StoreOk
  <1>6. QED
    BY <1>3, <1>4, <1>5 DEF Inv

LEMMA NextInv ==
    ASSUME Inv, [Next]_vars
    PROVE  Inv'
  <1>1. ASSUME NEW j \in Jobs, NEW k \in Keys, QueryArrives(j, k) \/ Dispatch(j, k) PROVE Inv'
    BY <1>1, QueryArrivesStep, DispatchStep
  <1>2. ASSUME NEW j \in Jobs, NEW k \in Keys, NEW d \in {"approved", "rejected"}, Settle(j, k, d)
        PROVE  Inv'
    BY <1>2, SettleStep
  <1>3. ASSUME NEW j \in Jobs, Retrieved(j) \/ StartTask(j) \/ EndOfPlan(j) \/ Respond(j)
        PROVE  Inv'
    BY <1>3, RetrievedStep, StartTaskStep, EndOfPlanStep, RespondStep
  <1>4. ASSUME NEW k \in Keys, Revoke(k) \/ Reactivate(k) PROVE Inv'
    <2>1. /\ keys' \in [Keys -> {"active", "revoked"}]
          /\ UNCHANGED <<now, deployed, pend, job, missions>>
      BY <1>4 DEF Revoke, Reactivate, Inv, TypeOK
    <2>2. QED
      BY <2>1 DEF Inv, TypeOK, StoreOk
  <1>5. CASE Tick
    <2>1. now' \in 0 .. MaxClock /\ UNCHANGED <<deployed, keys, pend, job, missions>>
      BY <1>5, StoreTypes DEF Tick
    <2>2. QED
      BY <2>1 DEF Inv, TypeOK, StoreOk
  <1>6. CASE UNCHANGED vars
    BY <1>6 DEF vars, Inv, TypeOK, StoreOk
  <1>7. QED
    BY <1>1, <1>2, <1>3, <1>4, <1>5, <1>6, RestartStep DEF Next

LEMMA InvariantHolds == Spec => []Inv
  <1>1. Inv /\ [Next]_vars => Inv'
    BY NextInv
  <1>2. QED
    BY <1>1, InitInv, PTL DEF Spec

(* The clock, the keys, the approval store and the mission records keep     *)
(* their types: a record of the store names a job and a key, and expires    *)
(* within the time an approval is given (approval-settlement.ts).           *)
THEOREM TypeCorrect == Spec => []TypeOK
  <1>1. Inv => TypeOK
    BY DEF Inv
  <1>2. QED
    BY <1>1, InvariantHolds, PTL

(* A record leaves the store before dispatchMission() runs what it holds:   *)
(* whatever is retried, sent with other keys, delayed past its expiry or    *)
(* cut short by a restart, a mission runs at most once, by the approval of  *)
(* its own key, in time, and never after a rejection.                       *)
THEOREM ApprovedOnce == Spec => []ApprovalExecutesOnce
  <1>1. Inv => ApprovalExecutesOnce
    BY DEF Inv, JobOk, ApprovalExecutesOnce
  <1>2. QED
    BY <1>1, InvariantHolds, PTL

(* The sovereignty of a model, which its identifier determines.             *)
LevelOf(m) ==
    IF m \in OLLAMA_MODELS \cup {"deterministic-core"} THEN 3
    ELSE IF m \in DEEPSEEK_MODELS \cup {"kimi-k2.6"} THEN 0 ELSE 1

EntryOk(e) ==
    /\ e.in \in Nat /\ e.out \in Nat /\ e.ms \in Nat
    /\ e.quality \in Nat /\ e.evidence \in Nat /\ e.risk \in Nat
    /\ e.sovereignty \in Nat /\ e.sovereignty = LevelOf(e.model)

ListOk(s) == \E S : s \in Seq(S) /\ \A e \in S : EntryOk(e)

LEMMA ListsJoin ==
    ASSUME NEW s, NEW t, ListOk(s), ListOk(t)
    PROVE  ListOk(s \o t)
  <1>1. PICK S : s \in Seq(S) /\ \A e \in S : EntryOk(e)
    BY DEF ListOk
  <1>2. PICK T : t \in Seq(T) /\ \A e \in T : EntryOk(e)
    BY DEF ListOk
  <1>3. s \o t \in Seq(S \cup T)
    BY <1>1, <1>2
  <1>4. \A e \in S \cup T : EntryOk(e)
    BY <1>1, <1>2
  <1>5. QED
    BY <1>3, <1>4, Zenon DEF ListOk

LEMMA ShortLists ==
    ASSUME NEW a, EntryOk(a), NEW b, EntryOk(b), NEW c, EntryOk(c), NEW d, EntryOk(d)
    PROVE  ListOk(<<a>>) /\ ListOk(<<a, b>>) /\ ListOk(<<a, b, c>>) /\ ListOk(<<a, b, c, d>>)
  <1> DEFINE S == {a, b, c, d}
  <1>1. /\ <<a>> \in Seq({a, b, c, d}) /\ <<a, b>> \in Seq({a, b, c, d})
        /\ <<a, b, c>> \in Seq({a, b, c, d}) /\ <<a, b, c, d>> \in Seq({a, b, c, d})
    OBVIOUS
  <1>2. /\ <<a>> \in Seq(S) /\ <<a, b>> \in Seq(S)
        /\ <<a, b, c>> \in Seq(S) /\ <<a, b, c, d>> \in Seq(S)
    BY <1>1
  <1>3. \A e \in S : EntryOk(e)
    OBVIOUS
  <1> HIDE DEF S
  <1>4. QED
    BY <1>2, <1>3, Zenon DEF ListOk

LEMMA NineList ==
    ASSUME NEW a, EntryOk(a), NEW b, EntryOk(b), NEW c, EntryOk(c), NEW d, EntryOk(d),
           NEW e, EntryOk(e), NEW f, EntryOk(f), NEW g, EntryOk(g), NEW h, EntryOk(h),
           NEW i, EntryOk(i)
    PROVE  ListOk(<<a, b, c, d, e, f, g, h, i>>)
  <1> DEFINE S == {a, b, c, d, e, f, g, h, i}
  <1>1. <<a, b, c, d, e, f, g, h, i>> \in Seq(S)
    OBVIOUS
  <1>2. \A x \in S : EntryOk(x)
    OBVIOUS
  <1> HIDE DEF S
  <1>3. QED
    BY <1>1, <1>2, Zenon DEF ListOk

LEMMA OllamaEntries == ListOk(ollamaEntries)
  <1>1. \A m \in OLLAMA_MODELS : LevelOf(m) = 3
    BY DEF LevelOf, OLLAMA_MODELS, CONTABO_MODELS, DEEPSEEK_MODELS
  <1>2. EntryOk(ollamaEntries[1]) /\ EntryOk(ollamaEntries[2])
    BY <1>1 DEF ollamaEntries, EntryOk, Entry, OLLAMA_MODELS, CONTABO_MODELS
  <1>3. EntryOk(ollamaEntries[3]) /\ EntryOk(ollamaEntries[4])
    BY <1>1 DEF ollamaEntries, EntryOk, Entry, OLLAMA_MODELS, CONTABO_MODELS
  <1>4. EntryOk(ollamaEntries[5]) /\ EntryOk(ollamaEntries[6])
    BY <1>1 DEF ollamaEntries, EntryOk, Entry, OLLAMA_MODELS, CONTABO_MODELS
  <1>5. EntryOk(ollamaEntries[7]) /\ EntryOk(ollamaEntries[8])
    BY <1>1 DEF ollamaEntries, EntryOk, Entry, OLLAMA_MODELS, CONTABO_MODELS
  <1>6. EntryOk(ollamaEntries[9])
    BY <1>1 DEF ollamaEntries, EntryOk, Entry, OLLAMA_MODELS, CONTABO_MODELS
  <1>7. LET s == ollamaEntries IN s = <<s[1], s[2], s[3], s[4], s[5], s[6], s[7], s[8], s[9]>>
    BY DEF ollamaEntries
  <1>8. QED
    BY <1>2, <1>3, <1>4, <1>5, <1>6, <1>7, ShortLists, NineList, Zenon

LEMMA OpenAIEntries == ListOk(openaiEntries)
  <1>1. \A m \in OPENAI_MODELS : LevelOf(m) = 1
    BY DEF LevelOf, OPENAI_MODELS, OLLAMA_MODELS, CONTABO_MODELS, DEEPSEEK_MODELS
  <1>2. EntryOk(openaiEntries[1]) /\ EntryOk(openaiEntries[2])
    BY <1>1 DEF openaiEntries, EntryOk, Entry, OPENAI_MODELS
  <1>3. EntryOk(openaiEntries[3]) /\ EntryOk(openaiEntries[4])
    BY <1>1 DEF openaiEntries, EntryOk, Entry, OPENAI_MODELS
  <1>4. LET s == openaiEntries IN s = <<s[1], s[2], s[3], s[4]>>
    BY DEF openaiEntries
  <1>5. QED
    BY <1>2, <1>3, <1>4, ShortLists, Zenon

LEMMA AnthropicEntries == ListOk(anthropicEntries)
  <1>1. \A m \in ANTHROPIC_MODELS : LevelOf(m) = 1
    BY DEF LevelOf, ANTHROPIC_MODELS, OLLAMA_MODELS, CONTABO_MODELS, DEEPSEEK_MODELS
  <1>2. EntryOk(anthropicEntries[1]) /\ EntryOk(anthropicEntries[2])
    BY <1>1 DEF anthropicEntries, EntryOk, Entry, ANTHROPIC_MODELS
  <1>3. EntryOk(anthropicEntries[3])
    BY <1>1 DEF anthropicEntries, EntryOk, Entry, ANTHROPIC_MODELS
  <1>4. LET s == anthropicEntries IN s = <<s[1], s[2], s[3]>>
    BY DEF anthropicEntries
  <1>5. QED
    BY <1>2, <1>3, <1>4, ShortLists, Zenon

LEMMA GoogleEntries == ListOk(googleEntries)
  <1>1. \A m \in GOOGLE_MODELS : LevelOf(m) = 1
    BY DEF LevelOf, GOOGLE_MODELS, OLLAMA_MODELS, CONTABO_MODELS, DEEPSEEK_MODELS
  <1>2. EntryOk(googleEntries[1]) /\ EntryOk(googleEntries[2])
    BY <1>1 DEF googleEntries, EntryOk, Entry, GOOGLE_MODELS
  <1>3. EntryOk(googleEntries[3])
    BY <1>1 DEF googleEntries, EntryOk, Entry, GOOGLE_MODELS
  <1>4. LET s == googleEntries IN s = <<s[1], s[2], s[3]>>
    BY DEF googleEntries
  <1>5. QED
    BY <1>2, <1>3, <1>4, ShortLists, Zenon

LEMMA DeepSeekEntries == ListOk(deepseekEntries)
  <1>1. \A m \in DEEPSEEK_MODELS : LevelOf(m) = 0
    BY DEF LevelOf, DEEPSEEK_MODELS, OLLAMA_MODELS, CONTABO_MODELS
  <1>2. EntryOk(deepseekEntries[1]) /\ EntryOk(deepseekEntries[2])
    BY <1>1 DEF deepseekEntries, EntryOk, Entry, DEEPSEEK_MODELS
  <1>3. LET s == deepseekEntries IN s = <<s[1], s[2]>>
    BY DEF deepseekEntries
  <1>4. QED
    BY <1>2, <1>3, ShortLists, Zenon

LEMMA PerplexityEntries == ListOk(perplexityEntries)
  <1>1. \A m \in PERPLEXITY_MODELS : LevelOf(m) = 1
    BY DEF LevelOf, PERPLEXITY_MODELS, OLLAMA_MODELS, CONTABO_MODELS, DEEPSEEK_MODELS
  <1>2. EntryOk(perplexityEntries[1]) /\ EntryOk(perplexityEntries[2])
    BY <1>1 DEF perplexityEntries, EntryOk, Entry, PERPLEXITY_MODELS
  <1>3. LET s == perplexityEntries IN s = <<s[1], s[2]>>
    BY DEF perplexityEntries
  <1>4. QED
    BY <1>2, <1>3, ShortLists, Zenon

LEMMA SingleEntries == EntryOk(kimiEntry) /\ EntryOk(xaiEntry) /\ EntryOk(deterministicEntry)
  <1>1. /\ LevelOf("kimi-k2.6") = 0 /\ LevelOf("grok-4.5") = 1
        /\ LevelOf("deterministic-core") = 3
    BY DEF LevelOf, OLLAMA_MODELS, CONTABO_MODELS, DEEPSEEK_MODELS
  <1>2. QED
    BY <1>1 DEF EntryOk, kimiEntry, xaiEntry, deterministicEntry, Entry

LEMMA CatalogueOk == ListOk(RUNTIME_CATALOGUE)
  <1>1. ListOk(<<kimiEntry>>) /\ ListOk(<<deterministicEntry, xaiEntry>>)
    BY SingleEntries, ShortLists
  <1>2. QED
    BY <1>1, ListsJoin, OllamaEntries, OpenAIEntries, AnthropicEntries, GoogleEntries,
       DeepSeekEntries, PerplexityEntries, Zenon DEF RUNTIME_CATALOGUE

(* The catalogue is a list of entries, whose models determine sovereignty.  *)
LEMMA CatalogueFacts ==
    /\ DOMAIN RUNTIME_CATALOGUE = 1 .. Len(RUNTIME_CATALOGUE) /\ Len(RUNTIME_CATALOGUE) \in Nat
    /\ \A i \in DOMAIN RUNTIME_CATALOGUE : EntryOk(RUNTIME_CATALOGUE[i])
  <1>1. PICK S : RUNTIME_CATALOGUE \in Seq(S) /\ \A e \in S : EntryOk(e)
    BY CatalogueOk DEF ListOk
  <1>2. QED
    BY <1>1

(* An identifier of the catalogue finds an entry of that identifier.        *)
LEMMA EntryFound ==
    ASSUME NEW m \in Models
    PROVE  /\ getCatalogueEntry(m).model = m
           /\ EntryOk(getCatalogueEntry(m))
  <1>1. \E i \in DOMAIN RUNTIME_CATALOGUE : RUNTIME_CATALOGUE[i].model = m
    BY DEF Models
  <1>2. QED
    BY <1>1, CatalogueFacts DEF getCatalogueEntry

----------------------------------------------------------------------------
(* The calibrator's windows.                                                *)

Sample == [ms: Nat, ok: BOOLEAN]

Windows == [Models -> Seq(Sample)]

(* The median is one of the times that were measured.                       *)
LEMMA TelemetryFacts ==
    ASSUME NEW e, EntryOk(e), NEW ring \in Seq(Sample)
    PROVE  /\ telemetryFor(e, ring).latency \in Nat
           /\ telemetryFor(e, ring).ok \in Nat
           /\ telemetryFor(e, ring).of \in Nat \ {0}
  <1> DEFINE good == {i \in DOMAIN ring : ring[i].ok}
             faster(i, j) == ring[i].ms < ring[j].ms \/ (ring[i].ms = ring[j].ms /\ i < j)
             median == CHOOSE i \in good : Cardinality({j \in good : faster(j, i)})
                                          = (Cardinality(good) - 1) \div 2
             R == {q \in good \X good : faster(q[1], q[2])}
  <1>1. IsFiniteSet(good) /\ Cardinality(good) \in Nat /\ good \subseteq 1 .. Len(ring)
    <2>1. good \subseteq 1 .. Len(ring) /\ Len(ring) \in Nat
      OBVIOUS
    <2>2. IsFiniteSet(1 .. Len(ring))
      BY <2>1, FS_Interval
    <2>3. IsFiniteSet(good)
      BY <2>1, <2>2, FS_Subset
    <2>4. QED
      BY <2>1, <2>3, FS_CardinalityType
  <1>2. ASSUME NEW i \in good PROVE ring[i].ms \in Nat /\ i \in Nat
    <2>1. i \in 1 .. Len(ring) /\ Len(ring) \in Nat
      BY <1>1
    <2>2. ring[i] \in Sample
      BY <2>1
    <2>3. QED
      BY <2>1, <2>2 DEF Sample
  <1>3. good # {} => ring[median].ms \in Nat
    <2>1. SUFFICES ASSUME good # {} PROVE ring[median].ms \in Nat
      OBVIOUS
    <2>2. Cardinality(good) # 0
      BY <1>1, <2>1, FS_EmptySet
    <2>3. (Cardinality(good) - 1) \div 2 \in Nat /\ (Cardinality(good) - 1) \div 2 < Cardinality(good)
      <3>1. PICK n \in Nat : Cardinality(good) = n + 1
        <4>1. Cardinality(good) - 1 \in Nat /\ Cardinality(good) = Cardinality(good) - 1 + 1
          BY <1>1, <2>2
        <4>2. QED
          BY <4>1, Zenon
      <3>2. n \div 2 \in Nat /\ n \div 2 <= n
        BY SMT
      <3> HIDE DEF good
      <3>3. Cardinality(good) - 1 = n
        BY <3>1
      <3>4. QED
        BY <3>1, <3>2, <3>3
    <2>4. StrictOrder(R, good)
      <3>1. \A i, j \in good : <<i, j>> \in R <=> faster(i, j)
        OBVIOUS
      <3>2. \A i \in good : ~faster(i, i)
        BY <1>2
      <3>3. \A i, j \in good : i # j => faster(i, j) \/ faster(j, i)
        BY <1>2
      <3>4. \A i, j, k \in good : faster(i, j) /\ faster(j, k) => faster(i, k)
        BY <1>2
      <3> HIDE DEF R, good, faster
      <3>5. QED
        BY <3>1, <3>2, <3>3, <3>4 DEF StrictOrder
    <2>5. PICK i \in good : Cardinality(Below(i, good, R)) = (Cardinality(good) - 1) \div 2
      <3> HIDE DEF R, good, median, faster
      <3>1. PICK m \in Nat : m = (Cardinality(good) - 1) \div 2 /\ m < Cardinality(good)
        BY <2>3
      <3>2. PICK G, Q : G = good /\ Q = R
        OBVIOUS
      <3>3. IsFiniteSet(G) /\ StrictOrder(Q, G) /\ m < Cardinality(G)
        BY <1>1, <2>4, <3>1, <3>2
      <3>4. PICK x \in G : Cardinality(Below(x, G, Q)) = m
        <4>1. \E x \in G : Cardinality(Below(x, G, Q)) = m
          BY <3>3, EveryPlaceIsTaken
        <4>2. QED
          BY <4>1
      <3>5. QED
        BY <3>1, <3>2, <3>4
    <2>6. Below(i, good, R) = {j \in good : faster(j, i)}
      BY DEF Below
    <2>7. median \in good
      <3> HIDE DEF R, good, faster
      <3>1. QED
        BY <2>5, <2>6
    <2>8. QED
      BY <1>2, <2>7
  <1>4. Len(ring) \in Nat /\ (ring # <<>> => Len(ring) # 0)
    OBVIOUS
  <1>5. e.ms \in Nat
    BY DEF EntryOk
  <1>6. telemetryFor(e, ring) =
           [latency |-> IF Len(ring) < MIN_SAMPLES \/ good = {} THEN e.ms ELSE ring[median].ms,
            ok |-> IF ring = <<>> THEN 1 ELSE Cardinality(good),
            of |-> IF ring = <<>> THEN 1 ELSE Len(ring)]
    BY Zenon DEF telemetryFor
  <1> HIDE DEF good, median, R
  <1>7. QED
    BY <1>1, <1>3, <1>4, <1>5, <1>6

LEMMA ScoreIsInt ==
    ASSUME NEW e, EntryOk(e), NEW chars \in Nat, NEW ring \in Seq(Sample)
    PROVE  scoreCandidate(e, chars, ring) \in Int /\ estimateRequestCost(e, chars) \in Nat
  <1> DEFINE t == telemetryFor(e, ring)
  <1>1. estimateRequestCost(e, chars) \in Nat
    <2>1. (chars + 3) \div 4 + 600 \in Nat /\ e.in \in Nat /\ e.out \in Nat
      BY DEF EntryOk
    <2>2. \A a, b, c \in Nat : a * b + 900 * c \in Nat
      OBVIOUS
    <2>3. QED
      BY <2>1, <2>2 DEF estimateRequestCost
  <1>2. t.latency \in Nat /\ t.ok \in Nat /\ t.of \in Nat \ {0}
    BY TelemetryFacts
  <1>3. /\ e.quality \in Nat /\ e.evidence \in Nat /\ e.risk \in Nat /\ e.sovereignty \in Nat
    BY DEF EntryOk
  <1>4. (e.quality * 100 * t.ok) \div t.of \in Int
    <2>1. e.quality * 100 * t.ok \in Int
      BY <1>2, <1>3
    <2>2. \A a \in Int, b \in Nat \ {0} : a \div b \in Int
      OBVIOUS
    <2>3. QED
      BY <1>2, <2>1, <2>2
  <1>5. ASSUME NEW a \in Int PROVE atMost(a, 10000) \in Int
    BY DEF atMost
  <1>6. (8 * atMost(estimateRequestCost(e, chars) \div 500, 10000)) \div 10 \in Int
    <2>1. estimateRequestCost(e, chars) \div 500 \in Int
      BY <1>1
    <2>2. atMost(estimateRequestCost(e, chars) \div 500, 10000) \in Int
      BY <1>5, <2>1
    <2>3. QED
      BY <2>2
  <1>7. atMost((t.latency * 2) \div 3, 10000) \div 2 \in Int
    <2>1. (t.latency * 2) \div 3 \in Int
      BY <1>2
    <2>2. atMost((t.latency * 2) \div 3, 10000) \in Int
      BY <1>5, <2>1
    <2>3. QED
      BY <2>2
  <1>8. (7 * ((e.sovereignty * 10000) \div 3)) \div 10 \in Int
    BY <1>3
  <1>9. scoreCandidate(e, chars, ring) =
            (e.quality * 100 * t.ok) \div t.of
            - (8 * atMost(estimateRequestCost(e, chars) \div 500, 10000)) \div 10
            - atMost((t.latency * 2) \div 3, 10000) \div 2
            - 60 * e.risk
            + (7 * ((e.sovereignty * 10000) \div 3)) \div 10
            + 60 * e.evidence
    BY SMT DEF scoreCandidate
  <1>10. 60 * e.risk \in Int /\ 60 * e.evidence \in Int
    BY <1>3
  <1>11. \A a, b, c, d, g, h \in Int : a - b - c - d + g + h \in Int
    OBVIOUS
  <1> HIDE DEF t
  <1>12. scoreCandidate(e, chars, ring) \in Int
    <2>1. PICK a \in Int : a = (e.quality * 100 * t.ok) \div t.of
      BY <1>4
    <2>2. PICK b \in Int : b = (8 * atMost(estimateRequestCost(e, chars) \div 500, 10000)) \div 10
      BY <1>6
    <2>3. PICK c \in Int : c = atMost((t.latency * 2) \div 3, 10000) \div 2
      BY <1>7
    <2>4. PICK d \in Int, h \in Int : d = 60 * e.risk /\ h = 60 * e.evidence
      BY <1>10
    <2>5. PICK g \in Int : g = (7 * ((e.sovereignty * 10000) \div 3)) \div 10
      BY <1>8
    <2>6. scoreCandidate(e, chars, ring) = a - b - c - d + g + h
      BY <1>9, <2>1, <2>2, <2>3, <2>4, <2>5
    <2>7. QED
      BY <2>6
  <1>13. QED
    BY <1>1, <1>12

(* Ranking loses no candidate and invents none.                             *)
LEMMA RankedAreEligible ==
    ASSUME NEW S \in SUBSET DOMAIN RUNTIME_CATALOGUE, NEW chars \in Nat, NEW w \in Windows, NEW first
    PROVE  /\ rankCandidates(S, chars, w, first) \in Seq({RUNTIME_CATALOGUE[i].model : i \in S})
           /\ Len(rankCandidates(S, chars, w, first)) = Cardinality(S)
  <1> DEFINE score(i) ==
                 LET e == RUNTIME_CATALOGUE[i]
                 IN  [at |-> i,
                      rest |-> IF first /\ e.provider = "deterministic" THEN 0 ELSE 1,
                      total |-> scoreCandidate(e, chars, w[e.model]),
                      cost |-> estimateRequestCost(e, chars),
                      ms |-> telemetryFor(e, w[e.model]).latency]
             scored == {score(i) : i \in S}
             before(a, b) ==
                 \/ a.rest < b.rest
                 \/ a.rest = b.rest /\ a.total > b.total
                 \/ a.rest = b.rest /\ a.total = b.total /\ a.cost < b.cost
                 \/ a.rest = b.rest /\ a.total = b.total /\ a.cost = b.cost /\ a.ms < b.ms
                 \/ /\ a.rest = b.rest /\ a.total = b.total /\ a.cost = b.cost /\ a.ms = b.ms
                    /\ a.at < b.at
             placed == {[at |-> a.at, place |-> Cardinality({b \in scored : before(b, a)}) + 1] : a \in scored}
             ranked == [n \in 1 .. Cardinality(S) |->
                           RUNTIME_CATALOGUE[(CHOOSE p \in placed : p.place = n).at].model]
             R == {q \in scored \X scored : before(q[1], q[2])}
  <1>1. IsFiniteSet(S) /\ Cardinality(S) \in Nat /\ S \subseteq Nat
    <2>1. IsFiniteSet(DOMAIN RUNTIME_CATALOGUE) /\ DOMAIN RUNTIME_CATALOGUE \subseteq Nat
      BY CatalogueFacts, FS_Interval
    <2>2. QED
      BY <2>1, FS_Subset, FS_CardinalityType
  <1>2. ASSUME NEW i \in S
        PROVE  /\ score(i).at = i /\ score(i).rest \in Int /\ score(i).total \in Int
               /\ score(i).cost \in Int /\ score(i).ms \in Int
    <2>1. PICK e : e = RUNTIME_CATALOGUE[i]
      OBVIOUS
    <2>2. EntryOk(e) /\ w[e.model] \in Seq(Sample)
      BY <2>1, CatalogueFacts DEF Windows, Models
    <2>3. /\ scoreCandidate(e, chars, w[e.model]) \in Int /\ estimateRequestCost(e, chars) \in Nat
          /\ telemetryFor(e, w[e.model]).latency \in Nat
      BY <2>2, ScoreIsInt, TelemetryFacts
    <2>4. QED
      BY <2>1, <2>3
  <1>3. IsFiniteSet(scored) /\ Cardinality(scored) = Cardinality(S)
    <2> DEFINE f == [i \in S |-> score(i)]
    <2>1. f \in [S -> scored]
      OBVIOUS
    <2>2. ASSUME NEW i \in S, NEW j \in S, f[i] = f[j] PROVE i = j
      <3>1. f[i] = score(i) /\ f[j] = score(j)
        OBVIOUS
      <3> HIDE DEF score, f
      <3>2. QED
        BY <1>2, <2>2, <3>1
    <2>3. \A a \in scored : \E i \in S : f[i] = a
      OBVIOUS
    <2> HIDE DEF f, scored
    <2>4. f \in Bijection(S, scored)
      BY <2>1, <2>2, <2>3 DEF Bijection, Injection, Surjection, IsInjective
    <2>5. QED
      BY <1>1, <2>4, FS_Bijection DEF ExistsBijection
  <1>4. \A a \in scored : /\ a.at \in S /\ a.rest \in Int /\ a.total \in Int
                          /\ a.cost \in Int /\ a.ms \in Int /\ a = score(a.at)
    <2> HIDE DEF score
    <2>1. QED
      BY <1>2
  <1>5. StrictOrder(R, scored)
    <2>1. \A a, b \in scored : <<a, b>> \in R <=> before(a, b)
      OBVIOUS
    <2>2. \A a, b \in scored : a.at = b.at => a = b
      <3> HIDE DEF score, scored
      <3>1. QED
        BY <1>4
    <2>3. \A a \in scored : a.at \in Int /\ a.rest \in Int /\ a.total \in Int
                            /\ a.cost \in Int /\ a.ms \in Int
      <3> HIDE DEF score, scored
      <3>1. QED
        BY <1>1, <1>4
    <2> HIDE DEF R, score, scored
    <2>4. QED
      BY <2>1, <2>2, <2>3 DEF StrictOrder
  <1>6. ASSUME NEW n \in 1 .. Cardinality(S)
        PROVE  (CHOOSE p \in placed : p.place = n).at \in S
    <2>1. n - 1 \in Nat /\ n - 1 < Cardinality(scored)
      BY <1>1, <1>3
    <2>2. PICK a \in scored : Cardinality(Below(a, scored, R)) = n - 1
      <3> HIDE DEF R, scored
      <3>1. QED
        BY <1>3, <1>5, <2>1, EveryPlaceIsTaken
    <2>3. Below(a, scored, R) = {b \in scored : before(b, a)}
      <3> HIDE DEF scored, before
      <3>1. QED
        BY DEF Below
    <2>4. Cardinality({b \in scored : before(b, a)}) + 1 = n
      <3> HIDE DEF R, scored, before
      <3>1. Cardinality({b \in scored : before(b, a)}) = n - 1
        BY <2>2, <2>3, Zenon
      <3>2. n - 1 + 1 = n
        BY <1>1
      <3>3. QED
        BY <3>1, <3>2, Zenon
    <2>5. [at |-> a.at, place |-> Cardinality({b \in scored : before(b, a)}) + 1] \in placed
      <3> HIDE DEF R, scored, before
      <3>1. QED
        OBVIOUS
    <2>6. \E p \in placed : p.place = n
      <3> HIDE DEF placed
      <3>1. QED
        BY <2>4, <2>5
    <2>7. ASSUME NEW p \in placed PROVE p.at \in S
      <3>1. PICK a2 \in scored :
               p = [at |-> a2.at, place |-> Cardinality({b \in scored : before(b, a2)}) + 1]
        <4> HIDE DEF scored, before
        <4>1. QED
          BY Zenon
      <3> HIDE DEF scored
      <3>2. QED
        BY <1>4, <3>1
    <2> HIDE DEF placed
    <2>8. QED
      BY <2>6, <2>7
  <1>7. rankCandidates(S, chars, w, first) = ranked
    BY Zenon DEF rankCandidates
  <1> HIDE DEF placed, R, scored
  <1>8. ranked \in [1 .. Cardinality(S) -> {RUNTIME_CATALOGUE[i].model : i \in S}]
    BY <1>6
  <1> HIDE DEF ranked
  <1>9. QED
    BY <1>1, <1>7, <1>8

Attempt == [model: Models, ms: Nat, ok: BOOLEAN]

LEMMA SampleRecorded ==
    ASSUME NEW w \in Windows, NEW m \in Models, NEW ms \in Nat, NEW ok \in BOOLEAN
    PROVE  recordSample(w, m, ms, ok) \in Windows
  <1> DEFINE ring == Append(w[m], [ms |-> ms, ok |-> ok])
             kept == IF Len(ring) > WINDOW_SIZE THEN Tail(ring) ELSE ring
  <1>1. [ms |-> ms, ok |-> ok] \in Sample
    BY DEF Sample
  <1>2. w[m] \in Seq(Sample)
    BY DEF Windows
  <1>3. ring \in Seq(Sample) /\ Len(ring) > 0
    <2>1. PICK s : s = [ms |-> ms, ok |-> ok]
      OBVIOUS
    <2>2. PICK v : v = w[m]
      OBVIOUS
    <2>3. Append(v, s) \in Seq(Sample) /\ Len(Append(v, s)) > 0
      BY <1>1, <1>2, <2>1, <2>2
    <2>4. QED
      BY <2>1, <2>2, <2>3
  <1>4. recordSample(w, m, ms, ok) = [w EXCEPT ![m] = kept]
    BY Zenon DEF recordSample
  <1>5. kept \in Seq(Sample)
    <2> HIDE DEF ring
    <2>1. ring # <<>>
      BY <1>3
    <2>2. Tail(ring) \in Seq(Sample)
      BY <1>3, <2>1
    <2>3. QED
      BY <1>3, <2>2
  <1> HIDE DEF kept, ring
  <1>6. QED
    BY <1>4, <1>5 DEF Windows

\* The recursion of seedFromLedger() over the first n samples.
Seeds(g, w, s, n) ==
    g = [k \in 0 .. n |-> IF k = 0 THEN w
                          ELSE recordSample(g[k - 1], s[k].model, s[k].ms, s[k].ok)]

LEMMA SeedingHasSolution ==
    ASSUME NEW w, NEW s, NEW n \in Nat
    PROVE  \E g : Seeds(g, w, s, n)
  <1> DEFINE Good == {k \in Nat : \E g : Seeds(g, w, s, k)}
  <1>1. 0 \in Good
    <2> DEFINE g == [k \in 0 .. 0 |-> w]
    <2>1. Seeds(g, w, s, 0)
      BY DEF Seeds
    <2>2. QED
      BY <2>1
  <1>2. ASSUME NEW k \in Nat, k \in Good PROVE k + 1 \in Good
    <2>1. PICK g : Seeds(g, w, s, k)
      BY <1>2
    <2> DEFINE next == recordSample(g[k], s[k + 1].model, s[k + 1].ms, s[k + 1].ok)
               h == [i \in 0 .. k + 1 |-> IF i = k + 1 THEN next ELSE g[i]]
    <2>2. \A i \in 0 .. k : g[i] = IF i = 0 THEN w
                                    ELSE recordSample(g[i - 1], s[i].model, s[i].ms, s[i].ok)
      <3>1. g = [i \in 0 .. k |-> IF i = 0 THEN w
                          ELSE recordSample(g[i - 1], s[i].model, s[i].ms, s[i].ok)]
        BY <2>1 DEF Seeds
      <3>2. QED
        BY <3>1
    <2>3. ASSUME NEW i \in 0 .. k + 1
          PROVE  h[i] = IF i = 0 THEN w ELSE recordSample(h[i - 1], s[i].model, s[i].ms, s[i].ok)
      <3>1. CASE i = 0
        <4>1. h[i] = g[0] /\ g[0] = w
          BY <2>2, <3>1
        <4>2. QED
          BY <3>1, <4>1
      <3>2. CASE i \in 1 .. k
        <4>1. h[i] = g[i] /\ h[i - 1] = g[i - 1]
          BY <3>2
        <4>2. g[i] = recordSample(g[i - 1], s[i].model, s[i].ms, s[i].ok)
          BY <2>2, <3>2
        <4>3. QED
          BY <3>2, <4>1, <4>2
      <3>3. CASE i = k + 1
        <4>1. h[i] = next /\ h[i - 1] = g[k] /\ i # 0
          BY <3>3
        <4> HIDE DEF h
        <4>2. QED
          BY <3>3, <4>1
      <3>4. QED
        BY <3>1, <3>2, <3>3
    <2>4. Seeds(h, w, s, k + 1)
      <3>1. h = [i \in 0 .. k + 1 |-> h[i]]
        OBVIOUS
      <3> HIDE DEF h
      <3>2. QED
        BY <2>3, <3>1 DEF Seeds
    <2> HIDE DEF h
    <2>5. QED
      BY <2>4
  <1>3. Nat \subseteq Good
    <2> HIDE DEF Good
    <2>1. QED
      BY <1>1, <1>2, CountingUp
  <1>4. QED
    BY <1>3

(* Whatever rows the attempts table holds, seeding leaves windows.          *)
LEMMA SeededAreWindows ==
    ASSUME NEW w \in Windows, NEW s \in Seq(Attempt)
    PROVE  seedFromLedger(w, s) \in Windows
  <1> DEFINE g == CHOOSE f : Seeds(f, w, s, Len(s))
             Good == {k \in Nat : k <= Len(s) => g[k] \in Windows}
  <1>1. Len(s) \in Nat
    OBVIOUS
  <1>2. Seeds(g, w, s, Len(s))
    BY <1>1, SeedingHasSolution
  <1>3. seedFromLedger(w, s) = g[Len(s)]
    BY Zenon DEF seedFromLedger, Seeds
  <1> HIDE DEF g
  <1>4. \A i \in 0 .. Len(s) : g[i] = IF i = 0 THEN w
                                       ELSE recordSample(g[i - 1], s[i].model, s[i].ms, s[i].ok)
    <2>1. g = [i \in 0 .. Len(s) |-> IF i = 0 THEN w
                        ELSE recordSample(g[i - 1], s[i].model, s[i].ms, s[i].ok)]
      BY <1>2 DEF Seeds
    <2>2. QED
      BY <2>1
  <1>5. 0 \in Good
    BY <1>1, <1>4
  <1>6. ASSUME NEW k \in Nat, k \in Good PROVE k + 1 \in Good
    <2>1. SUFFICES ASSUME k + 1 <= Len(s) PROVE g[k + 1] \in Windows
      OBVIOUS
    <2>2. g[k] \in Windows /\ k + 1 \in 1 .. Len(s) /\ k + 1 \in 0 .. Len(s) /\ k + 1 # 0 /\ k + 1 - 1 = k
      BY <1>1, <1>6, <2>1
    <2>3. s[k + 1].model \in Models /\ s[k + 1].ms \in Nat /\ s[k + 1].ok \in BOOLEAN
      <3>1. s[k + 1] \in Attempt
        BY <2>2
      <3>2. QED
        BY <3>1 DEF Attempt
    <2>4. recordSample(g[k], s[k + 1].model, s[k + 1].ms, s[k + 1].ok) \in Windows
      BY <2>2, <2>3, SampleRecorded
    <2>5. g[k + 1] = recordSample(g[k], s[k + 1].model, s[k + 1].ms, s[k + 1].ok)
      BY <1>4, <2>2
    <2>6. QED
      BY <2>4, <2>5
  <1>7. Nat \subseteq Good
    <2> HIDE DEF Good
    <2>1. QED
      BY <1>5, <1>6, CountingUp
  <1>8. QED
    BY <1>1, <1>3, <1>7

----------------------------------------------------------------------------
(* The router admits only what a request's confidentiality allows.          *)

Admitted(r) ==
    {m \in Models : /\ r.confidentiality = "sovereign" => LevelOf(m) >= 3
                    /\ r.confidentiality = "restricted" => LevelOf(m) >= 1}

LEMMA EligibleAreAdmitted ==
    ASSUME NEW r, NEW c, c.confidentiality = r.confidentiality, NEW e, NEW w,
           NEW i \in applyRuntimePolicies(c, PromptChars, e, w)
    PROVE  i \in DOMAIN RUNTIME_CATALOGUE /\ RUNTIME_CATALOGUE[i].model \in Admitted(r)
  <1>1. PICK x : x = RUNTIME_CATALOGUE[i]
    OBVIOUS
  <1>2. i \in DOMAIN RUNTIME_CATALOGUE /\ confidentialityAdmits(x, c)
    BY <1>1, Zenon DEF applyRuntimePolicies
  <1>3. EntryOk(x) /\ x.model \in Models
    BY <1>1, <1>2, CatalogueFacts DEF Models
  <1>4. /\ c.confidentiality = "sovereign" => x.sovereignty >= 3
        /\ c.confidentiality = "restricted" => x.sovereignty >= 1
    BY <1>2 DEF confidentialityAdmits
  <1>5. QED
    BY <1>1, <1>2, <1>3, <1>4 DEF Admitted, EntryOk

LEMMA RoutedAreAdmitted ==
    ASSUME NEW r, NEW c, c.confidentiality = r.confidentiality, win \in Windows
    PROVE  route(c) \in Seq(Admitted(r))
  <1> DEFINE S == applyRuntimePolicies(c, PromptChars, env, win)
  <1>1. S \in SUBSET DOMAIN RUNTIME_CATALOGUE /\ {RUNTIME_CATALOGUE[i].model : i \in S} \subseteq Admitted(r)
    BY EligibleAreAdmitted
  <1>2. route(c) = rankCandidates(S, PromptChars, win, c.task = "calculation")
    BY Zenon DEF route, routeOnly
  <1>3. PromptChars \in Nat
    BY DEF PromptChars
  <1>4. PICK first : first = (c.task = "calculation")
    OBVIOUS
  <1> HIDE DEF S
  <1>5. rankCandidates(S, PromptChars, win, first) \in Seq({RUNTIME_CATALOGUE[i].model : i \in S})
    BY <1>1, <1>3, RankedAreEligible
  <1>6. QED
    BY <1>1, <1>2, <1>4, <1>5

(* Every exchange asks the router under its request's confidentiality.      *)
LEMMA ConstraintsKeepConfidentiality ==
    ASSUME NEW r, NEW jb, NEW p
    PROVE  /\ buildConstraints(r).confidentiality = r.confidentiality
           /\ planConstraints(r).confidentiality = r.confidentiality
           /\ workerConstraints(jb, p).confidentiality = jb.req.confidentiality
           /\ synthesisConstraints(jb).confidentiality = jb.req.confidentiality
  <1>1. buildConstraints(r).confidentiality = r.confidentiality
    BY DEF buildConstraints, NoConstraints
  <1>2. planConstraints(r).confidentiality = r.confidentiality
    BY DEF planConstraints, NoConstraints
  <1>3. workerConstraints(jb, p).confidentiality = jb.req.confidentiality
    BY DEF workerConstraints, NoConstraints
  <1>4. synthesisConstraints(jb).confidentiality = jb.req.confidentiality
    BY DEF synthesisConstraints, NoConstraints
  <1>5. QED
    BY <1>1, <1>2, <1>3, <1>4

(* An adapter answers or fails.                                             *)
LEMMA ResponseIsTyped ==
    ASSUME NEW entry, NEW e, NEW outcome, NEW usage, NEW computable
    PROVE  invoke(entry, e, outcome, usage, computable).ok \in BOOLEAN
  <1>1. \A kind : providerFailure(kind).ok \in BOOLEAN
    BY DEF providerFailure
  <1>2. \A u : answerOf(u).ok \in BOOLEAN
    BY DEF answerOf
  <1>3. deterministicCore(computable).ok \in BOOLEAN
    BY <1>1, <1>2, Zenon DEF deterministicCore
  <1>4. ollamaChat(outcome, usage).ok \in BOOLEAN
    BY <1>1, <1>2, Zenon DEF ollamaChat
  <1>5. anthropicNative(outcome, usage).ok \in BOOLEAN
    BY <1>1, <1>2, Zenon DEF anthropicNative
  <1>6. googleNative(outcome, usage).ok \in BOOLEAN
    BY <1>1, <1>2, Zenon DEF googleNative
  <1>7. invokeOpenAICompatible(outcome, usage).ok \in BOOLEAN
    BY <1>1, <1>2, Zenon DEF invokeOpenAICompatible
  <1>8. QED
    BY <1>1, <1>3, <1>4, <1>5, <1>6, <1>7, Zenon DEF invoke

----------------------------------------------------------------------------
(* Confidentiality.  The engines to try are those the policy admits to the  *)
(* request, and there is one left to try whenever a call is under way.      *)

RouteFields == {"pc", "req", "routing", "tried", "engines", "tools"}

Seen(jb) ==
    /\ RouteFields \subseteq DOMAIN jb
    /\ jb.engines \subseteq Admitted(jb.req)
    /\ jb.req.confidentiality = "sovereign" => "web.fetch" \notin jb.tools
    /\ jb.tried \in Seq(Attempt)

Guarded(jb) ==
    /\ Seen(jb)
    /\ jb.pc = "calling" => /\ jb.routing \in Seq(Admitted(jb.req))
                            /\ Len(jb.tried) < Len(jb.routing)

GuardInv ==
    /\ win \in Windows
    /\ attempts \in Seq(Attempt)
    /\ DOMAIN job = Jobs
    /\ \A j \in Jobs : Guarded(job[j])

LEMMA GuardedIsSeen ==
    ASSUME NEW jb, Guarded(jb)
    PROVE  Seen(jb)
  BY DEF Guarded

(* A step between exchanges that leaves the request and what was seen.      *)
LEMMA StaysGuarded ==
    ASSUME NEW old, Seen(old), NEW jb, RouteFields \subseteq DOMAIN jb, jb.req = old.req,
           jb.engines = old.engines, jb.tools = old.tools,
           jb.tried = old.tried \/ jb.tried = <<>>, jb.pc # "calling"
    PROVE  Guarded(jb)
  <1>1. <<>> \in Seq(Attempt)
    OBVIOUS
  <1>2. jb.tried \in Seq(Attempt)
    BY <1>1 DEF Seen
  <1>3. QED
    BY <1>2 DEF Guarded, Seen

LEMMA ArrivalGuarded ==
    ASSUME NEW jb, RouteFields \subseteq DOMAIN jb, jb.pc # "calling",
           jb.engines = {}, jb.tools = {}, jb.tried = <<>>
    PROVE  Guarded(jb)
  <1>1. <<>> \in Seq(Attempt)
    OBVIOUS
  <1>2. jb.tried \in Seq(Attempt)
    BY <1>1
  <1>3. jb.engines \subseteq Admitted(jb.req) /\ "web.fetch" \notin jb.tools
    OBVIOUS
  <1>4. QED
    BY <1>2, <1>3 DEF Guarded, Seen

LEMMA ExchangeGuarded ==
    ASSUME NEW old, Guarded(old), NEW routing \in Seq(Admitted(old.req)), routing # <<>>,
           NEW phase, NEW jb, jb = exchanging(old, phase, routing)
    PROVE  Guarded(jb)
  <1>1. RouteFields \subseteq DOMAIN old
    BY DEF Guarded, Seen
  <1>2. /\ RouteFields \subseteq DOMAIN jb /\ jb.req = old.req /\ jb.engines = old.engines
        /\ jb.tools = old.tools /\ jb.tried = <<>> /\ jb.routing = routing
    BY <1>1 DEF exchanging, RouteFields
  <1>3. Len(routing) > 0 /\ Len(jb.tried) = 0
    BY <1>2
  <1>4. QED
    BY <1>2, <1>3 DEF Guarded, Seen

LEMMA PlannedGuarded ==
    ASSUME NEW old, Seen(old), NEW answer, NEW jb, jb = planned(old, answer)
    PROVE  Guarded(jb)
  <1>1. RouteFields \subseteq DOMAIN old
    BY DEF Guarded, Seen
  <1>2. PICK plan :
           jb = [old EXCEPT !.pc = "planned", !.planCost = old.spent, !.total = old.spent,
                            !.spent = 0, !.plan = plan]
    BY Zenon DEF planned
  <1>3. /\ RouteFields \subseteq DOMAIN jb /\ jb.req = old.req /\ jb.engines = old.engines
        /\ jb.tools = old.tools /\ jb.tried = old.tried /\ jb.pc = "planned"
    BY <1>1, <1>2 DEF RouteFields
  <1>4. QED
    BY <1>3, StaysGuarded, GuardedIsSeen

(* A job ends, or is held.                                                  *)
LEMMA LeavesGuarded ==
    ASSUME NEW old, Seen(old), NEW pc \in Places \ {"calling"}, NEW jb,
           \/ \E result, total, lost :
                 jb = [old EXCEPT !.pc = pc, !.result = result, !.total = total, !.spent = 0,
                                  !.lost = lost]
           \/ \E result : jb = [old EXCEPT !.pc = pc, !.result = result]
           \/ \E expires : jb = [old EXCEPT !.pc = pc, !.expires = expires]
           \/ jb = [old EXCEPT !.pc = pc]
    PROVE  Guarded(jb)
  <1>1. RouteFields \subseteq DOMAIN old
    BY DEF Guarded, Seen
  <1>2. /\ RouteFields \subseteq DOMAIN jb /\ jb.req = old.req /\ jb.engines = old.engines
        /\ jb.tools = old.tools /\ jb.tried = old.tried /\ jb.pc = pc
    BY <1>1 DEF RouteFields
  <1>3. QED
    BY <1>2, StaysGuarded, GuardedIsSeen

LEMMA GuardStep ==
    ASSUME GuardInv, NEW j \in Jobs, NEW jb, Guarded(jb), job' = [job EXCEPT ![j] = jb],
           win' \in Windows, attempts' \in Seq(Attempt)
    PROVE  GuardInv'
  <1>1. /\ DOMAIN job' = Jobs /\ job'[j] = jb
        /\ \A i \in Jobs : i # j => job'[i] = job[i]
    BY DEF GuardInv
  <1>2. QED
    BY <1>1 DEF GuardInv

LEMMA AttemptsTyped ==
    ASSUME GuardInv, NEW tried \in Seq(Attempt), NEW lose, recordAttempts(tried, lose)
    PROVE  attempts' \in Seq(Attempt)
  BY DEF recordAttempts, GuardInv

LEMMA TerminateGuarded ==
    ASSUME GuardInv, NEW j \in Jobs, NEW jb, Seen(jb), NEW result, NEW cost, NEW governed, NEW lose,
           terminate(j, jb, result, cost, governed, lose), win' \in Windows
    PROVE  GuardInv'
  <1>1. PICK new : new = [jb EXCEPT !.pc = "done", !.result = result, !.total = cost, !.spent = 0,
                                    !.lost = lose]
    OBVIOUS
  <1>2. job' = [job EXCEPT ![j] = new] /\ recordAttempts(jb.tried, lose)
    BY <1>1 DEF terminate
  <1>3. Guarded(new)
    BY <1>1, LeavesGuarded, GuardedIsSeen DEF Places
  <1>4. attempts' \in Seq(Attempt)
    BY <1>2, AttemptsTyped DEF Guarded, Seen
  <1>5. QED
    BY <1>2, <1>3, <1>4, GuardStep

LEMMA ReportGuarded ==
    ASSUME GuardInv, NEW j \in Jobs, NEW jb, Seen(jb), NEW ok, NEW lose,
           reportTask(j, jb, ok, lose), win' \in Windows
    PROVE  GuardInv'
  <1>1. PICK new, next, total, good, bad, lost :
           /\ new = [jb EXCEPT !.pc = "planned", !.next = next, !.total = total, !.spent = 0,
                               !.good = good, !.bad = bad, !.lost = lost]
           /\ job' = [job EXCEPT ![j] = new]
           /\ recordAttempts(jb.tried, lose)
    BY DEF reportTask
  <1>2. RouteFields \subseteq DOMAIN jb /\ jb.tried \in Seq(Attempt)
    BY DEF Guarded, Seen
  <1>3. /\ RouteFields \subseteq DOMAIN new /\ new.req = jb.req /\ new.engines = jb.engines
        /\ new.tools = jb.tools /\ new.tried = jb.tried /\ new.pc = "planned"
    BY <1>1, <1>2 DEF RouteFields
  <1>4. Guarded(new)
    BY <1>3, StaysGuarded, GuardedIsSeen
  <1>5. attempts' \in Seq(Attempt)
    BY <1>1, <1>2, AttemptsTyped
  <1>6. QED
    BY <1>1, <1>4, <1>5, GuardStep

LEMMA FinishGuarded ==
    ASSUME GuardInv, NEW j \in Jobs, NEW jb, Seen(jb), NEW lose,
           finishMission(j, jb, lose), win' \in Windows
    PROVE  GuardInv'
  <1>1. PICK status : status = IF jb.exhausted \/ jb.bad # {} THEN "partial" ELSE "complete"
    OBVIOUS
  <1>2. PICK new, total, lost :
           /\ new = [jb EXCEPT !.pc = "done", !.result = status, !.total = total, !.spent = 0,
                               !.lost = lost]
           /\ job' = [job EXCEPT ![j] = new] /\ UNCHANGED attempts
    <2>1. /\ job' = [job EXCEPT ![j] = [jb EXCEPT !.pc = "done", !.result = status, !.spent = 0,
                                                  !.total = @ + jb.spent, !.lost = @ \/ lose]]
          /\ UNCHANGED attempts
      BY <1>1, Zenon DEF finishMission
    <2>2. [jb EXCEPT !.pc = "done", !.result = status, !.spent = 0,
                     !.total = @ + jb.spent, !.lost = @ \/ lose]
          = [jb EXCEPT !.pc = "done", !.result = status, !.total = jb.total + jb.spent, !.spent = 0,
                       !.lost = jb.lost \/ lose]
      OBVIOUS
    <2>3. QED
      BY <2>1, <2>2
  <1>3. Guarded(new)
    BY <1>2, LeavesGuarded, GuardedIsSeen DEF Places
  <1>4. QED
    BY <1>2, <1>3, GuardStep DEF GuardInv

----------------------------------------------------------------------------
LEMMA QueryArrivesGuarded ==
    ASSUME GuardInv, NEW j \in Jobs, NEW k \in Keys, QueryArrives(j, k)
    PROVE  GuardInv'
  <1>1. PICK r \in Queries, lose \in BOOLEAN :
           /\ \/ terminate(j, [Idle EXCEPT !.req = r, !.key = k], "rejected-governance", 0, FALSE, lose)
              \/ /\ job' = [job EXCEPT ![j] = [Idle EXCEPT !.pc = "retrieving", !.req = r, !.key = k]]
                 /\ UNCHANGED attempts
           /\ UNCHANGED win
    BY DEF QueryArrives
  <1>2. PICK jb : jb = [Idle EXCEPT !.req = r, !.key = k]
    OBVIOUS
  <1>3. PICK new : new = [Idle EXCEPT !.pc = "retrieving", !.req = r, !.key = k]
    OBVIOUS
  <1>4. Guarded(jb) /\ Guarded(new)
    <2>1. /\ RouteFields \subseteq DOMAIN jb /\ jb.pc = "idle" /\ jb.engines = {} /\ jb.tools = {}
          /\ jb.tried = <<>>
      BY <1>2 DEF Idle, RouteFields
    <2>2. /\ RouteFields \subseteq DOMAIN new /\ new.pc = "retrieving" /\ new.engines = {}
          /\ new.tools = {} /\ new.tried = <<>>
      BY <1>3 DEF Idle, RouteFields
    <2>3. QED
      BY <2>1, <2>2, ArrivalGuarded
  <1>5. win' \in Windows /\ attempts \in Seq(Attempt)
    BY <1>1 DEF GuardInv
  <1>6. QED
    BY <1>1, <1>2, <1>3, <1>4, <1>5, TerminateGuarded, GuardedIsSeen, GuardStep

LEMMA RetrievedGuarded ==
    ASSUME GuardInv, NEW j \in Jobs, Retrieved(j)
    PROVE  GuardInv'
  <1>1. PICK routing, verdict, lose, jb :
           /\ routing = route(buildConstraints(job[j].req))
           /\ jb = [job[j] EXCEPT !.verdict = verdict]
           /\ \/ \E result, governed : terminate(j, jb, result, 0, governed, lose)
              \/ /\ routing # <<>> /\ UNCHANGED attempts
                 /\ job' = [job EXCEPT ![j] = exchanging(jb, "query", routing)]
           /\ job[j].pc = "retrieving" /\ UNCHANGED win
    <2>1. PICK sources \in {0, 2}, lose \in BOOLEAN :
        LET r == job[j].req
            routing == route(buildConstraints(r))
            verdict == evaluateGovernance(
                buildDecisionContext(j, "query", r.task,
                    deriveConfidenceFromQuality(getCatalogueEntry(Head(routing)).quality),
                    sources, FALSE, "other", 1))
            jb == [job[j] EXCEPT !.verdict = IF routing = <<>> THEN "none" ELSE verdict]
        IN  /\ job[j].pc = "retrieving"
            /\ CASE routing = <<>> -> terminate(j, jb, "rejected-policy", 0, FALSE, lose)
                 [] routing # <<>> /\ verdict = "block" ->
                        terminate(j, jb, "rejected-governance", 0, TRUE, lose)
                 [] routing # <<>> /\ verdict # "block" /\ r.dry ->
                        terminate(j, jb, "completed", 0, TRUE, lose)
                 [] OTHER ->
                        /\ ~lose
                        /\ job' = [job EXCEPT ![j] = exchanging(jb, "query", routing)]
                        /\ UNCHANGED <<rows, attempts, trail, faults>>
            /\ UNCHANGED <<now, deployed, keys, win, pend, missions>>
      BY Zenon DEF Retrieved
    <2> DEFINE r == job[j].req
               routing == route(buildConstraints(r))
               verdict == evaluateGovernance(
                   buildDecisionContext(j, "query", r.task,
                       deriveConfidenceFromQuality(getCatalogueEntry(Head(routing)).quality),
                       sources, FALSE, "other", 1))
               seen == IF routing = <<>> THEN "none" ELSE verdict
               jb == [job[j] EXCEPT !.verdict = seen]
    <2>2. /\ job[j].pc = "retrieving"
          /\ CASE routing = <<>> -> terminate(j, jb, "rejected-policy", 0, FALSE, lose)
               [] routing # <<>> /\ verdict = "block" ->
                      terminate(j, jb, "rejected-governance", 0, TRUE, lose)
               [] routing # <<>> /\ verdict # "block" /\ r.dry ->
                      terminate(j, jb, "completed", 0, TRUE, lose)
               [] OTHER ->
                      /\ ~lose
                      /\ job' = [job EXCEPT ![j] = exchanging(jb, "query", routing)]
                      /\ UNCHANGED <<rows, attempts, trail, faults>>
          /\ UNCHANGED <<now, deployed, keys, win, pend, missions>>
      BY <2>1, Zenon
    <2>3. jb = [job[j] EXCEPT !.verdict = seen] /\ routing = route(buildConstraints(job[j].req))
      OBVIOUS
    <2> HIDE DEF routing, verdict, seen, jb
    <2>4. \/ terminate(j, jb, "rejected-policy", 0, FALSE, lose)
          \/ terminate(j, jb, "rejected-governance", 0, TRUE, lose)
          \/ terminate(j, jb, "completed", 0, TRUE, lose)
          \/ /\ routing # <<>> /\ job' = [job EXCEPT ![j] = exchanging(jb, "query", routing)]
             /\ UNCHANGED <<rows, attempts, trail, faults>>
      BY <2>2, Zenon
    <2>5. UNCHANGED win /\ job[j].pc = "retrieving"
      BY <2>2
    <2>6. \/ \E result, governed : terminate(j, jb, result, 0, governed, lose)
          \/ /\ routing # <<>> /\ UNCHANGED attempts
             /\ job' = [job EXCEPT ![j] = exchanging(jb, "query", routing)]
      BY <2>4
    <2>7. QED
      BY <2>3, <2>5, <2>6, Zenon
  <1>2. Guarded(job[j]) /\ RouteFields \subseteq DOMAIN job[j]
    BY DEF GuardInv, Guarded, Seen
  <1>3. Guarded(jb) /\ jb.req = job[j].req
    <2>1. /\ RouteFields \subseteq DOMAIN jb /\ jb.req = job[j].req /\ jb.engines = job[j].engines
          /\ jb.tools = job[j].tools /\ jb.tried = job[j].tried /\ jb.pc = "retrieving"
      BY <1>1, <1>2 DEF RouteFields
    <2>2. QED
      BY <1>2, <2>1, StaysGuarded, GuardedIsSeen
  <1>4. routing \in Seq(Admitted(jb.req))
    BY <1>1, <1>3, ConstraintsKeepConfidentiality, RoutedAreAdmitted DEF GuardInv
  <1>5. win' \in Windows
    BY <1>1 DEF GuardInv
  <1>6. ASSUME NEW result, NEW governed, terminate(j, jb, result, 0, governed, lose) PROVE GuardInv'
    BY <1>3, <1>5, <1>6, TerminateGuarded, GuardedIsSeen
  <1>7. CASE /\ routing # <<>> /\ UNCHANGED attempts
             /\ job' = [job EXCEPT ![j] = exchanging(jb, "query", routing)]
    <2>1. Guarded(exchanging(jb, "query", routing))
      BY <1>3, <1>4, <1>7, ExchangeGuarded
    <2>2. attempts' \in Seq(Attempt)
      BY <1>7 DEF GuardInv
    <2>3. QED
      BY <1>5, <1>7, <2>1, <2>2, GuardStep
  <1>8. QED
    BY <1>1, <1>6, <1>7

(* dispatchMission() holds, refuses or starts a mission.                    *)
LEMMA DispatchMissionGuarded ==
    ASSUME GuardInv, NEW j \in Jobs, NEW jb, Guarded(jb), jb.pc # "calling", NEW approved, NEW store,
           dispatchMission(j, jb, approved, store), UNCHANGED <<win, attempts>>
    PROVE  GuardInv'
  <1>1. PICK verdict : verdict = evaluateGovernance(missionContext(j, jb.req, approved))
    OBVIOUS
  <1>2. PICK jv : jv = [jb EXCEPT !.verdict = verdict]
    OBVIOUS
  <1>3. hold(j, jv, store) \/ blockMission(j, jv) \/ startPlanning(j, jv)
    <2>1. (CASE humanCoSignRequired(verdict) /\ ~approved -> hold(j, jv, store)
             [] verdict = "block" -> blockMission(j, jv) /\ pend' = store
             [] OTHER -> startPlanning(j, jv) /\ pend' = store)
      BY <1>1, <1>2, Zenon DEF dispatchMission
    <2>2. QED
      BY <2>1, Zenon
  <1>4. Guarded(jv) /\ RouteFields \subseteq DOMAIN jv
    <2>1. RouteFields \subseteq DOMAIN jb
      BY DEF Guarded, Seen
    <2>2. /\ RouteFields \subseteq DOMAIN jv /\ jv.req = jb.req /\ jv.engines = jb.engines
          /\ jv.tools = jb.tools /\ jv.tried = jb.tried /\ jv.pc = jb.pc
      BY <1>2, <2>1 DEF RouteFields
    <2>3. QED
      BY <2>2, StaysGuarded, GuardedIsSeen
  <1>5. win' \in Windows /\ attempts' \in Seq(Attempt) /\ win \in Windows
    BY DEF GuardInv
  <1>6. CASE hold(j, jv, store)
    <2>1. PICK new, expires : new = [jv EXCEPT !.pc = "held", !.expires = expires]
                              /\ job' = [job EXCEPT ![j] = new]
      BY <1>6, Zenon DEF hold
    <2>2. Guarded(new)
      BY <1>4, <2>1, LeavesGuarded, GuardedIsSeen DEF Places
    <2>3. QED
      BY <1>5, <2>1, <2>2, GuardStep
  <1>7. CASE blockMission(j, jv)
    <2>1. PICK new : new = [jv EXCEPT !.pc = "done", !.result = "blocked"]
      OBVIOUS
    <2>2. job' = [job EXCEPT ![j] = new]
      BY <1>7, <2>1, Zenon DEF blockMission
    <2>3. Guarded(new)
      BY <1>4, <2>1, LeavesGuarded, GuardedIsSeen DEF Places
    <2>4. QED
      BY <1>5, <2>2, <2>3, GuardStep
  <1>8. CASE startPlanning(j, jv)
    <2>1. PICK begun : begun = [jv EXCEPT !.starts = @ + 1]
      OBVIOUS
    <2>2. PICK routing : routing = route(planConstraints(jv.req))
      OBVIOUS
    <2>3. PICK new : new = IF routing = <<>> THEN planned(begun, <<>>)
                           ELSE exchanging(begun, "plan", routing)
      OBVIOUS
    <2>4. job' = [job EXCEPT ![j] = new]
      <3>1. job' = [job EXCEPT ![j] = IF routing = <<>> THEN planned(begun, <<>>)
                                       ELSE exchanging(begun, "plan", routing)]
        BY <1>8, <2>1, <2>2, Zenon DEF startPlanning
      <3>2. QED
        BY <2>3, <3>1
    <2>5. Guarded(begun) /\ begun.req = jv.req
      <3>1. jv.pc # "calling"
        BY <1>2 DEF Guarded, Seen, RouteFields
      <3>2. /\ RouteFields \subseteq DOMAIN begun /\ begun.req = jv.req /\ begun.engines = jv.engines
            /\ begun.tools = jv.tools /\ begun.tried = jv.tried /\ begun.pc = jv.pc
        BY <1>4, <2>1 DEF RouteFields
      <3>3. QED
        BY <1>4, <3>1, <3>2, StaysGuarded, GuardedIsSeen
    <2>6. routing \in Seq(Admitted(begun.req))
      BY <1>5, <2>2, <2>5, ConstraintsKeepConfidentiality, RoutedAreAdmitted
    <2>7. CASE routing = <<>>
      BY <1>5, <2>3, <2>4, <2>5, <2>7, PlannedGuarded, GuardedIsSeen, GuardStep
    <2>8. CASE routing # <<>>
      BY <1>5, <2>3, <2>4, <2>5, <2>6, <2>8, ExchangeGuarded, GuardStep
    <2>9. QED
      BY <2>7, <2>8
  <1>9. QED
    BY <1>3, <1>6, <1>7, <1>8

LEMMA SettleGuarded ==
    ASSUME GuardInv, StoreOk, NEW j \in Jobs, NEW k \in Keys, NEW decision \in {"approved", "rejected"},
           Settle(j, k, decision)
    PROVE  GuardInv'
  <1>1. PICK p \in pend :
           /\ p.job = j /\ UNCHANGED <<win, attempts>>
           /\ \/ UNCHANGED job
              \/ job' = [job EXCEPT ![j].pc = "done", ![j].result = "rejected"]
              \/ dispatchMission(j, [job[j] EXCEPT !.settledBy = k, !.settledAt = now], TRUE,
                                 consumed(p))
    BY DEF Settle
  <1>2. /\ Guarded(job[j]) /\ RouteFields \subseteq DOMAIN job[j] /\ job[j].pc = "held"
        /\ win' \in Windows /\ attempts' \in Seq(Attempt)
    BY <1>1 DEF GuardInv, Guarded, Seen, StoreOk
  <1>3. CASE UNCHANGED job
    BY <1>1, <1>3 DEF GuardInv
  <1>4. CASE job' = [job EXCEPT ![j].pc = "done", ![j].result = "rejected"]
    <2>1. PICK new : new = [job[j] EXCEPT !.pc = "done", !.result = "rejected"]
      OBVIOUS
    <2>2. Guarded(new)
      BY <1>2, <2>1, LeavesGuarded, GuardedIsSeen DEF Places
    <2>3. job' = [job EXCEPT ![j] = new]
      BY <1>4, <2>1 DEF GuardInv
    <2>4. QED
      BY <1>2, <2>2, <2>3, GuardStep
  <1>5. CASE dispatchMission(j, [job[j] EXCEPT !.settledBy = k, !.settledAt = now], TRUE, consumed(p))
    <2>1. PICK jb : jb = [job[j] EXCEPT !.settledBy = k, !.settledAt = now]
      OBVIOUS
    <2>2. /\ RouteFields \subseteq DOMAIN jb /\ jb.req = job[j].req /\ jb.engines = job[j].engines
          /\ jb.tools = job[j].tools /\ jb.tried = job[j].tried /\ jb.pc = "held"
      BY <1>2, <2>1 DEF RouteFields
    <2>3. Guarded(jb)
      BY <1>2, <2>2, StaysGuarded, GuardedIsSeen
    <2>4. QED
      BY <1>1, <1>5, <2>1, <2>2, <2>3, DispatchMissionGuarded
  <1>6. QED
    BY <1>1, <1>3, <1>4, <1>5

LEMMA DispatchGuarded ==
    ASSUME GuardInv, NEW j \in Jobs, NEW k \in Keys, Dispatch(j, k)
    PROVE  GuardInv'
  <1>1. PICK r \in Missions :
           /\ dispatchMission(j, [Idle EXCEPT !.req = r, !.key = k], FALSE, pend)
           /\ UNCHANGED <<win, attempts>>
    BY DEF Dispatch
  <1>2. PICK jb : jb = [Idle EXCEPT !.req = r, !.key = k]
    OBVIOUS
  <1>3. /\ RouteFields \subseteq DOMAIN jb /\ jb.pc = "idle" /\ jb.engines = {} /\ jb.tools = {}
        /\ jb.tried = <<>>
    BY <1>2 DEF Idle, RouteFields
  <1>4. Guarded(jb)
    BY <1>3, ArrivalGuarded
  <1>5. QED
    BY <1>1, <1>2, <1>3, <1>4, DispatchMissionGuarded

LEMMA EndOfPlanGuarded ==
    ASSUME GuardInv, NEW j \in Jobs, EndOfPlan(j)
    PROVE  GuardInv'
  <1>1. PICK jb : jb = [job[j] EXCEPT !.exhausted = job[j].next <= Len(job[j].plan)]
    OBVIOUS
  <1>2. PICK routing : routing = route(synthesisConstraints(jb))
    OBVIOUS
  <1>3. /\ job[j].pc = "planned" /\ UNCHANGED win
        /\ \/ failMission(j, jb)
           \/ /\ job' = [job EXCEPT ![j] = exchanging(jb, "synthesis", routing)]
              /\ routing # <<>> /\ UNCHANGED attempts
           \/ \E lose \in BOOLEAN : finishMission(j, [jb EXCEPT !.spent = 0], lose)
    BY <1>1, <1>2, Zenon DEF EndOfPlan
  <1>4. /\ Guarded(job[j]) /\ RouteFields \subseteq DOMAIN job[j]
        /\ win' \in Windows /\ win \in Windows /\ attempts \in Seq(Attempt)
    BY <1>3 DEF GuardInv, Guarded, Seen
  <1>5. PICK jz : jz = [jb EXCEPT !.spent = 0]
    OBVIOUS
  <1>6. Guarded(jb) /\ Guarded(jz) /\ jb.req = job[j].req
    <2>1. /\ RouteFields \subseteq DOMAIN jb /\ jb.req = job[j].req /\ jb.engines = job[j].engines
          /\ jb.tools = job[j].tools /\ jb.tried = job[j].tried /\ jb.pc = "planned"
      BY <1>1, <1>3, <1>4 DEF RouteFields
    <2>2. /\ RouteFields \subseteq DOMAIN jz /\ jz.req = jb.req /\ jz.engines = jb.engines
          /\ jz.tools = jb.tools /\ jz.tried = jb.tried /\ jz.pc = "planned"
      BY <1>5, <2>1 DEF RouteFields
    <2>3. QED
      BY <1>4, <2>1, <2>2, StaysGuarded, GuardedIsSeen
  <1>7. CASE failMission(j, jb)
    <2>1. PICK new : new = [jb EXCEPT !.pc = "done", !.result = "failed"]
      OBVIOUS
    <2>2. job' = [job EXCEPT ![j] = new] /\ UNCHANGED attempts
      BY <1>7, <2>1, Zenon DEF failMission
    <2>3. Guarded(new)
      BY <1>6, <2>1, LeavesGuarded, GuardedIsSeen DEF Places
    <2>4. QED
      BY <1>4, <2>2, <2>3, GuardStep
  <1>8. CASE /\ job' = [job EXCEPT ![j] = exchanging(jb, "synthesis", routing)]
             /\ routing # <<>> /\ UNCHANGED attempts
    <2>1. routing \in Seq(Admitted(jb.req))
      BY <1>2, <1>4, ConstraintsKeepConfidentiality, RoutedAreAdmitted
    <2>2. Guarded(exchanging(jb, "synthesis", routing))
      BY <1>6, <1>8, <2>1, ExchangeGuarded
    <2>3. QED
      BY <1>4, <1>8, <2>2, GuardStep
  <1>9. ASSUME NEW lose \in BOOLEAN, finishMission(j, [jb EXCEPT !.spent = 0], lose) PROVE GuardInv'
    BY <1>4, <1>5, <1>6, <1>9, FinishGuarded, GuardedIsSeen
  <1>10. QED
    BY <1>3, <1>7, <1>8, <1>9

(* The tools of a worker fetch nothing for sovereign material.              *)
LEMMA ToolsKeepConfidentiality ==
    ASSUME NEW passport, NEW t, NEW knowledge
    PROVE  "web.fetch" \notin toolsRun(passport, t, knowledge, "sovereign")
  BY DEF toolsRun, invokeTool

LEMMA StartTaskGuarded ==
    ASSUME GuardInv, NEW j \in Jobs, StartTask(j)
    PROVE  GuardInv'
  <1>1. PICK t : t = job[j].plan[job[j].next]
    OBVIOUS
  <1> DEFINE passport == getPassport(t.agent)
             routing == route(workerConstraints(job[j], passport))
             ran == toolsRun(passport, t, job[j].req.knowledge, job[j].req.confidentiality)
             equipped == [job[j] EXCEPT !.tools = @ \cup ran]
             none == [equipped EXCEPT !.tried = <<>>, !.spent = 0]
  <1>2. /\ job[j].pc = "planned" /\ UNCHANGED win
        /\ \/ /\ routing # <<>> /\ UNCHANGED attempts
              /\ job' = [job EXCEPT ![j] = exchanging(equipped, "task", routing)]
           \/ \E lose \in BOOLEAN :
                 reportTask(j, [job[j] EXCEPT !.tried = <<>>, !.spent = 0], FALSE, lose)
           \/ \E lose \in BOOLEAN : reportTask(j, none, FALSE, lose)
    BY <1>1, Zenon DEF StartTask
  <1>3. /\ routing = route(workerConstraints(job[j], passport))
        /\ ran = toolsRun(passport, t, job[j].req.knowledge, job[j].req.confidentiality)
        /\ equipped = [job[j] EXCEPT !.tools = @ \cup ran]
        /\ none = [equipped EXCEPT !.tried = <<>>, !.spent = 0]
    OBVIOUS
  <1> HIDE DEF passport, routing, ran, equipped, none
  <1>4. /\ Guarded(job[j]) /\ RouteFields \subseteq DOMAIN job[j]
        /\ win' \in Windows /\ win \in Windows /\ attempts \in Seq(Attempt)
    BY <1>2 DEF GuardInv, Guarded, Seen
  <1>5. Guarded(equipped) /\ equipped.req = job[j].req /\ equipped.pc = "planned"
    <2>1. /\ RouteFields \subseteq DOMAIN equipped /\ equipped.req = job[j].req
          /\ equipped.engines = job[j].engines /\ equipped.tools = job[j].tools \cup ran
          /\ equipped.tried = job[j].tried /\ equipped.pc = "planned"
      BY <1>2, <1>3, <1>4 DEF RouteFields
    <2>2. job[j].req.confidentiality = "sovereign" => "web.fetch" \notin ran
      BY <1>2, <1>3, ToolsKeepConfidentiality
    <2>3. QED
      BY <1>4, <2>1, <2>2 DEF Guarded, Seen
  <1>6. ASSUME NEW old, Guarded(old), old.pc = "planned", NEW jb, jb = [old EXCEPT !.tried = <<>>, !.spent = 0]
        PROVE  Guarded(jb)
    <2>1. RouteFields \subseteq DOMAIN old
      BY <1>6 DEF Guarded, Seen
    <2>2. /\ RouteFields \subseteq DOMAIN jb /\ jb.req = old.req /\ jb.engines = old.engines
          /\ jb.tools = old.tools /\ jb.tried = <<>> /\ jb.pc = "planned"
      BY <1>6, <2>1 DEF RouteFields
    <2>3. QED
      BY <1>6, <2>2, StaysGuarded, GuardedIsSeen
  <1>7. CASE /\ routing # <<>> /\ UNCHANGED attempts
             /\ job' = [job EXCEPT ![j] = exchanging(equipped, "task", routing)]
    <2>1. routing \in Seq(Admitted(equipped.req))
      BY <1>2, <1>3, <1>4, <1>5, ConstraintsKeepConfidentiality, RoutedAreAdmitted
    <2>2. Guarded(exchanging(equipped, "task", routing))
      BY <1>5, <1>7, <2>1, ExchangeGuarded
    <2>3. QED
      BY <1>4, <1>7, <2>2, GuardStep
  <1>8. ASSUME NEW lose \in BOOLEAN, reportTask(j, [job[j] EXCEPT !.tried = <<>>, !.spent = 0], FALSE, lose)
        PROVE  GuardInv'
    <2>1. PICK jb : jb = [job[j] EXCEPT !.tried = <<>>, !.spent = 0]
      OBVIOUS
    <2>2. Guarded(jb)
      BY <1>2, <1>3, <1>4, <1>6, <2>1
    <2>3. QED
      BY <1>4, <1>8, <2>1, <2>2, ReportGuarded, GuardedIsSeen
  <1>9. ASSUME NEW lose \in BOOLEAN, reportTask(j, none, FALSE, lose) PROVE GuardInv'
    <2>1. Guarded(none)
      BY <1>2, <1>3, <1>5, <1>6
    <2>2. QED
      BY <1>4, <1>9, <2>1, ReportGuarded, GuardedIsSeen
  <1>10. QED
    BY <1>2, <1>3, <1>7, <1>8, <1>9

LEMMA ExchangeEndsGuarded ==
    ASSUME GuardInv, NEW j \in Jobs, NEW jb, Seen(jb), jb.phase \in Phases,
           NEW response, NEW answer, NEW lose, exchangeEnds(j, jb, response, answer, lose),
           win' \in Windows
    PROVE  GuardInv'
  <1>1. \/ \E result : terminate(j, jb, result, jb.spent, TRUE, lose)
        \/ /\ job' = [job EXCEPT ![j] = planned(jb, IF response.ok THEN answer ELSE <<>>)]
           /\ UNCHANGED attempts
        \/ reportTask(j, jb, response.ok, lose)
        \/ finishMission(j, jb, lose)
    <2>1. CASE jb.phase = "query"
      BY <2>1, Zenon DEF exchangeEnds
    <2>2. CASE jb.phase = "plan"
      <3>1. /\ job' = [job EXCEPT ![j] = planned(jb, IF response.ok THEN answer ELSE <<>>)]
            /\ UNCHANGED <<missions, rows, attempts, trail, faults>>
        BY <2>2, Zenon DEF exchangeEnds
      <3>2. QED
        BY <3>1
    <2>3. CASE jb.phase = "task"
      BY <2>3, Zenon DEF exchangeEnds
    <2>4. CASE jb.phase = "synthesis"
      BY <2>4, Zenon DEF exchangeEnds
    <2>5. QED
      BY <2>1, <2>2, <2>3, <2>4 DEF Phases
  <1>2. ASSUME NEW result, terminate(j, jb, result, jb.spent, TRUE, lose) PROVE GuardInv'
    BY <1>2, TerminateGuarded, GuardedIsSeen
  <1>3. CASE /\ job' = [job EXCEPT ![j] = planned(jb, IF response.ok THEN answer ELSE <<>>)]
             /\ UNCHANGED attempts
    <2>1. PICK tasks : tasks = IF response.ok THEN answer ELSE <<>>
      OBVIOUS
    <2>2. Guarded(planned(jb, tasks)) /\ attempts' \in Seq(Attempt)
      BY <1>3, PlannedGuarded, GuardedIsSeen DEF GuardInv
    <2>3. QED
      BY <1>3, <2>1, <2>2, GuardStep
  <1>4. CASE reportTask(j, jb, response.ok, lose)
    BY <1>4, ReportGuarded, GuardedIsSeen
  <1>5. CASE finishMission(j, jb, lose)
    BY <1>5, FinishGuarded, GuardedIsSeen
  <1>6. QED
    BY <1>1, <1>2, <1>3, <1>4, <1>5

(* A call goes to the next engine of the routing, which was admitted; its   *)
(* sample is recorded; and when more calls follow an engine is left.        *)
LEMMA RespondGuarded ==
    ASSUME GuardInv, NEW j \in Jobs, JobOk(job[j]), Respond(j)
    PROVE  GuardInv'
  <1>1. PICK outcome \in Outcomes, usage \in Usages, answer \in PlannerAnswers, lose \in BOOLEAN :
        LET entry == getCatalogueEntry(job[j].routing[Len(job[j].tried) + 1])
            response == invoke(entry, env, outcome, usage, job[j].req.computable)
            jb == called(job[j], entry, outcome, response)
            over == \/ response.ok \/ response.kind = "content-refused"
                    \/ Len(jb.tried) \in {MaxAttempts, Len(jb.routing)}
        IN  /\ job[j].pc = "calling"
            /\ outcome.k # "answer" => jb.failed <= MaxFailures
            /\ jb.phase # "plan" \/ ~over => answer = <<>>
            /\ win' = recordSample(win, entry.model, entry.ms, response.ok)
            /\ IF over THEN exchangeEnds(j, jb, response, answer, lose)
               ELSE /\ ~lose
                    /\ job' = [job EXCEPT ![j] = jb]
                    /\ UNCHANGED <<missions, rows, attempts, trail, faults>>
            /\ UNCHANGED <<now, deployed, keys, pend>>
    BY Zenon DEF Respond
  <1> DEFINE entry == getCatalogueEntry(job[j].routing[Len(job[j].tried) + 1])
             response == invoke(entry, env, outcome, usage, job[j].req.computable)
             jb == called(job[j], entry, outcome, response)
             over == \/ response.ok \/ response.kind = "content-refused"
                     \/ Len(jb.tried) \in {MaxAttempts, Len(jb.routing)}
  <1>2. /\ job[j].pc = "calling"
        /\ win' = recordSample(win, entry.model, entry.ms, response.ok)
        /\ IF over THEN exchangeEnds(j, jb, response, answer, lose)
           ELSE /\ ~lose
                /\ job' = [job EXCEPT ![j] = jb]
                /\ UNCHANGED <<missions, rows, attempts, trail, faults>>
    BY <1>1, Zenon
  <1>3. /\ jb = called(job[j], entry, outcome, response)
        /\ entry = getCatalogueEntry(job[j].routing[Len(job[j].tried) + 1])
        /\ response = invoke(entry, env, outcome, usage, job[j].req.computable)
        /\ ~over => Len(jb.tried) # Len(jb.routing)
    OBVIOUS
  <1> HIDE DEF entry, response, jb, over
  <1>4. /\ job[j].pc = "calling"
        /\ entry = getCatalogueEntry(job[j].routing[Len(job[j].tried) + 1])
        /\ response = invoke(entry, env, outcome, usage, job[j].req.computable)
        /\ jb = called(job[j], entry, outcome, response)
        /\ win' = recordSample(win, entry.model, entry.ms, response.ok)
        /\ \/ exchangeEnds(j, jb, response, answer, lose)
           \/ /\ job' = [job EXCEPT ![j] = jb] /\ UNCHANGED attempts
              /\ Len(jb.tried) # Len(jb.routing)
    BY <1>2, <1>3
  <1>5. PICK old, cost :
           /\ old = job[j]
           /\ jb = [old EXCEPT
                      !.tried = Append(@, [model |-> entry.model, ms |-> entry.ms, ok |-> response.ok]),
                      !.spent = @ + cost, !.charged = @ + cost,
                      !.failed = IF outcome.k = "answer" THEN @ ELSE @ + 1,
                      !.engines = IF response.kind \in {"credential-absent", "model-unsupported"}
                                  THEN @ ELSE @ \cup {entry.model}]
    <2>1. PICK cost : cost = computeActualCost(entry, response.input, response.output)
      OBVIOUS
    <2>2. PICK old : old = job[j]
      OBVIOUS
    <2>3. jb = called(old, entry, outcome, response)
      BY <1>4, <2>2
    <2>4. jb = [old EXCEPT
                  !.tried = Append(@, [model |-> entry.model, ms |-> entry.ms, ok |-> response.ok]),
                  !.spent = @ + cost, !.charged = @ + cost,
                  !.failed = IF outcome.k = "answer" THEN @ ELSE @ + 1,
                  !.engines = IF response.kind \in {"credential-absent", "model-unsupported"}
                              THEN @ ELSE @ \cup {entry.model}]
      BY <2>1, <2>3, Zenon DEF called
    <2>5. QED
      BY <2>2, <2>4, Zenon
  <1>6. /\ Guarded(old) /\ RouteFields \subseteq DOMAIN old /\ old.tried \in Seq(Attempt)
        /\ old.routing \in Seq(Admitted(old.req)) /\ Len(old.tried) < Len(old.routing)
        /\ win \in Windows /\ old.pc = "calling"
    BY <1>4, <1>5 DEF GuardInv, Guarded, Seen
  <1>7. old.routing[Len(old.tried) + 1] \in Admitted(old.req)
    <2>1. Len(old.tried) + 1 \in 1 .. Len(old.routing)
      BY <1>6
    <2>2. QED
      BY <1>6, <2>1
  <1>8. entry.model \in Admitted(old.req) /\ entry.model \in Models /\ EntryOk(entry)
    <2>1. PICK m : m = old.routing[Len(old.tried) + 1]
      OBVIOUS
    <2>2. m \in Models /\ m \in Admitted(old.req)
      BY <1>7, <2>1 DEF Admitted
    <2>3. entry = getCatalogueEntry(m)
      BY <1>4, <1>5, <2>1
    <2>4. QED
      BY <2>2, <2>3, EntryFound
  <1>9. response.ok \in BOOLEAN
    BY <1>4, ResponseIsTyped
  <1>10. win' \in Windows
    BY <1>4, <1>6, <1>8, <1>9, SampleRecorded DEF EntryOk
  <1>11. PICK attempt \in Attempt : attempt = [model |-> entry.model, ms |-> entry.ms, ok |-> response.ok]
    BY <1>8, <1>9 DEF Attempt, EntryOk
  <1>12. /\ RouteFields \subseteq DOMAIN jb /\ jb.req = old.req /\ jb.tools = old.tools
         /\ jb.engines \subseteq old.engines \cup {entry.model} /\ jb.pc = "calling"
         /\ jb.routing = old.routing /\ jb.tried = Append(old.tried, attempt)
    BY <1>5, <1>6, <1>11 DEF RouteFields
  <1>13. jb.phase \in Phases
    <2>1. job[j].phase \in Phases /\ ApprovalFields \subseteq DOMAIN job[j]
      BY <1>4 DEF JobOk
    <2>2. QED
      BY <1>5, <2>1 DEF ApprovalFields
  <1>14. jb.tried \in Seq(Attempt) /\ Len(jb.tried) = Len(old.tried) + 1
    BY <1>6, <1>12
  <1>15. jb.engines \subseteq Admitted(jb.req)
    BY <1>6, <1>8, <1>12 DEF Guarded, Seen
  <1>16. jb.req.confidentiality = "sovereign" => "web.fetch" \notin jb.tools
    BY <1>6, <1>12 DEF Guarded, Seen
  <1>17. CASE exchangeEnds(j, jb, response, answer, lose)
    <2>1. Seen(jb)
      BY <1>6, <1>12, <1>14, <1>15, <1>16 DEF Seen
    <2>2. QED
      BY <1>10, <1>13, <1>17, <2>1, ExchangeEndsGuarded
  <1>18. CASE /\ job' = [job EXCEPT ![j] = jb] /\ UNCHANGED attempts
              /\ Len(jb.tried) # Len(jb.routing)
    <2>1. Len(jb.tried) < Len(jb.routing)
      BY <1>6, <1>12, <1>14, <1>18
    <2>2. Guarded(jb)
      BY <1>6, <1>12, <1>14, <1>15, <1>16, <2>1 DEF Guarded, Seen
    <2>3. attempts' \in Seq(Attempt)
      BY <1>18 DEF GuardInv
    <2>4. QED
      BY <1>10, <1>18, <2>2, <2>3, GuardStep
  <1>19. QED
    BY <1>4, <1>17, <1>18

LEMMA InitGuarded == Init => GuardInv
  <1> SUFFICES ASSUME Init PROVE GuardInv
    OBVIOUS
  <1>1. win \in Windows
    <2>1. <<>> \in Seq(Sample)
      OBVIOUS
    <2>2. QED
      BY <2>1 DEF Init, EmptyWindows, Windows
  <1>2. attempts \in Seq(Attempt) /\ DOMAIN job = Jobs
    BY DEF Init
  <1>3. ASSUME NEW j \in Jobs PROVE Guarded(job[j])
    <2>1. job[j] = Idle
      BY DEF Init
    <2>2. /\ RouteFields \subseteq DOMAIN Idle /\ Idle.pc = "idle" /\ Idle.engines = {}
          /\ Idle.tools = {} /\ Idle.tried = <<>>
      BY DEF Idle, RouteFields
    <2>3. QED
      BY <2>1, <2>2, ArrivalGuarded
  <1>4. QED
    BY <1>1, <1>2, <1>3 DEF GuardInv

(* After a restart the windows are those the attempts table seeds, and no   *)
(* call is under way.                                                       *)
LEMMA RestartGuarded ==
    ASSUME GuardInv, Restart
    PROVE  GuardInv'
  <1>1. /\ win' = seedFromLedger(EmptyWindows, recentAttemptSamples(attempts, 50))
        /\ attempts' = attempts
        /\ job' = [j \in Jobs |-> IF job[j].pc \in {"retrieving", "calling", "planned"}
                                  THEN [job[j] EXCEPT !.pc = "lost"] ELSE job[j]]
    BY DEF Restart
  <1>2. recentAttemptSamples(attempts, 50) \in Seq(Attempt)
    <2>1. attempts \in Seq(Attempt)
      BY DEF GuardInv
    <2>2. PICK m \in 1 .. Len(attempts) + 1 : recentAttemptSamples(attempts, 50) = SubSeq(attempts, m, Len(attempts))
      <3>1. Len(attempts) \in Nat
        BY <2>1
      <3>2. PICK m : m = IF Len(attempts) > 50 * 20 THEN Len(attempts) - 50 * 20 + 1 ELSE 1
        OBVIOUS
      <3>3. m \in 1 .. Len(attempts) + 1
        BY <3>1, <3>2
      <3>4. recentAttemptSamples(attempts, 50) = SubSeq(attempts, m, Len(attempts))
        BY <3>2 DEF recentAttemptSamples
      <3>5. QED
        BY <3>3, <3>4
    <2>3. PICK n \in Nat : n = Len(attempts)
      BY <2>1
    <2>4. PICK q : q = SubSeq(attempts, m, n)
      OBVIOUS
    <2>5. q = [i \in 1 .. n - m + 1 |-> attempts[i + m - 1]]
      BY <2>1, <2>2, <2>3, <2>4
    <2>6. \A i \in 1 .. n - m + 1 : q[i] \in Attempt
      BY <2>1, <2>2, <2>3, <2>5
    <2>7. n - m + 1 \in Nat
      BY <2>2, <2>3
    <2>8. q \in Seq(Attempt)
      BY <2>5, <2>6, <2>7
    <2>9. QED
      BY <2>2, <2>3, <2>4, <2>8
  <1>3. EmptyWindows \in Windows
    <2>1. <<>> \in Seq(Sample)
      OBVIOUS
    <2>2. QED
      BY <2>1 DEF EmptyWindows, Windows
  <1>4. win' \in Windows
    BY <1>1, <1>2, <1>3, SeededAreWindows
  <1>5. ASSUME NEW j \in Jobs PROVE Guarded(job'[j])
    <2>1. Guarded(job[j]) /\ RouteFields \subseteq DOMAIN job[j]
      BY DEF GuardInv, Guarded, Seen
    <2>2. PICK new : new = [job[j] EXCEPT !.pc = "lost"]
      OBVIOUS
    <2>3. Guarded(new)
      BY <2>1, <2>2, LeavesGuarded, GuardedIsSeen DEF Places
    <2>4. job'[j] = new \/ job'[j] = job[j]
      BY <1>1, <2>2
    <2>5. QED
      BY <2>1, <2>3, <2>4
  <1>6. attempts' \in Seq(Attempt) /\ DOMAIN job' = Jobs
    BY <1>1 DEF GuardInv
  <1>7. QED
    BY <1>4, <1>5, <1>6 DEF GuardInv

LEMMA NextGuarded ==
    ASSUME Inv, GuardInv, [Next]_vars
    PROVE  GuardInv'
  <1>1. ASSUME NEW j \in Jobs, NEW k \in Keys, QueryArrives(j, k) PROVE GuardInv'
    BY <1>1, QueryArrivesGuarded
  <1>2. ASSUME NEW j \in Jobs, NEW k \in Keys, Dispatch(j, k) PROVE GuardInv'
    BY <1>2, DispatchGuarded
  <1>3. ASSUME NEW j \in Jobs, NEW k \in Keys, NEW d \in {"approved", "rejected"}, Settle(j, k, d)
        PROVE  GuardInv'
    BY <1>3, SettleGuarded DEF Inv
  <1>4. ASSUME NEW j \in Jobs, Retrieved(j) PROVE GuardInv'
    BY <1>4, RetrievedGuarded
  <1>5. ASSUME NEW j \in Jobs, StartTask(j) PROVE GuardInv'
    BY <1>5, StartTaskGuarded
  <1>6. ASSUME NEW j \in Jobs, EndOfPlan(j) PROVE GuardInv'
    BY <1>6, EndOfPlanGuarded
  <1>7. ASSUME NEW j \in Jobs, Respond(j) PROVE GuardInv'
    BY <1>7, RespondGuarded DEF Inv
  <1>8. CASE Restart
    BY <1>8, RestartGuarded
  <1>9. CASE UNCHANGED <<win, attempts, job>>
    BY <1>9 DEF GuardInv
  <1>10. ASSUME (\E k \in Keys : Revoke(k) \/ Reactivate(k)) \/ Tick \/ UNCHANGED vars PROVE GuardInv'
    <2>1. UNCHANGED <<win, attempts, job>>
      BY <1>10 DEF Revoke, Reactivate, Tick, vars
    <2>2. QED
      BY <1>9, <2>1
  <1>11. QED
    BY <1>1, <1>2, <1>3, <1>4, <1>5, <1>6, <1>7, <1>8, <1>10 DEF Next

LEMMA GuardHolds == Spec => []GuardInv
  <1>1. Init => GuardInv
    BY InitGuarded
  <1>2. Inv /\ GuardInv /\ [Next]_vars => GuardInv'
    BY NextGuarded
  <1>3. QED
    BY <1>1, <1>2, InvariantHolds, PTL DEF Spec

(* Engines that were handed the request are those the policy admits to its  *)
(* level: over the query, the plan, every worker, the synthesis and every   *)
(* fallback, whatever telemetry has been recorded, and after any restart.   *)
THEOREM ConfidentialityHolds == Spec => []ConfidentialStaysInside
  <1>1. GuardInv => ConfidentialStaysInside
    <2> SUFFICES ASSUME GuardInv, NEW j \in Jobs
                 PROVE LET levels == {getCatalogueEntry(m).sovereignty : m \in job[j].engines}
                       IN  /\ job[j].req.kind # "none" /\ job[j].req.confidentiality = "sovereign" =>
                                 (\A l \in levels : l >= 3) /\ "web.fetch" \notin job[j].tools
                           /\ job[j].req.kind # "none" /\ job[j].req.confidentiality = "restricted" =>
                                 \A l \in levels : l >= 1
      BY Zenon DEF ConfidentialStaysInside
    <2>1. PICK r : r = job[j].req
      OBVIOUS
    <2>2. /\ job[j].engines \subseteq Admitted(r)
          /\ r.confidentiality = "sovereign" => "web.fetch" \notin job[j].tools
      BY <2>1 DEF GuardInv, Guarded, Seen
    <2>3. ASSUME NEW m \in job[j].engines
          PROVE  /\ r.confidentiality = "sovereign" => getCatalogueEntry(m).sovereignty >= 3
                 /\ r.confidentiality = "restricted" => getCatalogueEntry(m).sovereignty >= 1
      <3>1. /\ m \in Models /\ r.confidentiality = "sovereign" => LevelOf(m) >= 3
            /\ r.confidentiality = "restricted" => LevelOf(m) >= 1
        BY <2>2 DEF Admitted
      <3>2. getCatalogueEntry(m).sovereignty = LevelOf(m)
        <4>1. m \in Models
          BY <2>2 DEF Admitted
        <4>2. QED
          BY <4>1, EntryFound DEF EntryOk
      <3>3. QED
        BY <2>2, <3>1, <3>2 DEF Admitted
    <2>4. QED
      BY <2>1, <2>2, <2>3
  <1>2. QED
    BY <1>1, GuardHolds, PTL

----------------------------------------------------------------------------
(* Sums over finite sets.  The library's induction theorems take an         *)
(* operator; these take the set of the arguments for which a claim holds.   *)

Pick(s) == CHOOSE x \in s : TRUE

\* The equation a fold of + satisfies on the sets in D.
Adds(g, f, D) ==
    \A s \in D : g[s] = IF s = {} THEN 0 ELSE f[Pick(s)] + g[s \ {Pick(s)}]

\* The recursion that defines a sum over S.
Solves(g, f, S) ==
    g = [s \in SUBSET S |-> IF s = {} THEN 0 ELSE f[Pick(s)] + g[s \ {Pick(s)}]]

LEMMA PickIsElement == ASSUME NEW s, s # {} PROVE Pick(s) \in s
  BY DEF Pick

(* The recursion that defines a sum has a solution.                         *)
LEMMA SumHasSolution ==
    ASSUME NEW S, IsFiniteSet(S), NEW f
    PROVE  \E g : Solves(g, f, S)
  <1> DEFINE Small(n) == {s \in SUBSET S : Cardinality(s) <= n}
             Good == {n \in Nat : \E g : DOMAIN g = SUBSET S /\ Adds(g, f, Small(n))}
  <1>1. \A T \in SUBSET S : /\ IsFiniteSet(T) /\ Cardinality(T) \in Nat
                            /\ Cardinality(T) <= Cardinality(S)
    BY FS_Subset, FS_CardinalityType
  <1>2. 0 \in Good
    <2> DEFINE g == [s \in SUBSET S |-> 0]
    <2>1. Small(0) \subseteq {{}}
      BY <1>1, FS_EmptySet
    <2>2. Adds(g, f, Small(0))
      BY <2>1 DEF Adds
    <2>3. QED
      BY <2>2
  <1>3. ASSUME NEW n \in Nat, n \in Good PROVE n + 1 \in Good
    <2>1. PICK g : DOMAIN g = SUBSET S /\ Adds(g, f, Small(n))
      BY <1>3
    <2> DEFINE h == [s \in SUBSET S |-> IF Cardinality(s) = n + 1
                                        THEN f[Pick(s)] + g[s \ {Pick(s)}] ELSE g[s]]
    <2>2. ASSUME NEW s \in Small(n + 1)
          PROVE  h[s] = IF s = {} THEN 0 ELSE f[Pick(s)] + h[s \ {Pick(s)}]
      <3>1. CASE s = {}
        <4>1. s \in Small(n) /\ Cardinality(s) = 0
          BY <3>1, FS_EmptySet
        <4>2. QED
          BY <2>1, <3>1, <4>1 DEF Adds
      <3>2. CASE s # {}
        <4>1. Pick(s) \in s
          BY <3>2, PickIsElement
        <4>2. /\ s \ {Pick(s)} \in SUBSET S
              /\ Cardinality(s \ {Pick(s)}) = Cardinality(s) - 1
          BY <1>1, <4>1, FS_RemoveElement
        <4>3. h[s \ {Pick(s)}] = g[s \ {Pick(s)}]
          BY <1>1, <4>2
        <4>4. CASE Cardinality(s) = n + 1
          BY <3>2, <4>3, <4>4
        <4>5. CASE Cardinality(s) # n + 1
          <5>1. s \in Small(n)
            BY <1>1, <4>5
          <5>2. g[s] = f[Pick(s)] + g[s \ {Pick(s)}]
            BY <2>1, <3>2, <5>1 DEF Adds
          <5>3. QED
            BY <3>2, <4>3, <4>5, <5>2
        <4>6. QED
          BY <4>4, <4>5
      <3>3. QED
        BY <3>1, <3>2
    <2>3. DOMAIN h = SUBSET S /\ Adds(h, f, Small(n + 1))
      BY <2>2 DEF Adds
    <2> HIDE DEF h, Small
    <2>4. \E k : DOMAIN k = SUBSET S /\ Adds(k, f, Small(n + 1))
      BY <2>3
    <2>5. QED
      BY <2>4
  <1>4. Cardinality(S) \in Good
    <2> HIDE DEF Good
    <2>1. Nat \subseteq Good
      BY <1>2, <1>3, CountingUp
    <2>2. QED
      BY <1>1, <2>1
  <1>5. PICK g : DOMAIN g = SUBSET S /\ Adds(g, f, Small(Cardinality(S)))
    BY <1>4
  <1>6. Small(Cardinality(S)) = SUBSET S
    BY <1>1
  <1> DEFINE h == [s \in SUBSET S |-> g[s]]
  <1>7. Solves(h, f, S)
    BY <1>5, <1>6 DEF Adds, Solves
  <1>8. QED
    BY <1>7

LEMMA SumIsFold ==
    ASSUME NEW S, IsFiniteSet(S), NEW f
    PROVE  \E g : Adds(g, f, SUBSET S) /\ SumFunctionOnSet(f, S) = g[S]
  <1> DEFINE iter == CHOOSE g : Solves(g, f, S)
  <1>1. Solves(iter, f, S)
    BY SumHasSolution, Zenon
  <1>2. SumFunctionOnSet(f, S) = iter[S]
    BY Zenon DEF SumFunctionOnSet, FoldFunctionOnSet, MapThenFoldSet, Pick, Solves
  <1> HIDE DEF iter
  <1>3. Adds(iter, f, SUBSET S)
    BY <1>1 DEF Adds, Solves
  <1>4. QED
    BY <1>2, <1>3

LEMMA SmallerFirst ==
    ASSUME NEW S, IsFiniteSet(S), NEW Good,
           \A T \in SUBSET S : (\A U \in SUBSET T : U # T => U \in Good) => T \in Good
    PROVE  SUBSET S \subseteq Good
  <1> DEFINE Sizes == {n \in Nat : \A T \in SUBSET S : Cardinality(T) <= n => T \in Good}
  <1>1. \A T \in SUBSET S : /\ IsFiniteSet(T) /\ Cardinality(T) \in Nat
                            /\ Cardinality(T) <= Cardinality(S)
    BY FS_Subset, FS_CardinalityType
  <1>2. ASSUME NEW T \in SUBSET S, NEW U \in SUBSET T, U # T
        PROVE  U \in SUBSET S /\ Cardinality(U) < Cardinality(T)
    <2>1. Cardinality(U) <= Cardinality(T) /\ (Cardinality(T) = Cardinality(U) => T = U)
      BY <1>1, FS_Subset
    <2>2. QED
      BY <1>1, <1>2, <2>1
  <1>3. 0 \in Sizes
    BY <1>1, <1>2
  <1>4. ASSUME NEW n \in Nat, n \in Sizes PROVE n + 1 \in Sizes
    BY <1>1, <1>2, <1>4
  <1> HIDE DEF Sizes
  <1>5. Cardinality(S) \in Sizes
    BY <1>1, <1>3, <1>4, CountingUp
  <1>6. QED
    BY <1>1, <1>5 DEF Sizes

LEMMA SumsAgree ==
    ASSUME NEW S, IsFiniteSet(S), NEW T \in SUBSET S, NEW f, NEW h,
           \A x \in T : f[x] = h[x],
           NEW g, Adds(g, f, SUBSET S)
    PROVE  SumFunctionOnSet(h, T) = g[T]
  <1>1. IsFiniteSet(T)
    BY FS_Subset
  <1>2. PICK k : Adds(k, h, SUBSET T) /\ SumFunctionOnSet(h, T) = k[T]
    BY <1>1, SumIsFold
  <1> DEFINE Good == {U \in SUBSET T : k[U] = g[U]}
  <1>3. ASSUME NEW U \in SUBSET T, \A V \in SUBSET U : V # U => V \in Good
        PROVE  U \in Good
    <2>1. CASE U = {}
      BY <1>2, <2>1 DEF Adds
    <2>2. CASE U # {}
      <3>1. Pick(U) \in U
        BY <2>2, PickIsElement
      <3>2. U \ {Pick(U)} \in Good
        BY <1>3, <3>1
      <3>3. k[U] = h[Pick(U)] + k[U \ {Pick(U)}] /\ g[U] = f[Pick(U)] + g[U \ {Pick(U)}]
        BY <1>2, <2>2 DEF Adds
      <3>4. QED
        BY <3>1, <3>2, <3>3
    <2>3. QED
      BY <2>1, <2>2
  <1> HIDE DEF Good
  <1>4. T \in Good
    BY <1>1, <1>3, SmallerFirst
  <1>5. QED
    BY <1>2, <1>4 DEF Good

(* A sum depends on the function on the set alone.                          *)
LEMMA SumSameOn ==
    ASSUME NEW S, IsFiniteSet(S), NEW f, NEW h, \A x \in S : f[x] = h[x]
    PROVE  SumFunctionOnSet(f, S) = SumFunctionOnSet(h, S)
  <1>1. PICK g : Adds(g, f, SUBSET S) /\ SumFunctionOnSet(f, S) = g[S]
    BY SumIsFold
  <1>2. SumFunctionOnSet(h, S) = g[S]
    BY <1>1, SumsAgree
  <1>3. QED
    BY <1>1, <1>2

LEMMA SumEmpty == ASSUME NEW f PROVE SumFunctionOnSet(f, {}) = 0
  BY SumIsFold, FS_EmptySet DEF Adds

LEMMA SumPicks ==
    ASSUME NEW S, IsFiniteSet(S), NEW f, S # {}
    PROVE  SumFunctionOnSet(f, S) = f[Pick(S)] + SumFunctionOnSet(f, S \ {Pick(S)})
  <1>1. PICK g : Adds(g, f, SUBSET S) /\ SumFunctionOnSet(f, S) = g[S]
    BY SumIsFold
  <1>2. SumFunctionOnSet(f, S \ {Pick(S)}) = g[S \ {Pick(S)}]
    BY <1>1, SumsAgree
  <1>3. QED
    BY <1>1, <1>2 DEF Adds

LEMMA SumType ==
    ASSUME NEW S, IsFiniteSet(S), NEW f, \A x \in S : f[x] \in Nat
    PROVE  SumFunctionOnSet(f, S) \in Nat
  <1> DEFINE Good == {T \in SUBSET S : SumFunctionOnSet(f, T) \in Nat}
  <1>1. ASSUME NEW T \in SUBSET S, \A U \in SUBSET T : U # T => U \in Good
        PROVE  T \in Good
    <2>1. CASE T = {}
      BY <2>1, SumEmpty
    <2>2. CASE T # {}
      <3>1. Pick(T) \in T /\ IsFiniteSet(T)
        BY <2>2, PickIsElement, FS_Subset
      <3>2. T \ {Pick(T)} \in Good
        BY <1>1, <3>1
      <3>3. SumFunctionOnSet(f, T) = f[Pick(T)] + SumFunctionOnSet(f, T \ {Pick(T)})
        BY <2>2, <3>1, SumPicks
      <3>4. QED
        BY <3>1, <3>2, <3>3
    <2>3. QED
      BY <2>1, <2>2
  <1> HIDE DEF Good
  <1>2. S \in Good
    BY <1>1, SmallerFirst
  <1>3. QED
    BY <1>2 DEF Good

(* A sum is the value at any element plus the sum over the others.          *)
LEMMA SumWithout ==
    ASSUME NEW S, IsFiniteSet(S), NEW f, \A x \in S : f[x] \in Nat, NEW y \in S
    PROVE  SumFunctionOnSet(f, S) = f[y] + SumFunctionOnSet(f, S \ {y})
  <1> DEFINE Sum(T) == SumFunctionOnSet(f, T)
             Good == {T \in SUBSET S : \A x \in T : Sum(T) = f[x] + Sum(T \ {x})}
  <1>1. \A T \in SUBSET S : IsFiniteSet(T) /\ Sum(T) \in Nat
    BY FS_Subset, SumType
  <1>2. ASSUME NEW T \in SUBSET S, \A U \in SUBSET T : U # T => U \in Good
        PROVE  T \in Good
    <2> SUFFICES ASSUME NEW x \in T PROVE Sum(T) = f[x] + Sum(T \ {x})
      OBVIOUS
    <2> DEFINE p == Pick(T)
    <2>1. p \in T
      BY PickIsElement
    <2>2. Sum(T) = f[p] + Sum(T \ {p})
      BY <1>1, SumPicks
    <2> HIDE DEF p
    <2>3. CASE p = x
      BY <2>2, <2>3
    <2>4. CASE p # x
      <3>1. T \ {p} \in Good /\ T \ {x} \in Good
        BY <1>2, <2>1
      <3>2. Sum(T \ {p}) = f[x] + Sum((T \ {p}) \ {x})
        BY <2>4, <3>1
      <3>3. Sum(T \ {x}) = f[p] + Sum((T \ {x}) \ {p})
        BY <2>1, <2>4, <3>1
      <3>4. (T \ {p}) \ {x} = (T \ {x}) \ {p} /\ (T \ {p}) \ {x} \in SUBSET S
        OBVIOUS
      <3>5. Sum((T \ {p}) \ {x}) \in Nat /\ f[x] \in Nat /\ f[p] \in Nat
        BY <1>1, <2>1, <3>4
      <3>6. Sum((T \ {x}) \ {p}) = Sum((T \ {p}) \ {x})
        BY <3>4
      <3> HIDE DEF Sum, Good
      <3>7. f[p] + (f[x] + Sum((T \ {p}) \ {x})) = f[x] + (f[p] + Sum((T \ {p}) \ {x}))
        BY <3>5
      <3>8. QED
        BY <2>2, <3>2, <3>3, <3>6, <3>7
    <2>5. QED
      BY <2>3, <2>4
  <1> HIDE DEF Good
  <1>3. S \in Good
    BY <1>2, SmallerFirst
  <1>4. QED
    BY <1>3 DEF Good

(* Where every value is at most another's, so is the sum.                   *)
LEMMA SumMonotone ==
    ASSUME NEW S, IsFiniteSet(S), NEW f, NEW h,
           \A x \in S : f[x] \in Nat /\ h[x] \in Nat /\ f[x] <= h[x]
    PROVE  SumFunctionOnSet(f, S) <= SumFunctionOnSet(h, S)
  <1> DEFINE Good == {T \in SUBSET S : SumFunctionOnSet(f, T) <= SumFunctionOnSet(h, T)}
  <1>1. \A T \in SUBSET S : /\ IsFiniteSet(T)
                            /\ SumFunctionOnSet(f, T) \in Nat /\ SumFunctionOnSet(h, T) \in Nat
    BY FS_Subset, SumType
  <1>2. {} \in Good
    BY SumEmpty
  <1>3. ASSUME NEW T \in SUBSET S, NEW x \in S \ T, T \in Good PROVE T \cup {x} \in Good
    <2>1. (T \cup {x}) \ {x} = T /\ T \cup {x} \in SUBSET S
      BY <1>3
    <2>2. /\ SumFunctionOnSet(f, T \cup {x}) = f[x] + SumFunctionOnSet(f, T)
          /\ SumFunctionOnSet(h, T \cup {x}) = h[x] + SumFunctionOnSet(h, T)
      <3>1. IsFiniteSet(T \cup {x}) /\ x \in T \cup {x}
        BY <1>1, <2>1
      <3>2. QED
        BY <2>1, <3>1, SumWithout
    <2>3. QED
      BY <1>1, <1>3, <2>1, <2>2
  <1> HIDE DEF Good
  <1>4. S \in Good
    BY <1>2, <1>3, AddingElements
  <1>5. QED
    BY <1>4 DEF Good

(* The sum of two functions on their sets is the sum of their pointwise sum *)
(* on a set that holds both, if each is 0 outside its own.                  *)
LEMMA SumsAdd ==
    ASSUME NEW S, IsFiniteSet(S), NEW f, NEW h, NEW k,
           \A x \in S : f[x] \in Nat /\ h[x] \in Nat /\ k[x] = f[x] + h[x]
    PROVE  SumFunctionOnSet(k, S) = SumFunctionOnSet(f, S) + SumFunctionOnSet(h, S)
  <1> DEFINE Good == {T \in SUBSET S : SumFunctionOnSet(k, T) =
                                           SumFunctionOnSet(f, T) + SumFunctionOnSet(h, T)}
  <1>1. \A T \in SUBSET S : /\ IsFiniteSet(T)
                            /\ SumFunctionOnSet(f, T) \in Nat /\ SumFunctionOnSet(h, T) \in Nat
    BY FS_Subset, SumType
  <1>2. {} \in Good
    BY SumEmpty
  <1>3. ASSUME NEW T \in SUBSET S, NEW x \in S \ T, T \in Good PROVE T \cup {x} \in Good
    <2>1. (T \cup {x}) \ {x} = T /\ T \cup {x} \in SUBSET S
      BY <1>3
    <2>2. /\ SumFunctionOnSet(f, T \cup {x}) = f[x] + SumFunctionOnSet(f, T)
          /\ SumFunctionOnSet(h, T \cup {x}) = h[x] + SumFunctionOnSet(h, T)
          /\ SumFunctionOnSet(k, T \cup {x}) = k[x] + SumFunctionOnSet(k, T)
      <3>1. IsFiniteSet(T \cup {x}) /\ x \in T \cup {x}
        BY <1>1, <2>1
      <3>2. QED
        BY <2>1, <3>1, SumWithout
    <2>3. QED
      BY <1>1, <1>3, <2>1, <2>2
  <1> HIDE DEF Good
  <1>4. S \in Good
    BY <1>2, <1>3, AddingElements
  <1>5. QED
    BY <1>4 DEF Good

LEMMA SumOfSupport ==
    ASSUME NEW S, IsFiniteSet(S), NEW T \in SUBSET S, NEW f,
           \A x \in S : f[x] \in Nat, \A x \in S \ T : f[x] = 0
    PROVE  SumFunctionOnSet(f, S) = SumFunctionOnSet(f, T)
  <1> DEFINE Good == {U \in SUBSET (S \ T) :
                        SumFunctionOnSet(f, T \cup U) = SumFunctionOnSet(f, T)}
  <1>1. {} \in Good
    BY T \cup {} = T
  <1>2. ASSUME NEW U \in SUBSET (S \ T), NEW x \in (S \ T) \ U, U \in Good
        PROVE  U \cup {x} \in Good
    <2>1. /\ (T \cup (U \cup {x})) \ {x} = T \cup U /\ T \cup (U \cup {x}) \in SUBSET S
          /\ T \cup U \in SUBSET S
      BY <1>2
    <2>2. SumFunctionOnSet(f, T \cup (U \cup {x})) = f[x] + SumFunctionOnSet(f, T \cup U)
      <3>1. IsFiniteSet(T \cup (U \cup {x})) /\ x \in T \cup (U \cup {x})
        BY <2>1, FS_Subset
      <3>2. QED
        BY <2>1, <3>1, SumWithout
    <2>3. SumFunctionOnSet(f, T \cup U) \in Nat
      BY <2>1, FS_Subset, SumType
    <2>4. QED
      BY <1>2, <2>2, <2>3
  <1>3. IsFiniteSet(S \ T)
    BY FS_Subset
  <1> HIDE DEF Good
  <1>4. S \ T \in Good
    BY <1>1, <1>2, <1>3, AddingElements
  <1>5. T \cup (S \ T) = S
    OBVIOUS
  <1>6. QED
    BY <1>4, <1>5 DEF Good

LEMMA SumChanged ==
    ASSUME NEW S, IsFiniteSet(S), NEW f, NEW h, NEW y \in S,
           \A x \in S : f[x] \in Nat /\ h[x] \in Nat,
           \A x \in S \ {y} : f[x] = h[x]
    PROVE  SumFunctionOnSet(h, S) + f[y] = SumFunctionOnSet(f, S) + h[y]
  <1>1. /\ SumFunctionOnSet(f, S) = f[y] + SumFunctionOnSet(f, S \ {y})
        /\ SumFunctionOnSet(h, S) = h[y] + SumFunctionOnSet(h, S \ {y})
    BY SumWithout
  <1>2. IsFiniteSet(S \ {y})
    BY FS_Subset
  <1>3. SumFunctionOnSet(f, S \ {y}) = SumFunctionOnSet(h, S \ {y})
    BY <1>2, SumSameOn
  <1>4. SumFunctionOnSet(f, S \ {y}) \in Nat
    BY <1>2, SumType
  <1>5. QED
    BY <1>1, <1>3, <1>4

----------------------------------------------------------------------------
(* The ledger.  What a job knows of its rows: before and while its first    *)
(* exchange runs it has none; while its plan is carried out it has those of *)
(* the tasks before the next, whose names differ; and as long as no write   *)
(* was lost its rows, its planner's cost and the running exchange make up   *)
(* what the engines charged.                                                *)

SpendFields ==
    {"pc", "phase", "req", "plan", "next", "spent", "planCost", "total", "charged", "lost"}

RowSum(rs) == SumFunctionOnSet(rs, DOMAIN rs)

RowsOk(rs) == IsFiniteSet(DOMAIN rs) /\ \A l \in DOMAIN rs : rs[l] \in Nat

Fresh(jb, rs) == DOMAIN rs = {} /\ jb.planCost = 0 /\ ~jb.lost /\ jb.next = 1

Working(jb, rs) ==
    /\ jb.plan \in Seq(PlannedTask) /\ DistinctIds(jb.plan)
    /\ jb.next \in Nat \ {0}
    /\ \A l \in DOMAIN rs : \E i \in DOMAIN jb.plan : i < jb.next /\ l = TaskRow(jb.plan[i])

Balanced(jb, rs) ==
    /\ SpendFields \subseteq DOMAIN jb
    /\ jb.spent \in Nat /\ jb.planCost \in Nat /\ jb.charged \in Nat /\ jb.lost \in BOOLEAN
    /\ RowsOk(rs)
    /\ ~jb.lost => jb.charged = RowSum(rs) + jb.planCost + jb.spent

LedgerOk(jb, rs) ==
    /\ Balanced(jb, rs)
    /\ jb.pc \in {"idle", "retrieving", "held"} => Fresh(jb, rs) /\ jb.spent = 0
    /\ jb.pc = "calling" /\ jb.phase \in {"query", "plan"} => Fresh(jb, rs)
    /\ jb.pc = "planned" => Working(jb, rs) /\ jb.spent = 0
    /\ jb.pc = "calling" /\ jb.phase \in {"task", "synthesis"} => Working(jb, rs)
    /\ jb.pc = "calling" /\ jb.phase = "task" => jb.next \in DOMAIN jb.plan
    /\ jb.pc = "held" \/ (jb.pc = "calling" /\ jb.phase = "plan") => jb.req.maxTasks \in Nat

SpendInv ==
    /\ DOMAIN job = Jobs /\ DOMAIN rows = Jobs
    /\ \A j \in Jobs : LedgerOk(job[j], rows[j])

LEMMA NoRowsSum ==
    ASSUME NEW rs, DOMAIN rs = {}
    PROVE  RowsOk(rs) /\ RowSum(rs) = 0
  BY FS_EmptySet, SumEmpty DEF RowsOk, RowSum

\* The rows u are the rows rs and one more, of that label and that cost.
RowAdded(u, rs, label, cost) ==
    /\ DOMAIN u = DOMAIN rs \cup {label} /\ RowsOk(u)
    /\ RowSum(rs) \in Nat /\ RowSum(u) = RowSum(rs) + cost

Unlabelled(rs, label) == label \notin DOMAIN rs

(* A row of a new label adds its cost.                                      *)
LEMMA UpsertAdds ==
    ASSUME NEW rs, RowsOk(rs), NEW label, Unlabelled(rs, label), NEW cost \in Nat,
           NEW u, u = upsertRow(rs, label, cost)
    PROVE  RowAdded(u, rs, label, cost)
  <1>1. PICK D : D = DOMAIN rs
    OBVIOUS
  <1>2. /\ DOMAIN u = D \cup {label} /\ u[label] = cost /\ \A l \in D : u[l] = rs[l]
        /\ \A l \in D : rs[l] \in Nat
    BY <1>1 DEF upsertRow, RowsOk, Unlabelled
  <1>3. IsFiniteSet(D)
    BY <1>1 DEF RowsOk
  <1>4. IsFiniteSet(D \cup {label})
    BY <1>3, FS_AddElement
  <1>5. \A l \in D \cup {label} : u[l] \in Nat
    BY <1>2
  <1>6. (D \cup {label}) \ {label} = D
    BY <1>1 DEF Unlabelled
  <1>7. SumFunctionOnSet(u, D \cup {label}) = u[label] + SumFunctionOnSet(u, (D \cup {label}) \ {label})
    BY <1>4, <1>5, SumWithout
  <1>8. SumFunctionOnSet(u, D) = SumFunctionOnSet(rs, D)
    BY <1>2, <1>3, SumSameOn
  <1>9. SumFunctionOnSet(rs, D) \in Nat
    BY <1>2, <1>3, SumType
  <1>10. QED
    BY <1>1, <1>2, <1>4, <1>5, <1>6, <1>7, <1>8, <1>9 DEF RowsOk, RowSum, RowAdded

\* Of the rows only those of job j change, to rs.
RowsOnly(j, rs) ==
    DOMAIN rows' = Jobs /\ rows'[j] = rs /\ \A i \in Jobs : i # j => rows'[i] = rows[i]

LEMMA RowsStay ==
    ASSUME SpendInv, NEW j \in Jobs, UNCHANGED rows
    PROVE  RowsOnly(j, rows[j])
  BY DEF SpendInv, RowsOnly

LEMMA RowWritten ==
    ASSUME SpendInv, NEW j \in Jobs, NEW label, NEW cost, NEW lose \in BOOLEAN,
           writeRow(j, label, cost, lose)
    PROVE  /\ lose => RowsOnly(j, rows[j])
           /\ ~lose => RowsOnly(j, upsertRow(rows[j], label, cost))
  <1>1. DOMAIN rows = Jobs
    BY DEF SpendInv
  <1>2. PICK u : u = upsertRow(rows[j], label, cost)
    OBVIOUS
  <1>3. rows' = IF lose THEN rows ELSE [rows EXCEPT ![j] = u]
    BY <1>2, Zenon DEF writeRow
  <1>4. QED
    BY <1>1, <1>2, <1>3 DEF RowsOnly

LEMMA LedgerStep ==
    ASSUME SpendInv, NEW j \in Jobs, NEW jb, NEW rs, LedgerOk(jb, rs),
           job' = [job EXCEPT ![j] = jb], RowsOnly(j, rs)
    PROVE  SpendInv'
  <1>1. /\ DOMAIN job' = Jobs /\ job'[j] = jb
        /\ \A i \in Jobs : i # j => job'[i] = job[i]
    BY DEF SpendInv
  <1>2. /\ DOMAIN rows' = Jobs /\ rows'[j] = rs
        /\ \A i \in Jobs : i # j => rows'[i] = rows[i]
    BY DEF RowsOnly
  <1>3. \A i \in Jobs : LedgerOk(job'[i], rows'[i])
    BY <1>1, <1>2 DEF SpendInv
  <1>4. QED
    BY <1>1, <1>2, <1>3 DEF SpendInv

\* jb has the plan, the request and the sums of old.
Carries(jb, old) ==
    /\ SpendFields \subseteq DOMAIN jb
    /\ jb.plan = old.plan /\ jb.next = old.next /\ jb.req = old.req
    /\ jb.spent = old.spent /\ jb.planCost = old.planCost /\ jb.charged = old.charged
    /\ jb.lost = old.lost

LEMMA CarriedOn ==
    ASSUME NEW old, NEW jb, Carries(jb, old), NEW rs, Balanced(old, rs)
    PROVE  /\ Balanced(jb, rs)
           /\ Fresh(old, rs) => Fresh(jb, rs)
           /\ Working(old, rs) => Working(jb, rs)
  BY DEF Carries, Balanced, Fresh, Working

(* A job that ends keeps its account.                                       *)
LEMMA EndsLedgered ==
    ASSUME NEW old, NEW jb, Carries(jb, old), jb.pc \in {"done", "lost"}, NEW rs, Balanced(old, rs)
    PROVE  LedgerOk(jb, rs)
  <1>1. Balanced(jb, rs)
    BY CarriedOn
  <1>2. QED
    BY <1>1 DEF LedgerOk

(* An exchange begins with nothing spent in it.                             *)
LEMMA ExchangeLedgered ==
    ASSUME NEW old, NEW rs, Balanced(old, rs), old.spent = 0, NEW phase \in Phases, NEW routing,
           phase \in {"query", "plan"} => Fresh(old, rs),
           phase \in {"task", "synthesis"} => Working(old, rs),
           phase = "task" => old.next \in DOMAIN old.plan,
           phase = "plan" => old.req.maxTasks \in Nat,
           NEW jb, jb = exchanging(old, phase, routing)
    PROVE  LedgerOk(jb, rs)
  <1>1. SpendFields \subseteq DOMAIN old
    BY DEF Balanced
  <1>2. Carries(jb, old) /\ jb.pc = "calling" /\ jb.phase = phase
    BY <1>1 DEF exchanging, Carries, SpendFields
  <1>3. /\ Balanced(jb, rs) /\ jb.next = old.next /\ jb.plan = old.plan /\ jb.req = old.req
        /\ phase \in {"query", "plan"} => Fresh(jb, rs)
        /\ phase \in {"task", "synthesis"} => Working(jb, rs)
    BY <1>2, CarriedOn DEF Carries
  <1>4. QED
    BY <1>2, <1>3 DEF LedgerOk

(* The plan's own cost is kept in the job.                                  *)
LEMMA PlannedLedgered ==
    ASSUME NEW old, NEW rs, Balanced(old, rs), Fresh(old, rs), old.req.maxTasks \in Nat,
           NEW answer \in Seq(PlannedTask), NEW jb, jb = planned(old, answer)
    PROVE  LedgerOk(jb, rs)
  <1>1. PICK plan : plan = planFrom(answer, old.req.confidentiality, old.req.maxTasks, old.req.evidence)
    OBVIOUS
  <1>2. plan \in Seq(PlannedTask) /\ DistinctIds(plan)
    BY <1>1, PlanFromAnswer DEF Executable
  <1>3. jb = [old EXCEPT !.pc = "planned", !.planCost = old.spent, !.total = old.spent,
                         !.spent = 0, !.plan = plan]
    BY <1>1, Zenon DEF planned
  <1>4. SpendFields \subseteq DOMAIN old
    BY DEF Balanced
  <1>5. /\ SpendFields \subseteq DOMAIN jb /\ jb.pc = "planned" /\ jb.planCost = old.spent
        /\ jb.spent = 0 /\ jb.plan = plan /\ jb.next = old.next /\ jb.charged = old.charged
        /\ jb.lost = old.lost
    BY <1>3, <1>4 DEF SpendFields
  <1>6. Balanced(jb, rs)
    BY <1>5, NoRowsSum DEF Balanced, Fresh
  <1>7. Working(jb, rs)
    BY <1>2, <1>5 DEF Working, Fresh
  <1>8. QED
    BY <1>5, <1>6, <1>7 DEF LedgerOk

(* terminate(): a query that ends has one row, of what was spent.           *)
LEMMA TerminateLedgered ==
    ASSUME SpendInv, NEW j \in Jobs, NEW jb, Balanced(jb, rows[j]), Fresh(jb, rows[j]),
           NEW result, NEW governed, NEW lose \in BOOLEAN, NEW cost, cost = jb.spent,
           terminate(j, jb, result, cost, governed, lose)
    PROVE  SpendInv'
  <1>1. PICK new : new = [jb EXCEPT !.pc = "done", !.result = result, !.total = cost, !.spent = 0,
                                    !.lost = lose]
    OBVIOUS
  <1>2. job' = [job EXCEPT ![j] = new] /\ writeRow(j, RequestRow, cost, lose)
    BY <1>1 DEF terminate
  <1>3. PICK rs : rs = rows[j]
    OBVIOUS
  <1>4. PICK label, u : label = RequestRow /\ u = upsertRow(rs, label, cost)
    OBVIOUS
  <1>5. /\ SpendFields \subseteq DOMAIN jb /\ jb.spent \in Nat /\ jb.charged \in Nat /\ RowsOk(rs)
        /\ jb.planCost = 0 /\ ~jb.lost /\ DOMAIN rs = {}
        /\ jb.charged = RowSum(rs) + jb.planCost + jb.spent
    BY <1>3 DEF Balanced, Fresh
  <1>6. RowsOk(u) /\ RowSum(rs) \in Nat /\ RowSum(u) = RowSum(rs) + cost
    <2>1. Unlabelled(rs, label) /\ cost \in Nat
      BY <1>5 DEF Unlabelled
    <2>2. RowAdded(u, rs, label, cost)
      BY <1>4, <1>5, <2>1, UpsertAdds
    <2>3. QED
      BY <2>2 DEF RowAdded
  <1>7. /\ SpendFields \subseteq DOMAIN new /\ new.pc = "done" /\ new.spent = 0 /\ new.lost = lose
        /\ new.planCost = 0 /\ new.charged = jb.charged
    BY <1>1, <1>5 DEF SpendFields
  <1>8. CASE lose
    <2>1. LedgerOk(new, rs)
      BY <1>5, <1>7, <1>8 DEF LedgerOk, Balanced
    <2>2. QED
      BY <1>2, <1>3, <1>8, <2>1, RowWritten, LedgerStep
  <1>9. CASE ~lose
    <2>1. LedgerOk(new, u)
      BY <1>5, <1>6, <1>7, <1>9 DEF LedgerOk, Balanced
    <2>2. RowsOnly(j, u)
      BY <1>2, <1>3, <1>4, <1>9, RowWritten
    <2>3. QED
      BY <1>2, <2>1, <2>2, LedgerStep
  <1>10. QED
    BY <1>8, <1>9

(* reportTask(): the row of a task is new, because the tasks before it have *)
(* other names.                                                             *)
LEMMA ReportLedgered ==
    ASSUME SpendInv, NEW j \in Jobs, NEW jb, Balanced(jb, rows[j]), Working(jb, rows[j]),
           jb.next \in DOMAIN jb.plan, NEW ok, NEW lose \in BOOLEAN, reportTask(j, jb, ok, lose)
    PROVE  SpendInv'
  <1>1. PICK t : t = jb.plan[jb.next]
    OBVIOUS
  <1>2. PICK new, good, bad, total :
           /\ new = [jb EXCEPT !.pc = "planned", !.next = jb.next + 1, !.total = total, !.spent = 0,
                               !.good = good, !.bad = bad, !.lost = jb.lost \/ lose]
           /\ job' = [job EXCEPT ![j] = new]
           /\ writeRow(j, TaskRow(t), jb.spent, lose)
    <2>1. PICK good, bad :
             /\ good = IF ok THEN jb.good \cup {t.id} ELSE jb.good
             /\ bad = IF ok THEN jb.bad ELSE jb.bad \cup {t.id}
      OBVIOUS
    <2>2. /\ writeRow(j, TaskRow(t), jb.spent, lose)
          /\ job' = [job EXCEPT ![j] =
                        [jb EXCEPT !.pc = "planned", !.next = @ + 1, !.total = @ + jb.spent, !.spent = 0,
                                   !.good = IF ok THEN @ \cup {t.id} ELSE @,
                                   !.bad = IF ok THEN @ ELSE @ \cup {t.id}, !.lost = @ \/ lose]]
      BY <1>1, Zenon DEF reportTask
    <2>3. [jb EXCEPT !.pc = "planned", !.next = @ + 1, !.total = @ + jb.spent, !.spent = 0,
                     !.good = IF ok THEN @ \cup {t.id} ELSE @,
                     !.bad = IF ok THEN @ ELSE @ \cup {t.id}, !.lost = @ \/ lose]
          = [jb EXCEPT !.pc = "planned", !.next = jb.next + 1, !.total = jb.total + jb.spent, !.spent = 0,
                       !.good = good, !.bad = bad, !.lost = jb.lost \/ lose]
      BY <2>1
    <2>4. QED
      BY <2>2, <2>3
  <1>3. PICK rs : rs = rows[j]
    OBVIOUS
  <1>4. PICK label, cost, u :
           label = TaskRow(t) /\ cost = jb.spent /\ u = upsertRow(rs, label, cost)
    OBVIOUS
  <1>5. /\ SpendFields \subseteq DOMAIN jb /\ jb.spent \in Nat /\ jb.charged \in Nat
        /\ jb.planCost \in Nat /\ jb.lost \in BOOLEAN /\ RowsOk(rs)
        /\ ~jb.lost => jb.charged = RowSum(rs) + jb.planCost + jb.spent
    BY <1>3 DEF Balanced
  <1>6. /\ jb.plan \in Seq(PlannedTask) /\ DistinctIds(jb.plan) /\ jb.next \in Nat \ {0}
        /\ \A l \in DOMAIN rs : \E i \in DOMAIN jb.plan : i < jb.next /\ l = TaskRow(jb.plan[i])
        /\ DOMAIN jb.plan \subseteq Nat
    BY <1>3 DEF Working
  <1>7. label \notin DOMAIN rs
    <2>1. SUFFICES ASSUME label \in DOMAIN rs PROVE FALSE
      OBVIOUS
    <2>2. PICK i \in DOMAIN jb.plan : i < jb.next /\ label = TaskRow(jb.plan[i])
      BY <1>6, <2>1
    <2>3. jb.plan[i].id = jb.plan[jb.next].id
      <3>1. <<jb.plan[i].id>> = <<t.id>>
        BY <1>4, <2>2 DEF TaskRow
      <3>2. QED
        BY <1>1, <3>1
    <2>4. i = jb.next
      BY <1>6, <2>3 DEF DistinctIds
    <2>5. QED
      BY <1>6, <2>2, <2>4
  <1>8. /\ DOMAIN u = DOMAIN rs \cup {label} /\ RowsOk(u) /\ RowSum(rs) \in Nat
        /\ RowSum(u) = RowSum(rs) + jb.spent
    <2>1. Unlabelled(rs, label) /\ cost \in Nat
      BY <1>4, <1>5, <1>7 DEF Unlabelled
    <2>2. RowAdded(u, rs, label, cost)
      BY <1>4, <1>5, <2>1, UpsertAdds
    <2>3. QED
      BY <1>4, <2>2 DEF RowAdded
  <1>9. /\ SpendFields \subseteq DOMAIN new /\ new.pc = "planned" /\ new.spent = 0
        /\ new.lost = (jb.lost \/ lose) /\ new.planCost = jb.planCost /\ new.charged = jb.charged
        /\ new.next = jb.next + 1 /\ new.plan = jb.plan
    BY <1>2, <1>5 DEF SpendFields
  <1>10. new.lost \in BOOLEAN /\ (~new.lost => ~jb.lost /\ ~lose) /\ (lose => new.lost)
    BY <1>5, <1>9
  <1>11. Working(new, rs) /\ Working(new, u)
    <2>1. new.next \in Nat \ {0} /\ \A i \in DOMAIN jb.plan : i <= jb.next => i < new.next
      BY <1>6, <1>9
    <2>2. \A l \in DOMAIN u : l \in DOMAIN rs \/ l = TaskRow(jb.plan[jb.next])
      BY <1>1, <1>4, <1>8
    <2>3. \A l \in DOMAIN rs : \E i \in DOMAIN new.plan : i < new.next /\ l = TaskRow(new.plan[i])
      BY <1>6, <1>9, <2>1
    <2>4. jb.next < new.next
      BY <1>6, <1>9
    <2>5. \A l \in DOMAIN u : \E i \in DOMAIN new.plan : i < new.next /\ l = TaskRow(new.plan[i])
      BY <1>9, <2>2, <2>3, <2>4
    <2>6. QED
      BY <1>6, <1>9, <2>1, <2>3, <2>5 DEF Working
  <1>12. CASE lose
    <2>1. LedgerOk(new, rs)
      BY <1>5, <1>9, <1>10, <1>11, <1>12 DEF LedgerOk, Balanced
    <2>2. QED
      BY <1>2, <1>3, <1>12, <2>1, RowWritten, LedgerStep
  <1>13. CASE ~lose
    <2>1. LedgerOk(new, u)
      BY <1>5, <1>8, <1>9, <1>10, <1>11, <1>13 DEF LedgerOk, Balanced
    <2>2. RowsOnly(j, u)
      BY <1>2, <1>3, <1>4, <1>13, RowWritten
    <2>3. QED
      BY <1>2, <2>1, <2>2, LedgerStep
  <1>14. QED
    BY <1>12, <1>13

(* finishMission(): the mission's own row, of what the synthesis cost.      *)
LEMMA FinishLedgered ==
    ASSUME SpendInv, NEW j \in Jobs, NEW jb, Balanced(jb, rows[j]), Working(jb, rows[j]),
           NEW lose \in BOOLEAN, finishMission(j, jb, lose)
    PROVE  SpendInv'
  <1>1. PICK new, status, total :
           /\ new = [jb EXCEPT !.pc = "done", !.result = status, !.total = total, !.spent = 0,
                               !.lost = jb.lost \/ lose]
           /\ job' = [job EXCEPT ![j] = new]
           /\ writeRow(j, RequestRow, jb.spent, lose)
    <2>1. PICK status : status = IF jb.exhausted \/ jb.bad # {} THEN "partial" ELSE "complete"
      OBVIOUS
    <2>2. /\ job' = [job EXCEPT ![j] = [jb EXCEPT !.pc = "done", !.result = status, !.spent = 0,
                                                  !.total = @ + jb.spent, !.lost = @ \/ lose]]
          /\ writeRow(j, RequestRow, jb.spent, lose)
      BY <2>1, Zenon DEF finishMission, missionRowCost
    <2>3. [jb EXCEPT !.pc = "done", !.result = status, !.spent = 0,
                     !.total = @ + jb.spent, !.lost = @ \/ lose]
          = [jb EXCEPT !.pc = "done", !.result = status, !.total = jb.total + jb.spent, !.spent = 0,
                       !.lost = jb.lost \/ lose]
      OBVIOUS
    <2>4. QED
      BY <2>2, <2>3
  <1>2. PICK rs : rs = rows[j]
    OBVIOUS
  <1>3. PICK label, cost, u :
           label = RequestRow /\ cost = jb.spent /\ u = upsertRow(rs, label, cost)
    OBVIOUS
  <1>4. /\ SpendFields \subseteq DOMAIN jb /\ jb.spent \in Nat /\ jb.charged \in Nat
        /\ jb.planCost \in Nat /\ jb.lost \in BOOLEAN /\ RowsOk(rs)
        /\ ~jb.lost => jb.charged = RowSum(rs) + jb.planCost + jb.spent
    BY <1>2 DEF Balanced
  <1>5. RequestRow \notin DOMAIN rs
    <2>1. \A t : TaskRow(t) # RequestRow
      BY DEF TaskRow, RequestRow
    <2>2. QED
      BY <1>2, <2>1 DEF Working
  <1>6. RowsOk(u) /\ RowSum(rs) \in Nat /\ RowSum(u) = RowSum(rs) + jb.spent
    <2>1. Unlabelled(rs, label) /\ cost \in Nat
      BY <1>3, <1>4, <1>5 DEF Unlabelled
    <2>2. RowAdded(u, rs, label, cost)
      BY <1>3, <1>4, <2>1, UpsertAdds
    <2>3. QED
      BY <1>3, <2>2 DEF RowAdded
  <1>7. /\ SpendFields \subseteq DOMAIN new /\ new.pc = "done" /\ new.spent = 0
        /\ new.lost = (jb.lost \/ lose) /\ new.planCost = jb.planCost /\ new.charged = jb.charged
    BY <1>1, <1>4 DEF SpendFields
  <1>8. new.lost \in BOOLEAN /\ (~new.lost => ~jb.lost /\ ~lose) /\ (lose => new.lost)
    BY <1>4, <1>7
  <1>9. CASE lose
    <2>1. LedgerOk(new, rs)
      BY <1>4, <1>7, <1>8, <1>9 DEF LedgerOk, Balanced
    <2>2. QED
      BY <1>1, <1>2, <1>9, <2>1, RowWritten, LedgerStep
  <1>10. CASE ~lose
    <2>1. LedgerOk(new, u)
      BY <1>4, <1>6, <1>7, <1>8, <1>10 DEF LedgerOk, Balanced
    <2>2. RowsOnly(j, u)
      BY <1>1, <1>2, <1>3, <1>10, RowWritten
    <2>3. QED
      BY <1>1, <2>1, <2>2, LedgerStep
  <1>11. QED
    BY <1>9, <1>10


----------------------------------------------------------------------------
(* The steps of the ledger, one action after the other.                     *)

\* A job with no rows and nothing charged yet, under these rows.
Unspent(jb, rs) == Balanced(jb, rs) /\ Fresh(jb, rs) /\ jb.spent = 0

LEMMA UnspentCarries ==
    ASSUME NEW old, NEW jb, Carries(jb, old), NEW rs, Unspent(old, rs)
    PROVE  Unspent(jb, rs)
  BY CarriedOn DEF Unspent, Carries

LEMMA NothingSpent ==
    ASSUME NEW jb, SpendFields \subseteq DOMAIN jb, jb.next = 1, jb.spent = 0,
           jb.planCost = 0, jb.charged = 0, jb.lost = FALSE,
           NEW rs, DOMAIN rs = {}
    PROVE  Unspent(jb, rs)
  <1>1. RowsOk(rs) /\ RowSum(rs) = 0
    BY NoRowsSum
  <1>2. jb.lost \in BOOLEAN /\ ~jb.lost
    OBVIOUS
  <1>3. jb.charged = RowSum(rs) + jb.planCost + jb.spent
    BY <1>1
  <1>4. QED
    BY <1>1, <1>2, <1>3 DEF Unspent, Balanced, Fresh

(* An arrival at an idle job finds no rows.                                 *)
Arrived(r, k) == [Idle EXCEPT !.req = r, !.key = k]

LEMMA ArrivalLedgered ==
    ASSUME SpendInv, NEW j \in Jobs, job[j].pc = "idle", NEW r, NEW k,
           NEW jb, jb = Arrived(r, k)
    PROVE  Unspent(jb, rows[j]) /\ jb.req = r
  <1>1. LedgerOk(job[j], rows[j])
    BY DEF SpendInv
  <1>2. DOMAIN rows[j] = {} /\ RowsOk(rows[j]) /\ RowSum(rows[j]) = 0
    BY <1>1, NoRowsSum DEF LedgerOk, Fresh
  <1>3. /\ SpendFields \subseteq DOMAIN jb /\ jb.planCost = 0 /\ jb.charged = 0 /\ jb.spent = 0
        /\ jb.lost = FALSE /\ jb.next = 1 /\ jb.req = r
    BY DEF Idle, Arrived, SpendFields
  <1>4. QED
    BY <1>2, <1>3, NothingSpent

LEMMA QueryArrivesLedgered ==
    ASSUME SpendInv, NEW j \in Jobs, NEW k \in Keys, QueryArrives(j, k)
    PROVE  SpendInv'
  <1>1. PICK r \in Queries, lose \in BOOLEAN :
           /\ job[j].pc = "idle"
           /\ \/ terminate(j, [Idle EXCEPT !.req = r, !.key = k], "rejected-governance", 0, FALSE, lose)
              \/ /\ job' = [job EXCEPT ![j] = [Idle EXCEPT !.pc = "retrieving", !.req = r, !.key = k]]
                 /\ UNCHANGED rows
    BY Zenon DEF QueryArrives
  <1>2. PICK jb : jb = [Idle EXCEPT !.req = r, !.key = k]
    OBVIOUS
  <1>3. Unspent(jb, rows[j])
    <2>1. job[j].pc = "idle"
      BY <1>1
    <2>2. jb = Arrived(r, k)
      BY <1>2 DEF Arrived
    <2>3. QED
      BY <2>1, <2>2, ArrivalLedgered
  <1>4. CASE terminate(j, [Idle EXCEPT !.req = r, !.key = k], "rejected-governance", 0, FALSE, lose)
    <2>1. terminate(j, jb, "rejected-governance", 0, FALSE, lose)
      BY <1>2, <1>4
    <2>2. PICK result, cost, governed :
             cost = jb.spent /\ terminate(j, jb, result, cost, governed, lose)
      BY <1>3, <2>1 DEF Unspent
    <2>3. QED
      BY <1>3, <2>2, TerminateLedgered DEF Unspent
  <1>5. CASE /\ job' = [job EXCEPT ![j] = [Idle EXCEPT !.pc = "retrieving", !.req = r, !.key = k]]
             /\ UNCHANGED rows
    <2>1. PICK new : new = [Idle EXCEPT !.pc = "retrieving", !.req = r, !.key = k]
      OBVIOUS
    <2>2. Carries(new, jb) /\ new.pc = "retrieving"
      BY <1>2, <2>1 DEF Idle, SpendFields, Carries
    <2>3. Unspent(new, rows[j])
      BY <1>3, <2>2, UnspentCarries
    <2>4. LedgerOk(new, rows[j])
      BY <2>2, <2>3 DEF Unspent, LedgerOk
    <2>5. QED
      BY <1>5, <2>1, <2>4, RowsStay, LedgerStep
  <1>6. QED
    BY <1>1, <1>4, <1>5

LEMMA RetrievedLedgered ==
    ASSUME SpendInv, NEW j \in Jobs, Retrieved(j)
    PROVE  SpendInv'
  <1>1. PICK routing, verdict, lose, jb :
           /\ lose \in BOOLEAN /\ jb = [job[j] EXCEPT !.verdict = verdict]
           /\ \/ \E result, governed : terminate(j, jb, result, 0, governed, lose)
              \/ /\ job' = [job EXCEPT ![j] = exchanging(jb, "query", routing)]
                 /\ UNCHANGED rows
           /\ job[j].pc = "retrieving"
    <2>1. PICK sources \in {0, 2}, lose \in BOOLEAN :
        LET r == job[j].req
            routing == route(buildConstraints(r))
            verdict == evaluateGovernance(
                buildDecisionContext(j, "query", r.task,
                    deriveConfidenceFromQuality(getCatalogueEntry(Head(routing)).quality),
                    sources, FALSE, "other", 1))
            jb == [job[j] EXCEPT !.verdict = IF routing = <<>> THEN "none" ELSE verdict]
        IN  /\ job[j].pc = "retrieving"
            /\ CASE routing = <<>> -> terminate(j, jb, "rejected-policy", 0, FALSE, lose)
                 [] routing # <<>> /\ verdict = "block" ->
                        terminate(j, jb, "rejected-governance", 0, TRUE, lose)
                 [] routing # <<>> /\ verdict # "block" /\ r.dry ->
                        terminate(j, jb, "completed", 0, TRUE, lose)
                 [] OTHER ->
                        /\ ~lose
                        /\ job' = [job EXCEPT ![j] = exchanging(jb, "query", routing)]
                        /\ UNCHANGED <<rows, attempts, trail, faults>>
            /\ UNCHANGED <<now, deployed, keys, win, pend, missions>>
      BY Zenon DEF Retrieved
    <2> DEFINE r == job[j].req
               routing == route(buildConstraints(r))
               verdict == evaluateGovernance(
                   buildDecisionContext(j, "query", r.task,
                       deriveConfidenceFromQuality(getCatalogueEntry(Head(routing)).quality),
                       sources, FALSE, "other", 1))
               seen == IF routing = <<>> THEN "none" ELSE verdict
               jb == [job[j] EXCEPT !.verdict = seen]
    <2>2. /\ job[j].pc = "retrieving"
          /\ CASE routing = <<>> -> terminate(j, jb, "rejected-policy", 0, FALSE, lose)
               [] routing # <<>> /\ verdict = "block" ->
                      terminate(j, jb, "rejected-governance", 0, TRUE, lose)
               [] routing # <<>> /\ verdict # "block" /\ r.dry ->
                      terminate(j, jb, "completed", 0, TRUE, lose)
               [] OTHER ->
                      /\ ~lose
                      /\ job' = [job EXCEPT ![j] = exchanging(jb, "query", routing)]
                      /\ UNCHANGED <<rows, attempts, trail, faults>>
          /\ UNCHANGED <<now, deployed, keys, win, pend, missions>>
      BY <2>1, Zenon
    <2>3. jb = [job[j] EXCEPT !.verdict = seen]
      OBVIOUS
    <2> HIDE DEF routing, verdict, seen, jb
    <2>4. \/ terminate(j, jb, "rejected-policy", 0, FALSE, lose)
          \/ terminate(j, jb, "rejected-governance", 0, TRUE, lose)
          \/ terminate(j, jb, "completed", 0, TRUE, lose)
          \/ /\ job' = [job EXCEPT ![j] = exchanging(jb, "query", routing)]
             /\ UNCHANGED <<rows, attempts, trail, faults>>
      BY <2>2, Zenon
    <2>5. job[j].pc = "retrieving"
      BY <2>2
    <2>6. \/ \E result, governed : terminate(j, jb, result, 0, governed, lose)
          \/ /\ job' = [job EXCEPT ![j] = exchanging(jb, "query", routing)]
             /\ UNCHANGED rows
      BY <2>4
    <2>7. QED
      BY <2>3, <2>5, <2>6, Zenon
  <1>2. Unspent(job[j], rows[j])
    BY <1>1 DEF SpendInv, LedgerOk, Unspent
  <1>3. Carries(jb, job[j])
    <2>1. SpendFields \subseteq DOMAIN job[j]
      BY <1>2 DEF Unspent, Balanced
    <2>2. QED
      BY <1>1, <2>1 DEF Carries, SpendFields
  <1>4. Unspent(jb, rows[j])
    BY <1>2, <1>3, UnspentCarries
  <1>5. ASSUME NEW result, NEW governed, terminate(j, jb, result, 0, governed, lose) PROVE SpendInv'
    <2>1. PICK cost : cost = jb.spent /\ terminate(j, jb, result, cost, governed, lose)
      BY <1>4, <1>5 DEF Unspent
    <2>2. lose \in BOOLEAN /\ Balanced(jb, rows[j]) /\ Fresh(jb, rows[j])
      BY <1>1, <1>4 DEF Unspent
    <2>3. QED
      BY <2>1, <2>2, TerminateLedgered
  <1>6. CASE /\ job' = [job EXCEPT ![j] = exchanging(jb, "query", routing)]
             /\ UNCHANGED rows
    <2>1. PICK new : new = exchanging(jb, "query", routing)
      OBVIOUS
    <2>2. LedgerOk(new, rows[j])
      BY <1>4, <2>1, ExchangeLedgered DEF Unspent, Phases
    <2>3. QED
      BY <1>6, <2>1, <2>2, RowsStay, LedgerStep
  <1>7. QED
    BY <1>1, <1>5, <1>6


(* dispatchMission() holds, refuses or starts a mission.                    *)
LEMMA DispatchMissionLedgered ==
    ASSUME SpendInv, NEW j \in Jobs, NEW jb, Unspent(jb, rows[j]), jb.req.maxTasks \in Nat,
           NEW approved, NEW store, dispatchMission(j, jb, approved, store)
    PROVE  SpendInv'
  <1>1. PICK verdict : verdict = evaluateGovernance(missionContext(j, jb.req, approved))
    OBVIOUS
  <1>2. PICK jv : jv = [jb EXCEPT !.verdict = verdict]
    OBVIOUS
  <1>3. hold(j, jv, store) \/ blockMission(j, jv) \/ startPlanning(j, jv)
    <2>1. (CASE humanCoSignRequired(verdict) /\ ~approved -> hold(j, jv, store)
             [] verdict = "block" -> blockMission(j, jv) /\ pend' = store
             [] OTHER -> startPlanning(j, jv) /\ pend' = store)
      BY <1>1, <1>2, Zenon DEF dispatchMission
    <2>2. QED
      BY <2>1, Zenon
  <1>4. Unspent(jv, rows[j]) /\ jv.req.maxTasks \in Nat /\ SpendFields \subseteq DOMAIN jv
    <2>1. SpendFields \subseteq DOMAIN jb
      BY DEF Unspent, Balanced
    <2>2. Carries(jv, jb) /\ SpendFields \subseteq DOMAIN jv
      BY <1>2, <2>1 DEF Carries, SpendFields
    <2>3. QED
      BY <2>2, UnspentCarries DEF Carries
  <1>5. CASE hold(j, jv, store)
    <2>1. PICK new, expires : new = [jv EXCEPT !.pc = "held", !.expires = expires]
                              /\ job' = [job EXCEPT ![j] = new] /\ UNCHANGED rows
      BY <1>5, Zenon DEF hold
    <2>2. Carries(new, jv) /\ new.pc = "held"
      BY <1>4, <2>1 DEF Carries, SpendFields
    <2>3. Unspent(new, rows[j]) /\ new.req.maxTasks \in Nat
      BY <1>4, <2>2, UnspentCarries DEF Carries
    <2>4. LedgerOk(new, rows[j])
      BY <2>2, <2>3 DEF Unspent, LedgerOk
    <2>5. QED
      BY <2>1, <2>4, RowsStay, LedgerStep
  <1>6. CASE blockMission(j, jv)
    <2>1. PICK new : new = [jv EXCEPT !.pc = "done", !.result = "blocked"]
      OBVIOUS
    <2>2. job' = [job EXCEPT ![j] = new] /\ writeRow(j, RequestRow, 0, FALSE)
      BY <1>6, <2>1, Zenon DEF blockMission
    <2>3. PICK rs : rs = rows[j]
      OBVIOUS
    <2>4. PICK label, cost, u : label = RequestRow /\ cost = 0 /\ u = upsertRow(rs, label, cost)
      OBVIOUS
    <2>5. RowsOk(rs) /\ Unlabelled(rs, label) /\ cost \in Nat /\ cost = 0
      BY <1>4, <2>3, <2>4 DEF Unspent, Balanced, Fresh, Unlabelled
    <2>6. RowAdded(u, rs, label, cost)
      BY <2>4, <2>5, UpsertAdds
    <2>7. RowsOk(u) /\ RowSum(u) = RowSum(rs)
      BY <2>5, <2>6 DEF RowAdded
    <2>8. Carries(new, jv) /\ new.pc = "done"
      BY <1>4, <2>1 DEF Carries, SpendFields
    <2>9. Balanced(jv, u)
      BY <1>4, <2>3, <2>7 DEF Unspent, Balanced
    <2>10. LedgerOk(new, u)
      BY <2>8, <2>9, EndsLedgered
    <2>11. RowsOnly(j, u)
      BY <2>2, <2>3, <2>4, RowWritten
    <2>12. QED
      BY <2>2, <2>10, <2>11, LedgerStep
  <1>7. CASE startPlanning(j, jv)
    <2>1. PICK begun : begun = [jv EXCEPT !.starts = @ + 1]
      OBVIOUS
    <2>2. PICK routing : routing = route(planConstraints(jv.req))
      OBVIOUS
    <2>3. PICK new : new = IF routing = <<>> THEN planned(begun, <<>>)
                           ELSE exchanging(begun, "plan", routing)
      OBVIOUS
    <2>4. job' = [job EXCEPT ![j] = new] /\ UNCHANGED rows
      <3>1. /\ job' = [job EXCEPT ![j] = IF routing = <<>> THEN planned(begun, <<>>)
                                         ELSE exchanging(begun, "plan", routing)]
            /\ UNCHANGED <<rows, trail>>
        BY <1>7, <2>1, <2>2, Zenon DEF startPlanning
      <3>2. QED
        BY <2>3, <3>1
    <2>5. Unspent(begun, rows[j]) /\ begun.req.maxTasks \in Nat
      <3>1. Carries(begun, jv)
        BY <1>4, <2>1 DEF Carries, SpendFields
      <3>2. QED
        BY <1>4, <3>1, UnspentCarries DEF Carries
    <2>6. LedgerOk(new, rows[j])
      <3>1. CASE routing = <<>>
        <4>1. <<>> \in Seq(PlannedTask)
          OBVIOUS
        <4>2. PICK answer \in Seq(PlannedTask) : answer = <<>>
          BY <4>1
        <4>3. new = planned(begun, answer)
          BY <2>3, <3>1, <4>2
        <4>4. QED
          BY <2>5, <4>3, PlannedLedgered DEF Unspent
      <3>2. CASE routing # <<>>
        <4>1. PICK phase \in Phases : phase = "plan"
          BY DEF Phases
        <4>2. new = exchanging(begun, phase, routing)
          BY <2>3, <3>2, <4>1
        <4>3. QED
          BY <2>5, <4>1, <4>2, ExchangeLedgered DEF Unspent
      <3>3. QED
        BY <3>1, <3>2
    <2>7. QED
      BY <2>4, <2>6, RowsStay, LedgerStep
  <1>8. QED
    BY <1>3, <1>5, <1>6, <1>7

LEMMA DispatchLedgered ==
    ASSUME SpendInv, NEW j \in Jobs, NEW k \in Keys, Dispatch(j, k)
    PROVE  SpendInv'
  <1>1. PICK r \in Missions :
           /\ job[j].pc = "idle"
           /\ dispatchMission(j, [Idle EXCEPT !.req = r, !.key = k], FALSE, pend)
    BY Zenon DEF Dispatch
  <1>2. PICK jb : jb = [Idle EXCEPT !.req = r, !.key = k]
    OBVIOUS
  <1>3. Unspent(jb, rows[j]) /\ jb.req = r
    <2>1. job[j].pc = "idle"
      BY <1>1
    <2>2. jb = Arrived(r, k)
      BY <1>2 DEF Arrived
    <2>3. QED
      BY <2>1, <2>2, ArrivalLedgered
  <1>4. jb.req.maxTasks \in Nat
    BY <1>3, DispatchAssumption
  <1>5. QED
    BY <1>1, <1>2, <1>3, <1>4, DispatchMissionLedgered

LEMMA SettleLedgered ==
    ASSUME SpendInv, StoreOk, NEW j \in Jobs, NEW k \in Keys, NEW decision \in {"approved", "rejected"},
           Settle(j, k, decision)
    PROVE  SpendInv'
  <1>1. PICK p \in pend :
           /\ p.job = j
           /\ \/ UNCHANGED <<job, rows>>
              \/ job' = [job EXCEPT ![j].pc = "done", ![j].result = "rejected"] /\ UNCHANGED rows
              \/ dispatchMission(j, [job[j] EXCEPT !.settledBy = k, !.settledAt = now], TRUE,
                                 consumed(p))
    BY DEF Settle
  <1>2. job[j].pc = "held"
    BY <1>1 DEF StoreOk
  <1>3. /\ Unspent(job[j], rows[j]) /\ job[j].req.maxTasks \in Nat
        /\ SpendFields \subseteq DOMAIN job[j]
    BY <1>2 DEF SpendInv, LedgerOk, Unspent, Balanced
  <1>4. CASE UNCHANGED <<job, rows>>
    BY <1>4 DEF SpendInv
  <1>5. CASE job' = [job EXCEPT ![j].pc = "done", ![j].result = "rejected"] /\ UNCHANGED rows
    <2>1. PICK new : new = [job[j] EXCEPT !.pc = "done", !.result = "rejected"]
      OBVIOUS
    <2>2. job' = [job EXCEPT ![j] = new]
      BY <1>5, <2>1 DEF SpendInv
    <2>3. Carries(new, job[j]) /\ new.pc = "done"
      BY <1>3, <2>1 DEF Carries, SpendFields
    <2>4. LedgerOk(new, rows[j])
      BY <1>3, <2>3, EndsLedgered DEF Unspent
    <2>5. QED
      BY <1>5, <2>2, <2>4, RowsStay, LedgerStep
  <1>6. CASE dispatchMission(j, [job[j] EXCEPT !.settledBy = k, !.settledAt = now], TRUE, consumed(p))
    <2>1. PICK jb : jb = [job[j] EXCEPT !.settledBy = k, !.settledAt = now]
      OBVIOUS
    <2>2. Carries(jb, job[j])
      BY <1>3, <2>1 DEF Carries, SpendFields
    <2>3. Unspent(jb, rows[j]) /\ jb.req.maxTasks \in Nat
      BY <1>3, <2>2, UnspentCarries DEF Carries
    <2>4. QED
      BY <1>6, <2>1, <2>3, DispatchMissionLedgered
  <1>7. QED
    BY <1>1, <1>4, <1>5, <1>6


LEMMA EndOfPlanLedgered ==
    ASSUME SpendInv, NEW j \in Jobs, EndOfPlan(j)
    PROVE  SpendInv'
  <1>1. PICK jb : jb = [job[j] EXCEPT !.exhausted = job[j].next <= Len(job[j].plan)]
    OBVIOUS
  <1>2. PICK routing : routing = route(synthesisConstraints(jb))
    OBVIOUS
  <1>3. /\ job[j].pc = "planned"
        /\ \/ failMission(j, jb)
           \/ /\ job' = [job EXCEPT ![j] = exchanging(jb, "synthesis", routing)]
              /\ UNCHANGED rows
           \/ \E lose \in BOOLEAN : finishMission(j, [jb EXCEPT !.spent = 0], lose)
    BY <1>1, <1>2, Zenon DEF EndOfPlan
  <1>4. /\ Balanced(job[j], rows[j]) /\ Working(job[j], rows[j]) /\ job[j].spent = 0
        /\ SpendFields \subseteq DOMAIN job[j]
    BY <1>3 DEF SpendInv, LedgerOk, Balanced
  <1>5. Carries(jb, job[j])
    BY <1>1, <1>4 DEF Carries, SpendFields
  <1>6. Balanced(jb, rows[j]) /\ Working(jb, rows[j]) /\ jb.spent = 0
    BY <1>4, <1>5, CarriedOn DEF Carries
  <1>7. CASE failMission(j, jb)
    <2>1. PICK new : new = [jb EXCEPT !.pc = "done", !.result = "failed"]
      OBVIOUS
    <2>2. job' = [job EXCEPT ![j] = new] /\ UNCHANGED rows
      BY <1>7, <2>1, Zenon DEF failMission
    <2>3. Carries(new, jb) /\ new.pc = "done"
      BY <1>5, <2>1 DEF Carries, SpendFields
    <2>4. LedgerOk(new, rows[j])
      BY <1>6, <2>3, EndsLedgered
    <2>5. QED
      BY <2>2, <2>4, RowsStay, LedgerStep
  <1>8. CASE /\ job' = [job EXCEPT ![j] = exchanging(jb, "synthesis", routing)]
             /\ UNCHANGED rows
    <2>1. PICK phase \in Phases : phase = "synthesis"
      BY DEF Phases
    <2>2. PICK new : new = exchanging(jb, phase, routing)
      OBVIOUS
    <2>3. LedgerOk(new, rows[j])
      BY <1>6, <2>1, <2>2, ExchangeLedgered
    <2>4. job' = [job EXCEPT ![j] = new]
      BY <1>8, <2>1, <2>2
    <2>5. QED
      BY <1>8, <2>3, <2>4, RowsStay, LedgerStep
  <1>9. ASSUME NEW lose \in BOOLEAN, finishMission(j, [jb EXCEPT !.spent = 0], lose) PROVE SpendInv'
    <2>1. PICK jz : jz = [jb EXCEPT !.spent = 0]
      OBVIOUS
    <2>2. Carries(jz, jb)
      BY <1>5, <1>6, <2>1 DEF Carries, SpendFields
    <2>3. Balanced(jz, rows[j]) /\ Working(jz, rows[j])
      BY <1>6, <2>2, CarriedOn
    <2>4. QED
      BY <1>9, <2>1, <2>3, FinishLedgered
  <1>10. QED
    BY <1>3, <1>7, <1>8, <1>9

LEMMA StartTaskLedgered ==
    ASSUME SpendInv, NEW j \in Jobs, StartTask(j)
    PROVE  SpendInv'
  <1> DEFINE t == job[j].plan[job[j].next]
             passport == getPassport(t.agent)
             routing == route(workerConstraints(job[j], passport))
             ran == toolsRun(passport, t, job[j].req.knowledge, job[j].req.confidentiality)
             equipped == [job[j] EXCEPT !.tools = @ \cup ran]
             none == [equipped EXCEPT !.tried = <<>>, !.spent = 0]
  <1>1. /\ job[j].pc = "planned" /\ job[j].next <= Len(job[j].plan)
        /\ \/ /\ UNCHANGED rows
              /\ job' = [job EXCEPT ![j] = exchanging(equipped, "task", routing)]
           \/ \E lose \in BOOLEAN :
                 reportTask(j, [job[j] EXCEPT !.tried = <<>>, !.spent = 0], FALSE, lose)
           \/ \E lose \in BOOLEAN : reportTask(j, none, FALSE, lose)
    BY Zenon DEF StartTask
  <1>2. /\ equipped = [job[j] EXCEPT !.tools = @ \cup ran]
        /\ none = [equipped EXCEPT !.tried = <<>>, !.spent = 0]
    OBVIOUS
  <1> HIDE DEF t, passport, routing, ran, equipped, none
  <1>3. /\ Balanced(job[j], rows[j]) /\ Working(job[j], rows[j]) /\ job[j].spent = 0
        /\ SpendFields \subseteq DOMAIN job[j]
    BY <1>1 DEF SpendInv, LedgerOk, Balanced
  <1>4. job[j].next \in DOMAIN job[j].plan
    BY <1>1, <1>3 DEF Working
  <1>5. ASSUME NEW jb, Carries(jb, job[j])
        PROVE  /\ Balanced(jb, rows[j]) /\ Working(jb, rows[j]) /\ jb.spent = 0
               /\ jb.next \in DOMAIN jb.plan
    BY <1>3, <1>4, <1>5, CarriedOn DEF Carries
  <1>6. Carries(equipped, job[j])
    BY <1>2, <1>3 DEF Carries, SpendFields
  <1>7. ASSUME NEW jb, Carries(jb, job[j]), NEW lose \in BOOLEAN, reportTask(j, jb, FALSE, lose)
        PROVE  SpendInv'
    BY <1>5, <1>7, ReportLedgered
  <1>8. CASE /\ UNCHANGED rows
             /\ job' = [job EXCEPT ![j] = exchanging(equipped, "task", routing)]
    <2>1. PICK phase \in Phases : phase = "task"
      BY DEF Phases
    <2>2. PICK new : new = exchanging(equipped, phase, routing)
      OBVIOUS
    <2>3. LedgerOk(new, rows[j])
      BY <1>5, <1>6, <2>1, <2>2, ExchangeLedgered
    <2>4. job' = [job EXCEPT ![j] = new]
      BY <1>8, <2>1, <2>2
    <2>5. QED
      BY <1>8, <2>3, <2>4, RowsStay, LedgerStep
  <1>9. ASSUME NEW lose \in BOOLEAN, reportTask(j, [job[j] EXCEPT !.tried = <<>>, !.spent = 0], FALSE, lose)
        PROVE  SpendInv'
    <2>1. PICK jb : jb = [job[j] EXCEPT !.tried = <<>>, !.spent = 0]
      OBVIOUS
    <2>2. Carries(jb, job[j])
      BY <1>3, <2>1 DEF Carries, SpendFields
    <2>3. QED
      BY <1>7, <1>9, <2>1, <2>2
  <1>10. ASSUME NEW lose \in BOOLEAN, reportTask(j, none, FALSE, lose) PROVE SpendInv'
    <2>1. Carries(none, job[j])
      BY <1>2, <1>3, <1>6 DEF Carries, SpendFields
    <2>2. QED
      BY <1>7, <1>10, <2>1
  <1>11. QED
    BY <1>1, <1>8, <1>9, <1>10

(* What a provider reports to have used is counted in tokens.               *)
LEMMA ResponseUsage ==
    ASSUME NEW entry, NEW e, NEW outcome, NEW usage \in [input : Nat, output : Nat], NEW computable
    PROVE  LET response == invoke(entry, e, outcome, usage, computable)
           IN  response.input \in Nat /\ response.output \in Nat
  <1> DEFINE Used(response) == response.input \in Nat /\ response.output \in Nat
  <1>1. \A kind : Used(providerFailure(kind))
    BY DEF providerFailure
  <1>2. Used(answerOf(usage))
    BY DEF answerOf
  <1>3. Used(answerOf([input |-> 0, output |-> 0]))
    BY DEF answerOf
  <1> HIDE DEF Used
  <1>4. Used(deterministicCore(computable))
    BY <1>1, <1>2, <1>3, Zenon DEF deterministicCore
  <1>5. Used(ollamaChat(outcome, usage))
    BY <1>1, <1>2, <1>3, Zenon DEF ollamaChat
  <1>6. Used(anthropicNative(outcome, usage))
    BY <1>1, <1>2, Zenon DEF anthropicNative
  <1>7. Used(googleNative(outcome, usage))
    BY <1>1, <1>2, Zenon DEF googleNative
  <1>8. Used(invokeOpenAICompatible(outcome, usage))
    BY <1>1, <1>2, Zenon DEF invokeOpenAICompatible
  <1>9. Used(invoke(entry, e, outcome, usage, computable))
    BY <1>1, <1>4, <1>5, <1>6, <1>7, <1>8, Zenon DEF invoke
  <1>10. QED
    BY <1>9 DEF Used


LEMMA ExchangeEndsLedgered ==
    ASSUME SpendInv, NEW j \in Jobs, NEW jb, LedgerOk(jb, rows[j]), jb.pc = "calling",
           jb.phase \in Phases, NEW response, NEW answer \in Seq(PlannedTask), NEW lose \in BOOLEAN,
           exchangeEnds(j, jb, response, answer, lose)
    PROVE  SpendInv'
  <1>1. Balanced(jb, rows[j])
    BY DEF LedgerOk
  <1>2. CASE jb.phase = "query"
    <2>1. PICK result, cost, governed :
             cost = jb.spent /\ terminate(j, jb, result, cost, governed, lose)
      BY <1>2, Zenon DEF exchangeEnds
    <2>2. Fresh(jb, rows[j])
      BY <1>2 DEF LedgerOk
    <2>3. QED
      BY <1>1, <2>1, <2>2, TerminateLedgered
  <1>3. CASE jb.phase = "plan"
    <2>1. PICK tasks : tasks = IF response.ok THEN answer ELSE <<>>
      OBVIOUS
    <2>2. tasks \in Seq(PlannedTask)
      <3>1. <<>> \in Seq(PlannedTask)
        OBVIOUS
      <3>2. QED
        BY <2>1, <3>1
    <2>3. PICK new : new = planned(jb, tasks)
      OBVIOUS
    <2>4. job' = [job EXCEPT ![j] = new] /\ UNCHANGED rows
      <3>1. /\ job' = [job EXCEPT ![j] = planned(jb, IF response.ok THEN answer ELSE <<>>)]
            /\ UNCHANGED <<missions, rows, attempts, trail, faults>>
        BY <1>3, Zenon DEF exchangeEnds
      <3>2. QED
        BY <2>1, <2>3, <3>1
    <2>5. Fresh(jb, rows[j]) /\ jb.req.maxTasks \in Nat
      BY <1>3 DEF LedgerOk
    <2>6. LedgerOk(new, rows[j])
      BY <1>1, <2>2, <2>3, <2>5, PlannedLedgered
    <2>7. QED
      BY <2>4, <2>6, RowsStay, LedgerStep
  <1>4. CASE jb.phase = "task"
    <2>1. PICK ok : reportTask(j, jb, ok, lose)
      BY <1>4, Zenon DEF exchangeEnds
    <2>2. Working(jb, rows[j]) /\ jb.next \in DOMAIN jb.plan
      BY <1>4 DEF LedgerOk
    <2>3. QED
      BY <1>1, <2>1, <2>2, ReportLedgered
  <1>5. CASE jb.phase = "synthesis"
    <2>1. finishMission(j, jb, lose)
      BY <1>5, Zenon DEF exchangeEnds
    <2>2. Working(jb, rows[j])
      BY <1>5 DEF LedgerOk
    <2>3. QED
      BY <1>1, <2>1, <2>2, FinishLedgered
  <1>6. QED
    BY <1>2, <1>3, <1>4, <1>5 DEF Phases

(* The engine a call goes to is one of the catalogue.                       *)
LEMMA EngineIsCatalogued ==
    ASSUME GuardInv, NEW j \in Jobs, job[j].pc = "calling"
    PROVE  EntryOk(getCatalogueEntry(job[j].routing[Len(job[j].tried) + 1]))
  <1>1. PICK old : old = job[j]
    OBVIOUS
  <1>2. /\ old.tried \in Seq(Attempt) /\ old.routing \in Seq(Admitted(old.req))
        /\ Len(old.tried) < Len(old.routing)
    BY <1>1 DEF GuardInv, Guarded, Seen
  <1>3. Len(old.tried) + 1 \in 1 .. Len(old.routing)
    BY <1>2
  <1>4. PICK m : m = old.routing[Len(old.tried) + 1]
    OBVIOUS
  <1>5. m \in Models
    BY <1>2, <1>3, <1>4 DEF Admitted
  <1>6. EntryOk(getCatalogueEntry(m))
    BY <1>5, EntryFound
  <1>7. QED
    BY <1>1, <1>4, <1>6

(* A call adds the same amount to what the job was charged and to what its  *)
(* exchange has spent.                                                      *)
LEMMA RespondLedgered ==
    ASSUME SpendInv, GuardInv, NEW j \in Jobs, JobOk(job[j]), Respond(j)
    PROVE  SpendInv'
  <1>1. PICK outcome \in Outcomes, usage \in Usages, answer \in PlannerAnswers, lose \in BOOLEAN :
        LET entry == getCatalogueEntry(job[j].routing[Len(job[j].tried) + 1])
            response == invoke(entry, env, outcome, usage, job[j].req.computable)
            jb == called(job[j], entry, outcome, response)
            over == \/ response.ok \/ response.kind = "content-refused"
                    \/ Len(jb.tried) \in {MaxAttempts, Len(jb.routing)}
        IN  /\ job[j].pc = "calling"
            /\ outcome.k # "answer" => jb.failed <= MaxFailures
            /\ jb.phase # "plan" \/ ~over => answer = <<>>
            /\ win' = recordSample(win, entry.model, entry.ms, response.ok)
            /\ IF over THEN exchangeEnds(j, jb, response, answer, lose)
               ELSE /\ ~lose
                    /\ job' = [job EXCEPT ![j] = jb]
                    /\ UNCHANGED <<missions, rows, attempts, trail, faults>>
            /\ UNCHANGED <<now, deployed, keys, pend>>
    BY Zenon DEF Respond
  <1> DEFINE entry == getCatalogueEntry(job[j].routing[Len(job[j].tried) + 1])
             response == invoke(entry, env, outcome, usage, job[j].req.computable)
             jb == called(job[j], entry, outcome, response)
             over == \/ response.ok \/ response.kind = "content-refused"
                     \/ Len(jb.tried) \in {MaxAttempts, Len(jb.routing)}
  <1>2. /\ job[j].pc = "calling"
        /\ IF over THEN exchangeEnds(j, jb, response, answer, lose)
           ELSE /\ ~lose
                /\ job' = [job EXCEPT ![j] = jb]
                /\ UNCHANGED <<missions, rows, attempts, trail, faults>>
    BY <1>1, Zenon
  <1>3. /\ jb = called(job[j], entry, outcome, response)
        /\ entry = getCatalogueEntry(job[j].routing[Len(job[j].tried) + 1])
    OBVIOUS
  <1>4. response.input \in Nat /\ response.output \in Nat
    <2>1. usage \in [input : Nat, output : Nat]
      BY DispatchAssumption
    <2>2. QED
      BY <2>1, ResponseUsage
  <1> HIDE DEF entry, response, jb, over
  <1>5. /\ job[j].pc = "calling"
        /\ \/ exchangeEnds(j, jb, response, answer, lose)
           \/ job' = [job EXCEPT ![j] = jb] /\ UNCHANGED rows
    BY <1>2
  <1>6. PICK old, cost, new :
           /\ old = job[j] /\ cost = computeActualCost(entry, response.input, response.output)
           /\ new = jb /\ new = [old EXCEPT
                      !.tried = Append(@, [model |-> entry.model, ms |-> entry.ms, ok |-> response.ok]),
                      !.spent = @ + cost, !.charged = @ + cost,
                      !.failed = IF outcome.k = "answer" THEN @ ELSE @ + 1,
                      !.engines = IF response.kind \in {"credential-absent", "model-unsupported"}
                                  THEN @ ELSE @ \cup {entry.model}]
    BY <1>3, Zenon DEF called
  <1>7. cost \in Nat
    <2>1. entry.in \in Nat /\ entry.out \in Nat
      BY <1>5, <1>3, EngineIsCatalogued DEF EntryOk
    <2>2. response.input * entry.in \in Nat /\ response.output * entry.out \in Nat
      BY <1>4, <2>1
    <2>3. QED
      BY <1>6, <2>2 DEF computeActualCost
  <1>8. PICK rs : rs = rows[j]
    OBVIOUS
  <1>9. LedgerOk(old, rs) /\ Balanced(old, rs) /\ old.pc = "calling" /\ old.phase \in Phases
    BY <1>5, <1>6, <1>8 DEF SpendInv, LedgerOk, JobOk
  <1>10. SpendFields \subseteq DOMAIN old
    BY <1>9 DEF Balanced
  <1>11. /\ SpendFields \subseteq DOMAIN new /\ new.pc = old.pc /\ new.phase = old.phase
         /\ new.req = old.req /\ new.plan = old.plan /\ new.next = old.next
         /\ new.planCost = old.planCost /\ new.lost = old.lost
         /\ new.spent = old.spent + cost /\ new.charged = old.charged + cost
    BY <1>6, <1>10 DEF SpendFields
  <1>12. Balanced(new, rs)
    <2>1. /\ old.spent \in Nat /\ old.planCost \in Nat /\ old.charged \in Nat
          /\ old.lost \in BOOLEAN /\ RowsOk(rs)
          /\ ~old.lost => old.charged = RowSum(rs) + old.planCost + old.spent
      BY <1>9 DEF Balanced
    <2>2. RowSum(rs) \in Nat
      BY <2>1, SumType DEF RowsOk, RowSum
    <2>3. ~new.lost => new.charged = RowSum(rs) + new.planCost + new.spent
      BY <1>7, <1>11, <2>1, <2>2
    <2>4. QED
      BY <1>7, <1>11, <2>1, <2>3 DEF Balanced
  <1>13. /\ Fresh(old, rs) => Fresh(new, rs)
         /\ Working(old, rs) => Working(new, rs)
    BY <1>11 DEF Fresh, Working
  <1>14. LedgerOk(new, rs) /\ new.pc = "calling" /\ new.phase \in Phases
    <2>1. new.pc = "calling" /\ new.phase \in Phases
      BY <1>9, <1>11
    <2>2. /\ old.phase \in {"query", "plan"} => Fresh(old, rs)
          /\ old.phase \in {"task", "synthesis"} => Working(old, rs)
          /\ old.phase = "task" => old.next \in DOMAIN old.plan
          /\ old.phase = "plan" => old.req.maxTasks \in Nat
      BY <1>9 DEF LedgerOk
    <2>3. /\ new.phase \in {"query", "plan"} => Fresh(new, rs)
          /\ new.phase \in {"task", "synthesis"} => Working(new, rs)
      <3>1. new.phase = old.phase
        BY <1>11
      <3>2. QED
        BY <1>13, <2>2, <3>1
    <2>4. new.phase = "task" => new.next \in DOMAIN new.plan
      BY <1>11, <2>2
    <2>5. new.phase = "plan" => new.req.maxTasks \in Nat
      BY <1>11, <2>2
    <2>6. QED
      BY <1>12, <2>1, <2>3, <2>4, <2>5 DEF LedgerOk
  <1>15. CASE exchangeEnds(j, jb, response, answer, lose)
    <2>1. answer \in Seq(PlannedTask)
      BY DispatchAssumption
    <2>2. exchangeEnds(j, new, response, answer, lose)
      BY <1>6, <1>15
    <2>3. QED
      BY <1>8, <1>14, <2>1, <2>2, ExchangeEndsLedgered
  <1>16. CASE job' = [job EXCEPT ![j] = jb] /\ UNCHANGED rows
    <2>1. job' = [job EXCEPT ![j] = new]
      BY <1>6, <1>16
    <2>2. QED
      BY <1>8, <1>14, <1>16, <2>1, RowsStay, LedgerStep
  <1>17. QED
    BY <1>5, <1>15, <1>16

(* A job a restart takes along keeps its account.                           *)
LEMMA RestartLedgered ==
    ASSUME SpendInv, Restart
    PROVE  SpendInv'
  <1>1. /\ UNCHANGED rows
        /\ job' = [j \in Jobs |-> IF job[j].pc \in {"retrieving", "calling", "planned"}
                                  THEN [job[j] EXCEPT !.pc = "lost"] ELSE job[j]]
    BY DEF Restart
  <1>2. ASSUME NEW j \in Jobs PROVE LedgerOk(job'[j], rows[j])
    <2>1. LedgerOk(job[j], rows[j]) /\ Balanced(job[j], rows[j]) /\ SpendFields \subseteq DOMAIN job[j]
      BY DEF SpendInv, LedgerOk, Balanced
    <2>2. PICK new : new = [job[j] EXCEPT !.pc = "lost"]
      OBVIOUS
    <2>3. Carries(new, job[j]) /\ new.pc = "lost"
      BY <2>1, <2>2 DEF Carries, SpendFields
    <2>4. LedgerOk(new, rows[j])
      BY <2>1, <2>3, EndsLedgered
    <2>5. job'[j] = new \/ job'[j] = job[j]
      BY <1>1, <2>2
    <2>6. QED
      BY <2>1, <2>4, <2>5
  <1>3. DOMAIN job' = Jobs /\ rows' = rows
    BY <1>1
  <1>4. QED
    BY <1>2, <1>3 DEF SpendInv

LEMMA InitLedgered == Init => SpendInv
  <1> SUFFICES ASSUME Init PROVE SpendInv
    OBVIOUS
  <1>1. DOMAIN job = Jobs /\ DOMAIN rows = Jobs
    BY DEF Init
  <1>2. ASSUME NEW j \in Jobs PROVE LedgerOk(job[j], rows[j])
    <2>1. PICK jb, rs : jb = Idle /\ rs = NoRows
      OBVIOUS
    <2>2. job[j] = jb /\ rows[j] = rs
      BY <2>1 DEF Init
    <2>3. /\ SpendFields \subseteq DOMAIN jb /\ jb.planCost = 0 /\ jb.charged = 0 /\ jb.spent = 0
          /\ jb.lost = FALSE /\ jb.next = 1 /\ jb.pc = "idle"
      BY <2>1 DEF Idle, SpendFields
    <2>4. DOMAIN rs = {}
      BY <2>1 DEF NoRows
    <2>5. Unspent(jb, rs)
      BY <2>3, <2>4, NothingSpent
    <2>6. LedgerOk(jb, rs)
      BY <2>3, <2>5 DEF Unspent, LedgerOk
    <2>7. QED
      BY <2>2, <2>6
  <1>3. QED
    BY <1>1, <1>2 DEF SpendInv

LEMMA NextLedgered ==
    ASSUME Inv, GuardInv, SpendInv, [Next]_vars
    PROVE  SpendInv'
  <1>1. ASSUME NEW j \in Jobs, NEW k \in Keys, QueryArrives(j, k) PROVE SpendInv'
    BY <1>1, QueryArrivesLedgered
  <1>2. ASSUME NEW j \in Jobs, NEW k \in Keys, Dispatch(j, k) PROVE SpendInv'
    BY <1>2, DispatchLedgered
  <1>3. ASSUME NEW j \in Jobs, NEW k \in Keys, NEW d \in {"approved", "rejected"}, Settle(j, k, d)
        PROVE  SpendInv'
    BY <1>3, SettleLedgered DEF Inv
  <1>4. ASSUME NEW j \in Jobs, Retrieved(j) PROVE SpendInv'
    BY <1>4, RetrievedLedgered
  <1>5. ASSUME NEW j \in Jobs, StartTask(j) PROVE SpendInv'
    BY <1>5, StartTaskLedgered
  <1>6. ASSUME NEW j \in Jobs, EndOfPlan(j) PROVE SpendInv'
    BY <1>6, EndOfPlanLedgered
  <1>7. ASSUME NEW j \in Jobs, Respond(j) PROVE SpendInv'
    BY <1>7, RespondLedgered DEF Inv
  <1>8. CASE Restart
    BY <1>8, RestartLedgered
  <1>9. ASSUME (\E k \in Keys : Revoke(k) \/ Reactivate(k)) \/ Tick \/ UNCHANGED vars PROVE SpendInv'
    <2>1. UNCHANGED <<rows, job>>
      BY <1>9 DEF Revoke, Reactivate, Tick, vars
    <2>2. QED
      BY <2>1 DEF SpendInv
  <1>10. QED
    BY <1>1, <1>2, <1>3, <1>4, <1>5, <1>6, <1>7, <1>8, <1>9 DEF Next

(* What the engines charged for a job is in its rows once, or is the        *)
(* planner's cost, or belongs to the running exchange, unless a write       *)
(* raised: under every plan the planner answers, every fallback and every   *)
(* restart (coordinator.ts, work-ledger.ts).                                *)
THEOREM SpendLedgered == Spec => []SpendIsLedgered
  <1>1. SpendInv => SpendIsLedgered
    <2>1. ASSUME SpendInv, NEW j \in Jobs, ~job[j].lost
          PROVE  job[j].charged = SumFunction(rows[j]) + job[j].planCost + job[j].spent
      BY <2>1 DEF SpendInv, LedgerOk, Balanced, RowSum, SumFunction
    <2>2. QED
      BY <2>1 DEF SpendIsLedgered
  <1>2. Spec => []SpendInv
    <2>1. Init => SpendInv
      BY InitLedgered
    <2>2. Inv /\ GuardInv /\ SpendInv /\ [Next]_vars => SpendInv'
      BY NextLedgered
    <2>3. QED
      BY <2>1, <2>2, InvariantHolds, GuardHolds, PTL DEF Spec
  <1>3. QED
    BY <1>1, <1>2, PTL

----------------------------------------------------------------------------
(***************************************************************************)
(* The budget of a run, which the egress proxy keeps beside the registry.  *)
(* A row r of the ledger is a function of the calls; what it holds and     *)
(* what it charged are sums over all calls, of 0 where there is nothing.   *)
(***************************************************************************)
HeldOf(r) == [c \in Calls |-> IF r[c].state = "pending" THEN r[c].amount ELSE 0]
ChargedOf(r) == [c \in Calls |-> r[c].actual]

Held(r) == SumFunctionOnSet(HeldOf(r), Calls)
Charged(r) == SumFunctionOnSet(ChargedOf(r), Calls)

\* A call has no row before it is dispatched, and no actual before it is settled.
ReservationShape ==
    \A c \in Calls :
       /\ call[c] = "new" => res[c].state = "none"
       /\ res[c].state = "none" => res[c].amount = 0 /\ billed[c] = 0
       /\ res[c].state # "settled" => res[c].actual = 0

\* What was spent for a call is its bill, or its worst case.
BillCharged ==
    \A c \in Calls :
       res[c].state = "settled" =>
           \/ billed[c] > 0 /\ billed[c] = res[c].actual
           \/ res[c].actual = res[c].amount

Sound(r) == \A c \in Calls : r[c].state = "settled" => r[c].actual <= r[c].amount

BudgetInv ==
    /\ BudgetTypeOK
    /\ ReservationShape
    /\ BillCharged
    /\ spent >= Charged(res)
    /\ Sound(res) => spent + Held(res) <= Ceiling
    /\ Cardinality({c \in Calls : res[c].state = "pending"}) <= MaxConcurrent

RowsOK(r) == r \in [Calls -> [state: {"none", "pending", "settled"}, amount: Nat, actual: Nat]]

LEMMA CallsFinite == IsFiniteSet(Calls)
  BY BudgetAssumption

LEMMA HeldIsNat ==
    ASSUME NEW r, RowsOK(r)
    PROVE  Held(r) \in Nat /\ Charged(r) \in Nat
  BY CallsFinite, SumType DEF Held, HeldOf, Charged, ChargedOf, RowsOK

(* outstanding is the sum over the pending rows.                            *)
LEMMA OutstandingIsHeld ==
    ASSUME RowsOK(res)
    PROVE  outstanding = Held(res)
  <1> DEFINE P == {c \in Calls : res[c].state = "pending"}
             amount == [c \in Calls |-> res[c].amount]
  <1>1. outstanding = SumFunctionOnSet(amount, P)
    BY Zenon DEF outstanding, Amount, In
  <1>2. IsFiniteSet(Calls) /\ IsFiniteSet(P)
    BY CallsFinite, FS_Subset
  <1>3. SumFunctionOnSet(amount, P) = SumFunctionOnSet(HeldOf(res), P)
    <2>1. \A c \in P : amount[c] = HeldOf(res)[c]
      BY DEF HeldOf
    <2> HIDE DEF amount, P
    <2>2. QED
      BY <1>2, <2>1, SumSameOn
  <1>4. SumFunctionOnSet(HeldOf(res), Calls) = SumFunctionOnSet(HeldOf(res), P)
    <2>1. \A c \in Calls : HeldOf(res)[c] \in Nat /\ (c \notin P => HeldOf(res)[c] = 0)
      BY DEF HeldOf, RowsOK
    <2>2. P \in SUBSET Calls
      OBVIOUS
    <2> HIDE DEF P
    <2>3. QED
      BY <1>2, <2>1, <2>2, SumOfSupport
  <1> HIDE DEF P, amount
  <1>5. QED
    BY <1>1, <1>3, <1>4 DEF Held

(* When one row changes, the two sums change by what that row holds and     *)
(* spent.                                                                 *)
LEMMA OneRowChanges ==
    ASSUME NEW r, NEW s, RowsOK(r), RowsOK(s), NEW c \in Calls,
           \A d \in Calls \ {c} : s[d] = r[d]
    PROVE  /\ Held(s) + HeldOf(r)[c] = Held(r) + HeldOf(s)[c]
           /\ Charged(s) + r[c].actual = Charged(r) + s[c].actual
  <1>1. IsFiniteSet(Calls)
    BY CallsFinite
  <1>2. /\ \A d \in Calls : HeldOf(r)[d] \in Nat /\ HeldOf(s)[d] \in Nat
        /\ \A d \in Calls \ {c} : HeldOf(r)[d] = HeldOf(s)[d]
    BY DEF HeldOf, RowsOK
  <1>3. /\ \A d \in Calls : ChargedOf(r)[d] \in Nat /\ ChargedOf(s)[d] \in Nat
        /\ \A d \in Calls \ {c} : ChargedOf(r)[d] = ChargedOf(s)[d]
        /\ ChargedOf(r)[c] = r[c].actual /\ ChargedOf(s)[c] = s[c].actual
    BY DEF ChargedOf, RowsOK
  <1>4. Held(s) + HeldOf(r)[c] = Held(r) + HeldOf(s)[c]
    BY <1>1, <1>2, SumChanged DEF Held
  <1>5. Charged(s) + ChargedOf(r)[c] = Charged(r) + ChargedOf(s)[c]
    BY <1>1, <1>3, SumChanged DEF Charged
  <1>6. QED
    BY <1>3, <1>4, <1>5

LEMMA BudgetFirst ==
    ASSUME BudgetInit PROVE BudgetInv
  <1>1. BudgetTypeOK
    BY DEF BudgetInit, BudgetTypeOK, NoRow
  <1>2. ReservationShape /\ BillCharged
    BY DEF BudgetInit, NoRow, ReservationShape, BillCharged
  <1>3. Held(res) = 0 /\ Charged(res) = 0
    <2> DEFINE Zero == [c \in Calls |-> 0]
    <2>1. HeldOf(res) = Zero /\ ChargedOf(res) = Zero
      BY DEF BudgetInit, NoRow, HeldOf, ChargedOf
    <2>2. SumFunctionOnSet(Zero, {}) = SumFunctionOnSet(Zero, Calls)
      BY CallsFinite, SumOfSupport
    <2>3. QED
      BY <2>1, <2>2, SumEmpty DEF Held, Charged
  <1>4. Cardinality({c \in Calls : res[c].state = "pending"}) <= MaxConcurrent
    <2>1. {c \in Calls : res[c].state = "pending"} = {}
      BY DEF BudgetInit, NoRow
    <2>2. QED
      BY <2>1, FS_EmptySet, BudgetAssumption
  <1>5. QED
    BY <1>1, <1>2, <1>3, <1>4, BudgetAssumption DEF BudgetInv, BudgetInit

LEMMA PendingIsFinite ==
    /\ IsFiniteSet({c \in Calls : res[c].state = "pending"})
           /\ Cardinality({c \in Calls : res[c].state = "pending"}) \in Nat
  BY CallsFinite, FS_Subset, FS_CardinalityType

\* Dispatch: what is newly held fits under the ceiling.
LEMMA DispatchKeepsBudget ==
    ASSUME BudgetInv, NEW c \in Calls, DispatchCall(c)
    PROVE  BudgetInv'
  <1> DEFINE P == {d \in Calls : res[d].state = "pending"}
  <1>1. PICK amount \in Amounts, prior \in Priors : reserve(c, amount, prior)
    BY DEF DispatchCall
  <1> DEFINE row2 == [state |-> "pending", amount |-> amount, actual |-> 0]
  <1>2. /\ call[c] = "new" /\ res[c].state = "none" /\ res[c].actual = 0 /\ c \notin P
        /\ res' = [res EXCEPT ![c] = row2]
        /\ call' = [call EXCEPT ![c] = "fetching"]
        /\ frozen' = frozen /\ billed' = billed
        /\ spent' = base(prior)
        /\ ~insufficient(base(prior), amount) /\ ~saturated
    BY <1>1 DEF DispatchCall, reserve, BudgetInv, ReservationShape
  <1>3. amount \in Nat /\ prior \in Nat
    BY BudgetAssumption
  <1>4. /\ RowsOK(res) /\ call \in [Calls -> {"new", "fetching", "replied", "lost"}]
        /\ spent \in Nat /\ frozen \in BOOLEAN /\ billed \in [Calls -> Nat]
    BY DEF BudgetInv, BudgetTypeOK, RowsOK
  <1>5. spent' \in Nat /\ spent' >= spent
    BY <1>2, <1>3, <1>4 DEF base
  <1>6. /\ RowsOK(res')
        /\ Held(res') + HeldOf(res)[c] = Held(res) + HeldOf(res')[c]
        /\ Charged(res') + res[c].actual = Charged(res) + row2.actual
    <2>1. row2 \in [state: {"none", "pending", "settled"}, amount: Nat, actual: Nat]
      BY <1>3
    <2>2. RowsOK(res') /\ res'[c] = row2 /\ \A d \in Calls \ {c} : res'[d] = res[d]
      BY <1>2, <1>4, <2>1 DEF RowsOK
    <2>3. Held(res') + HeldOf(res)[c] = Held(res) + HeldOf(res')[c]
          /\ Charged(res') + res[c].actual = Charged(res) + res'[c].actual
      BY <1>4, <2>2, OneRowChanges
    <2>4. QED
      BY <2>2, <2>3
  <1>7. HeldOf(res)[c] = 0 /\ HeldOf(res')[c] = amount
    BY <1>2, <1>4 DEF HeldOf, RowsOK
  <1>8. /\ Held(res) \in Nat /\ Held(res') \in Nat
        /\ Charged(res) \in Nat /\ Charged(res') \in Nat
    BY <1>4, <1>6, HeldIsNat
  <1>9. Held(res') = Held(res) + amount /\ Charged(res') = Charged(res)
    BY <1>2, <1>3, <1>6, <1>7, <1>8
  <1>10. spent' + Held(res') <= Ceiling
    <2>1. outstanding = Held(res)
      BY <1>4, OutstandingIsHeld
    <2>2. ~(spent' + Held(res) + amount > Ceiling)
      BY <1>2, <2>1 DEF insufficient
    <2>3. QED
      BY <1>3, <1>5, <1>8, <1>9, <2>2, BudgetAssumption
  <1>11. Cardinality(P)' <= MaxConcurrent
    <2>1. P' = P \cup {c}
      BY <1>2, <1>4 DEF RowsOK
    <2>2. IsFiniteSet(P) /\ Cardinality(P) \in Nat
      BY PendingIsFinite
    <2>3. ~(Cardinality(P) >= MaxConcurrent)
      BY <1>2 DEF saturated, In
    <2> HIDE DEF P
    <2>4. Cardinality(P \cup {c}) = Cardinality(P) + 1
      BY <1>2, <2>2, FS_AddElement
    <2>5. QED
      BY <2>1, <2>2, <2>3, <2>4, BudgetAssumption
  <1>12. BudgetTypeOK'
    BY <1>2, <1>4, <1>5, <1>6 DEF BudgetTypeOK, RowsOK
  <1>13. ReservationShape' /\ BillCharged'
    BY <1>2, <1>4 DEF ReservationShape, BillCharged, RowsOK, BudgetInv
  <1>14. spent' >= Charged(res')
    BY <1>4, <1>5, <1>8, <1>9 DEF BudgetInv
  <1>15. QED
    BY <1>10, <1>11, <1>12, <1>13, <1>14 DEF BudgetInv

\* Bill: the ledger does not notice.
LEMMA BillKeepsBudget ==
    ASSUME BudgetInv, NEW c \in Calls, Bill(c)
    PROVE  BudgetInv'
  <1>1. PICK cost \in 1 .. (res[c].amount + Overrun) : billed' = [billed EXCEPT ![c] = cost]
    BY DEF Bill
  <1>2. /\ res[c].state # "none" /\ billed[c] = 0
        /\ spent' = spent /\ frozen' = frozen /\ res' = res /\ call' = call
    BY DEF Bill
  <1>3. RowsOK(res) /\ billed \in [Calls -> Nat] /\ cost \in Nat
    BY BudgetAssumption DEF BudgetInv, BudgetTypeOK, RowsOK
  <1>4. BudgetTypeOK'
    BY <1>1, <1>2, <1>3 DEF BudgetInv, BudgetTypeOK
  <1>5. ReservationShape'
    BY <1>1, <1>2, <1>3 DEF BudgetInv, ReservationShape
  <1>6. BillCharged'
    BY <1>1, <1>2, <1>3 DEF BudgetInv, BillCharged, RowsOK
  <1>7. QED
    BY <1>2, <1>4, <1>5, <1>6 DEF BudgetInv, Sound

\* settle(): what was held becomes what was spent.
LEMMA SettleKeepsBudget ==
    ASSUME BudgetInv, NEW c \in Calls, NEW actual \in Nat,
           call[c] = "fetching", settle(c, actual),
           call' = [call EXCEPT ![c] = "replied"], billed' = billed,
           (billed[c] > 0 /\ billed[c] = actual) \/ actual = res[c].amount
    PROVE  BudgetInv'
  <1> DEFINE P == {d \in Calls : res[d].state = "pending"}
             row2 == [state |-> "settled", amount |-> res[c].amount, actual |-> actual]
  <1>1. /\ RowsOK(res) /\ call \in [Calls -> {"new", "fetching", "replied", "lost"}]
        /\ spent \in Nat /\ frozen \in BOOLEAN /\ billed \in [Calls -> Nat]
    BY DEF BudgetInv, BudgetTypeOK, RowsOK
  <1>2. /\ res[c].state = "pending" /\ res[c].amount \in Nat /\ res[c].actual = 0
        /\ res' = [res EXCEPT ![c] = row2]
        /\ spent' = spent + actual
        /\ frozen' = (frozen \/ actual > res[c].amount)
    BY <1>1 DEF settle, settledRow, frozenAfter, BudgetInv,
          ReservationShape, RowsOK
  <1>3. /\ RowsOK(res')
        /\ Held(res') + HeldOf(res)[c] = Held(res) + HeldOf(res')[c]
        /\ Charged(res') + res[c].actual = Charged(res) + row2.actual
    <2>1. row2 \in [state: {"none", "pending", "settled"}, amount: Nat, actual: Nat]
      BY <1>2
    <2>2. RowsOK(res') /\ res'[c] = row2 /\ \A d \in Calls \ {c} : res'[d] = res[d]
      BY <1>1, <1>2, <2>1 DEF RowsOK
    <2>3. Held(res') + HeldOf(res)[c] = Held(res) + HeldOf(res')[c]
          /\ Charged(res') + res[c].actual = Charged(res) + res'[c].actual
      BY <1>1, <2>2, OneRowChanges
    <2>4. QED
      BY <2>2, <2>3
  <1>4. HeldOf(res)[c] = res[c].amount /\ HeldOf(res')[c] = 0
    BY <1>1, <1>2 DEF HeldOf, RowsOK
  <1>5. /\ Held(res) \in Nat /\ Held(res') \in Nat
        /\ Charged(res) \in Nat /\ Charged(res') \in Nat
    BY <1>1, <1>3, HeldIsNat
  <1>6. Held(res') + res[c].amount = Held(res) /\ Charged(res') = Charged(res) + actual
    BY <1>2, <1>3, <1>4, <1>5
  <1>7. ASSUME Sound(res') PROVE Sound(res) /\ actual <= res[c].amount
    <2>1. actual <= res[c].amount
      BY <1>1, <1>2, <1>7 DEF Sound, RowsOK
    <2>2. \A d \in Calls : res[d].state = "settled" => res'[d] = res[d]
      BY <1>1, <1>2 DEF RowsOK
    <2>3. QED
      BY <1>7, <2>1, <2>2 DEF Sound
  <1>8. Sound(res') => spent' + Held(res') <= Ceiling
    BY <1>1, <1>2, <1>5, <1>6, <1>7, BudgetAssumption DEF BudgetInv
  <1>9. Cardinality(P)' <= MaxConcurrent
    <2>1. P' = P \ {c}
      BY <1>1, <1>2 DEF RowsOK
    <2>2. IsFiniteSet(P) /\ Cardinality(P) \in Nat /\ Cardinality(P) <= MaxConcurrent
      BY PendingIsFinite DEF BudgetInv
    <2> HIDE DEF P
    <2>3. Cardinality(P \ {c}) <= Cardinality(P) /\ Cardinality(P \ {c}) \in Nat
      BY <2>2, FS_Subset, FS_CardinalityType
    <2>4. QED
      BY <2>1, <2>2, <2>3, BudgetAssumption
  <1>10. BudgetTypeOK'
    BY <1>1, <1>2, <1>3 DEF BudgetTypeOK, RowsOK
  <1>11. ReservationShape'
    BY <1>1, <1>2 DEF BudgetInv, ReservationShape, RowsOK
  <1>12. BillCharged'
    BY <1>1, <1>2 DEF BudgetInv, BillCharged, RowsOK
  <1>13. spent' >= Charged(res')
    BY <1>1, <1>2, <1>5, <1>6 DEF BudgetInv
  <1>14. QED
    BY <1>8, <1>9, <1>10, <1>11, <1>12, <1>13 DEF BudgetInv

LEMMA BudgetSteps ==
    ASSUME BudgetInv, [BudgetNext]_budgetVars
    PROVE  BudgetInv'
  <1>1. ASSUME UNCHANGED <<spent, res, billed>>, frozen' \in BOOLEAN,
               \A c \in Calls : call'[c] = "new" => call[c] = "new",
               call' \in [Calls -> {"new", "fetching", "replied", "lost"}]
        PROVE  BudgetInv'
    BY <1>1 DEF BudgetInv, BudgetTypeOK, ReservationShape, BillCharged, Sound
  <1>2. ASSUME NEW c \in Calls, Refuse(c) \/ StoreUnavailable(c)
                                   \/ UsageUnknown(c)
        PROVE  BudgetInv'
    <2>1. call' = [call EXCEPT ![c] = "replied"] /\ UNCHANGED <<spent, res, billed>>
          /\ frozen' \in BOOLEAN
      BY <1>2 DEF Refuse, StoreUnavailable, UsageUnknown,
            settleUnknown, Reply, BudgetInv, BudgetTypeOK
    <2>2. QED
      BY <1>1, <2>1 DEF BudgetInv, BudgetTypeOK
  <1>3. CASE Crash
    BY <1>1, <1>3 DEF Crash, BudgetInv, BudgetTypeOK
  <1>4. ASSUME NEW c \in Calls, Completed(c) PROVE BudgetInv'
    <2>1. billed[c] \in Nat
      BY DEF BudgetInv, BudgetTypeOK
    <2>2. /\ call[c] = "fetching" /\ settle(c, billed[c]) /\ billed[c] > 0
          /\ call' = [call EXCEPT ![c] = "replied"] /\ billed' = billed
      BY <1>4 DEF Completed, Reply
    <2>3. QED
      BY <2>1, <2>2, SettleKeepsBudget
  <1>5. ASSUME NEW c \in Calls, Failed(c) PROVE BudgetInv'
    <2>1. billed[c] \in Nat /\ res[c].amount \in Nat
      BY DEF BudgetInv, BudgetTypeOK
    <2>2. /\ call[c] = "fetching" /\ settle(c, res[c].amount)
          /\ call' = [call EXCEPT ![c] = "replied"] /\ billed' = billed
      BY <1>5 DEF Failed, Reply, worstCase
    <2>3. QED
      BY <2>1, <2>2, SettleKeepsBudget
  <1>6. CASE UNCHANGED budgetVars
    BY <1>1, <1>6 DEF budgetVars, BudgetInv, BudgetTypeOK
  <1>7. QED
    BY <1>2, <1>3, <1>4, <1>5, <1>6, DispatchKeepsBudget, BillKeepsBudget DEF BudgetNext

LEMMA BudgetInvariant ==
    BudgetSpec => []BudgetInv
  BY BudgetFirst, BudgetSteps, PTL DEF BudgetSpec

(* Concurrent dispatches cannot overspend the ceiling of a run, unless the  *)
(* provider was seen to exceed a reservation (model-budget.ts).             *)
THEOREM BudgetWithinCeiling ==
    BudgetSpec => []WithinCeiling
  <1>1. BudgetInv => WithinCeiling
    <2> SUFFICES ASSUME BudgetInv,
                        \A c \in In("settled") : res[c].actual <= res[c].amount
                 PROVE  spent + outstanding <= Ceiling
      BY DEF WithinCeiling
    <2>1. RowsOK(res)
      BY DEF BudgetInv, BudgetTypeOK, RowsOK
    <2>2. Sound(res)
      BY DEF Sound, In
    <2>3. QED
      BY <2>1, <2>2, OutstandingIsHeld DEF BudgetInv
  <1>2. QED
    BY <1>1, BudgetInvariant, PTL

(* Nothing the provider bills escapes the ledger, whoever hung up, timed    *)
(* out or crashed: what is charged and what is held cover the bills, as     *)
(* long as no bill exceeds its reservation (services/model-egress-proxy.ts).*)
THEOREM BudgetCoversBills ==
    BudgetSpec => []BillsAreCovered
  <1>1. BudgetInv => BillsAreCovered
    <2> SUFFICES ASSUME BudgetInv, \A c \in Calls : billed[c] <= res[c].amount
                 PROVE  SumFunction(billed) <= spent + outstanding
      BY DEF BillsAreCovered
    <2>1. RowsOK(res) /\ billed \in [Calls -> Nat]
      BY DEF BudgetInv, BudgetTypeOK, RowsOK
    <2>2. SumFunction(billed) = SumFunctionOnSet(billed, Calls)
      <3>1. DOMAIN billed = Calls
        BY <2>1
      <3>2. QED
        BY <3>1, Zenon DEF SumFunction
    <2> DEFINE both == [c \in Calls |-> HeldOf(res)[c] + ChargedOf(res)[c]]
    <2>3. \A c \in Calls : HeldOf(res)[c] \in Nat /\ ChargedOf(res)[c] \in Nat
      BY <2>1 DEF HeldOf, ChargedOf, RowsOK
    <2>4. \A c \in Calls : billed[c] <= both[c]
      BY <2>1 DEF HeldOf, ChargedOf, RowsOK, BudgetInv, ReservationShape, BillCharged
    <2>5. SumFunctionOnSet(billed, Calls) <= SumFunctionOnSet(both, Calls)
      <3>1. \A c \in Calls : billed[c] \in Nat /\ both[c] \in Nat /\ billed[c] <= both[c]
        BY <2>1, <2>3, <2>4
      <3> HIDE DEF both
      <3>2. QED
        BY <3>1, CallsFinite, SumMonotone
    <2>6. SumFunctionOnSet(both, Calls) = Held(res) + Charged(res)
      <3>1. \A c \in Calls : both[c] = HeldOf(res)[c] + ChargedOf(res)[c]
        OBVIOUS
      <3> HIDE DEF both
      <3>2. QED
        BY <2>3, <3>1, CallsFinite, SumsAdd DEF Held, Charged
    <2>7. Held(res) \in Nat /\ Charged(res) \in Nat /\ spent \in Nat /\ spent >= Charged(res)
      BY <2>1, HeldIsNat DEF BudgetInv, BudgetTypeOK
    <2>8. SumFunctionOnSet(billed, Calls) \in Nat
      BY <2>1, CallsFinite, SumType
    <2> HIDE DEF both
    <2>9. QED
      BY <2>1, <2>2, <2>5, <2>6, <2>7, <2>8, OutstandingIsHeld
  <1>2. QED
    BY <1>1, BudgetInvariant, PTL

(* No more than MAX_CONCURRENT_DISPATCH reservations are ever pending, the  *)
(* ones a crash or an unreadable answer left behind included                *)
(* (model-budget.ts).                                                       *)
THEOREM BudgetDispatchesBounded ==
    BudgetSpec => []DispatchesBounded
  <1>1. BudgetInv => DispatchesBounded
    BY DEF BudgetInv, DispatchesBounded, In
  <1>2. QED
    BY <1>1, BudgetInvariant, PTL

(* A frozen budget stays frozen and admits no further dispatch              *)
(* (model-budget.ts).                                                       *)
THEOREM BudgetStaysFrozen ==
    BudgetSpec => FrozenForGood
  <1> DEFINE Kept == frozen => /\ frozen'
                               /\ \A c \in Calls : res[c].state = "none" => res'[c].state = "none"
  <1>1. ASSUME BudgetInv, [BudgetNext]_budgetVars PROVE [Kept]_budgetVars
    <2>1. ASSUME frozen, NEW c \in Calls, ~DispatchCall(c),
                 \/ Refuse(c) \/ Bill(c) \/ UsageUnknown(c)
                 \/ StoreUnavailable(c) \/ Crash \/ UNCHANGED budgetVars
          PROVE  frozen' /\ res' = res
      BY <2>1 DEF Refuse, Bill, UsageUnknown, settleUnknown,
            StoreUnavailable, Crash, budgetVars
    <2>2. ASSUME NEW c \in Calls, frozen, Completed(c) \/ Failed(c) PROVE Kept
      <3>1. PICK a : settle(c, a)
        BY <2>2 DEF Completed, Failed
      <3>2. res \in [Calls -> [state: {"none", "pending", "settled"}, amount: Nat, actual: Nat]]
        BY <1>1 DEF BudgetInv, BudgetTypeOK
      <3>3. QED
        BY <2>2, <3>1, <3>2 DEF settle, settledRow, frozenAfter
    <2>3. ASSUME NEW c \in Calls, frozen, DispatchCall(c) PROVE FALSE
      BY <2>3 DEF DispatchCall, reserve
    <2>4. CASE Crash \/ UNCHANGED budgetVars
      BY <2>4 DEF Crash, budgetVars
    <2>5. QED
      BY <1>1, <2>1, <2>2, <2>3, <2>4 DEF BudgetNext
  <1>2. QED
    BY <1>1, BudgetInvariant, PTL DEF BudgetSpec, FrozenForGood
==============================================================================
