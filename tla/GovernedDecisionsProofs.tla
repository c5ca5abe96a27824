---------------------- MODULE GovernedDecisionsProofs ----------------------
(***************************************************************************)
(* Proofs about GovernedDecisions: a held answer is handed out once, only  *)
(* under a recorded co-signature, and what ran is in the chain; the        *)
(* battery stays in the governed envelope; the gate and the exposure       *)
(* analysis agree.                                                         *)
(*                                                                         *)
(* The records and the chain are written in different awaits, so the       *)
(* invariant says for the section a replica is in what it has written and  *)
(* what it has yet to write (BusyOk), and for each actor what the chain    *)
(* holds about it (AnswerOk, LoopOk, QueryOk).                             *)
(***************************************************************************)
EXTENDS GovernedDecisions, FiniteSetTheorems, WellFoundedInduction, TLAPS

----------------------------------------------------------------------------
(* Sequences whose elements have no common type.                            *)

IsSeq(s) == \E S : s \in Seq(S)

(* Append keeps what a sequence holds, at its place, and adds one element:  *)
(* the audit chain is append-only.                                          *)
LEMMA AppendedSeq ==
    ASSUME NEW s, IsSeq(s), NEW x
    PROVE  /\ IsSeq(Append(s, x))
           /\ DOMAIN s = 1 .. Len(s) /\ Len(s) \in Nat
           /\ DOMAIN Append(s, x) = 1 .. Len(s) + 1
           /\ Len(Append(s, x)) = Len(s) + 1
           /\ \A i \in 1 .. Len(s) : Append(s, x)[i] = s[i]
           /\ Append(s, x)[Len(s) + 1] = x
  <1>1. PICK S : s \in Seq(S)
    BY DEF IsSeq
  <1>2. s \in Seq(S \cup {x}) /\ x \in S \cup {x}
    BY <1>1
  <1>3. Append(s, x) \in Seq(S \cup {x})
    BY <1>2
  <1>4. QED
    BY <1>2, <1>3 DEF IsSeq

(* The verdict of the gate is one of the four, whatever is evaluated.       *)
LEMMA StrictestIsOne ==
    ASSUME NEW V \in SUBSET Verdict, V # {}
    PROVE  /\ strictest(V) \in V
           /\ \A u \in V : VERDICT_ORDER[strictest(V)] >= VERDICT_ORDER[u]
  <1>1. \E v \in V : \A u \in V : VERDICT_ORDER[v] >= VERDICT_ORDER[u]
    <2>1. CASE "block" \in V
      BY <2>1 DEF Verdict, VERDICT_ORDER
    <2>2. CASE "block" \notin V /\ "escalate" \in V
      BY <2>2 DEF Verdict, VERDICT_ORDER
    <2>3. CASE "block" \notin V /\ "escalate" \notin V /\ "allow-with-cosign" \in V
      BY <2>3 DEF Verdict, VERDICT_ORDER
    <2>4. CASE V = {"allow"}
      BY <2>4 DEF Verdict, VERDICT_ORDER
    <2>5. QED
      BY <2>1, <2>2, <2>3, <2>4 DEF Verdict
  <1>2. QED
    BY <1>1 DEF strictest

LEMMA GateVerdicts ==
    ASSUME NEW ctx, NEW tier, NEW w, NEW t
    PROVE  LET p == Policy(tier)
           IN  {gateSovereignty(ctx, p), gateRiskTier(ctx, p),
                gateReversibility(ctx, p), gateImpact(ctx, p),
                gateConfidence(ctx, p), gateEvidence(ctx, p),
                gatePolicyCompliance(ctx, p), gateRateLimits(ctx, p, w, t),
                gateFallback(ctx, p)} \in SUBSET Verdict
  <1> DEFINE p == Policy(tier)
  <1>1. gateSovereignty(ctx, p) \in Verdict
    BY DEF gateSovereignty, Verdict
  <1>2. gateRiskTier(ctx, p) \in Verdict
    BY Zenon DEF gateRiskTier, Verdict
  <1>3. gateReversibility(ctx, p) \in Verdict
    BY DEF gateReversibility, Verdict, Policy
  <1>4. gateImpact(ctx, p) \in Verdict
    BY Zenon DEF gateImpact, Verdict
  <1>5. gateConfidence(ctx, p) \in Verdict
    BY Zenon DEF gateConfidence, Verdict
  <1>6. gateEvidence(ctx, p) \in Verdict
    BY Zenon DEF gateEvidence, Verdict
  <1>7. gatePolicyCompliance(ctx, p) \in Verdict /\ gateFallback(ctx, p) \in Verdict
    BY DEF gatePolicyCompliance, gateFallback, Verdict
  <1>8. gateRateLimits(ctx, p, w, t) \in Verdict
    BY Zenon DEF gateRateLimits, Verdict
  <1> HIDE DEF p
  <1>9. {gateSovereignty(ctx, p), gateRiskTier(ctx, p),
         gateReversibility(ctx, p), gateImpact(ctx, p),
         gateConfidence(ctx, p), gateEvidence(ctx, p),
         gatePolicyCompliance(ctx, p), gateRateLimits(ctx, p, w, t),
         gateFallback(ctx, p)} \in SUBSET Verdict
    BY <1>1, <1>2, <1>3, <1>4, <1>5, <1>6, <1>7, <1>8
  <1>10. QED
    BY <1>9 DEF p

LEMMA VerdictOfGate ==
    ASSUME NEW ctx, NEW tier, NEW w, NEW t
    PROVE  evaluate(ctx, Policy(tier), w, t) \in Verdict
  <1> DEFINE p == Policy(tier)
             F == {gateSovereignty(ctx, p), gateRiskTier(ctx, p),
                   gateReversibility(ctx, p), gateImpact(ctx, p),
                   gateConfidence(ctx, p), gateEvidence(ctx, p),
                   gatePolicyCompliance(ctx, p), gateRateLimits(ctx, p, w, t),
                   gateFallback(ctx, p)}
  <1>1. F \in SUBSET Verdict
    BY GateVerdicts, Zenon
  <1>2. F # {} /\ evaluate(ctx, p, w, t) = strictest(F)
    BY DEF evaluate
  <1> HIDE DEF F
  <1>3. strictest(F) \in F
    BY <1>1, <1>2, StrictestIsOne
  <1>4. QED
    BY <1>1, <1>2, <1>3

----------------------------------------------------------------------------
(* The inductive invariant: the shape of the state, and one part for each   *)
(* of the three handlers that append to the chain.                          *)

QueryFields == {"pc", "at", "ask", "routing", "i", "verdict", "confidence", "status"}
SessionFields == {"pc", "at", "domain", "actions", "i", "fallback", "baseline", "soc",
                  "verdicts", "advisories"}

RequestRecord ==
    [pc : {"new", "gateway", "context", "modelled", "enforcing", "done", "failed"},
     at : Replicas \cup {"none"}, answer : {"none", "empty", "short", "long"},
     verdict : Verdict \cup {"none", "audit-error"}]

AnswerShape ==
    /\ req \in [Requests -> RequestRecord]
    /\ held \in [Requests -> [state : {"none", "open", "released"},
                              by : Operators \cup {"none"}]]
    /\ sent \in [Requests -> [direct : 0 .. 1, released : 0 .. 1]]

SessionShape ==
    /\ DOMAIN ses = Sessions
    /\ \A s \in Sessions :
          /\ DOMAIN ses[s] = SessionFields
          /\ ses[s].pc \in {"new", "proposing", "looping", "done", "failed"}
          /\ ses[s].i \in Nat \ {0}
          /\ ses[s].verdicts \in Seq(Verdict)

QueryShape ==
    /\ DOMAIN qry = Queries /\ DOMAIN work = Queries
    /\ \A q \in Queries :
          /\ DOMAIN qry[q] = QueryFields
          /\ qry[q].pc \in {"new", "executing", "recording", "done", "failed"}

SectionShape ==
    /\ up \in [Replicas -> BOOLEAN]
    /\ busy \in [Replicas -> [k : {"idle", "enforce", "cosign", "signed", "loop",
                                   "append", "record", "work"},
                              id : Requests \cup Sessions \cup Queries \cup {"none"},
                              by : Operators \cup {"none"}]]

(* The answer to r was judged, with one of these outcomes, at place i.      *)
Judged(r, outcomes, i) ==
    /\ i \in 1 .. Len(chain)
    /\ chain[i].type = "planes.inference" /\ chain[i].id = r
    /\ chain[i].action \in outcomes

WasHeld(r) ==
    \E i \in 1 .. Len(chain) : Judged(r, {"held-for-cosign", "escalated"}, i)

(* A release signed by o follows the record of the held answer.             *)
Signed(r, o) ==
    \E i, j \in 1 .. Len(chain) :
        /\ i < j
        /\ Judged(r, {"held-for-cosign", "escalated"}, i)
        /\ chain[j] = AuditRecord("cosign.release", r, "executed", o, 0)

(* The gate and the co-signature.  An answer is retained at most once,      *)
(* since only a request that has not ended is enforced, and the row's       *)
(* state counts the releases.                                               *)
AnswerOk(r) ==
    /\ req[r].pc = "enforcing" =>
          /\ req[r].verdict \in Verdict
          /\ \E i \in 1 .. Len(chain) : Judged(r, {outcomeAction(req[r].verdict)}, i)
    /\ held[r].state # "none" => req[r].pc = "done" /\ WasHeld(r)
    /\ held[r].state = "released" => Signed(r, held[r].by)
    /\ sent[r].released = IF held[r].state = "released" THEN 1 ELSE 0
    /\ env.production /\ sent[r].direct > 0 =>
          req[r].pc = "done" /\ req[r].verdict \in {"allow", "audit-error"}

(* The loop over a proposal.  Only the verdict of the action in progress    *)
(* may be missing from the chain.                                           *)
LoopOk(s) ==
    /\ Len(ses[s].verdicts) <= ses[s].i
    /\ ses[s].pc \in {"new", "proposing", "done"} => Len(ses[s].verdicts) = ses[s].i - 1
    /\ \A j \in 1 .. Len(ses[s].verdicts) :
          ses[s].verdicts[j] = "allow" /\ j # ses[s].i =>
              \E n \in 1 .. Len(chain) :
                 chain[n] = AuditRecord("decision", s, "executed", "none", j)

(* The record of the row's engine, with its outcome.                        *)
Matches(q, row, rec) ==
    /\ rec.type = "model-exchange" /\ rec.id = q /\ rec.by = row.engine
    /\ (row.status = "rejected") = (rec.action = "blocked")

RowsMatched(q) ==
    \A n \in 1 .. Len(work[q]) : \E m \in 1 .. Len(chain) :
        Matches(q, work[q][n], chain[m])

Answered == {"rejected-governance", "completed", "escalated"}

(* The query: its one row is written last, after the record.                *)
QueryOk(q) ==
    /\ qry[q].pc \in {"new", "executing"} => work[q] = <<>> /\ qry[q].status = "none"
    /\ qry[q].pc = "recording" => work[q] = <<>> /\ qry[q].status \in Answered
    /\ qry[q].pc = "failed" => work[q] = <<>>
    /\ qry[q].pc = "done" =>
          \/ qry[q].status \in {"none", "rejected-policy", "failed"} /\ work[q] = <<>>
          \/ \E row : work[q] = <<row>>
    /\ RowsMatched(q)

(* What the section that replica p is in has done so far.                   *)
BusyOk(p) ==
    /\ up[p] => assertMi9EnforcementAllowed
    /\ busy[p].k = "enforce" =>
          /\ busy[p].id \in Requests
          /\ req[busy[p].id].pc = "enforcing" /\ req[busy[p].id].at = p
    /\ busy[p].k \in {"cosign", "signed"} =>
          /\ busy[p].id \in Requests /\ held[busy[p].id].state # "none"
          /\ busy[p].k = "signed" => Signed(busy[p].id, busy[p].by)
    /\ busy[p].k \in {"loop", "append"} =>
          /\ busy[p].id \in Sessions
          /\ ses[busy[p].id].pc = "looping" /\ ses[busy[p].id].at = p
          /\ Len(ses[busy[p].id].verdicts) =
                IF busy[p].k = "loop" THEN ses[busy[p].id].i - 1 ELSE ses[busy[p].id].i
    /\ busy[p].k \in {"record", "work"} =>
          /\ busy[p].id \in Queries
          /\ qry[busy[p].id].pc = "recording" /\ qry[busy[p].id].at = p
          /\ busy[p].k = "work" =>
                \E n \in 1 .. Len(chain) :
                   chain[n] = AuditRecord("model-exchange", busy[p].id,
                                          queryAction(busy[p].id),
                                          candidate(busy[p].id).id, 0)

Answers == AnswerShape /\ \A r \in Requests : AnswerOk(r)
Loops == SessionShape /\ \A s \in Sessions : LoopOk(s)
Exchanges == QueryShape /\ \A q \in Queries : QueryOk(q)
Sections == SectionShape /\ \A p \in Replicas : BusyOk(p)

Inv == IsSeq(chain) /\ Answers /\ Loops /\ Exchanges /\ Sections

----------------------------------------------------------------------------
(* What a step leaves alone.                                                *)

(* The chain is as long or longer, and its records are where they were.     *)
ChainKept ==
    /\ Len(chain) \in Nat /\ Len(chain') \in Nat /\ Len(chain) <= Len(chain')
    /\ \A i \in 1 .. Len(chain) : chain'[i] = chain[i]

LEMMA ChainGrows ==
    ASSUME IsSeq(chain), UNCHANGED chain \/ \E x : chain' = Append(chain, x)
    PROVE  IsSeq(chain') /\ ChainKept
  <1>1. CASE UNCHANGED chain
    BY <1>1 DEF ChainKept, IsSeq
  <1>2. ASSUME NEW x, chain' = Append(chain, x) PROVE IsSeq(chain') /\ ChainKept
    BY <1>2, AppendedSeq DEF ChainKept
  <1>3. QED
    BY <1>1, <1>2

LEMMA RecordsStay ==
    ASSUME ChainKept, NEW r
    PROVE  /\ \A outcomes, i : Judged(r, outcomes, i) =>
                                 Judged(r, outcomes, i)' /\ i \in 1 .. Len(chain')
           /\ WasHeld(r) => WasHeld(r)'
           /\ \A o : Signed(r, o) => Signed(r, o)'
  <1>1. ASSUME NEW outcomes, NEW i, Judged(r, outcomes, i)
        PROVE  Judged(r, outcomes, i)' /\ i \in 1 .. Len(chain')
    BY <1>1 DEF ChainKept, Judged
  <1>2. WasHeld(r) => WasHeld(r)'
    BY <1>1, Zenon DEF WasHeld
  <1>3. ASSUME NEW o, Signed(r, o) PROVE Signed(r, o)'
    <2>1. PICK i \in 1 .. Len(chain), j \in 1 .. Len(chain) :
             /\ i < j
             /\ Judged(r, {"held-for-cosign", "escalated"}, i)
             /\ chain[j] = AuditRecord("cosign.release", r, "executed", o, 0)
      BY <1>3, Zenon DEF Signed
    <2>2. i \in 1 .. Len(chain') /\ j \in 1 .. Len(chain') /\ chain'[j] = chain[j]
      BY DEF ChainKept
    <2>3. Judged(r, {"held-for-cosign", "escalated"}, i)'
      BY <1>1, <2>1
    <2>4. QED
      BY <2>1, <2>2, <2>3, Zenon DEF Signed, AuditRecord
  <1>4. QED
    BY <1>1, <1>2, <1>3

LEMMA AnswerKept ==
    ASSUME ChainKept, NEW r \in Requests, AnswerOk(r), UNCHANGED env,
           req'[r] = req[r], held'[r] = held[r], sent'[r] = sent[r]
    PROVE  AnswerOk(r)'
  <1>1. \A outcomes, i : Judged(r, outcomes, i) =>
                           Judged(r, outcomes, i)' /\ i \in 1 .. Len(chain')
    BY RecordsStay
  <1>2. WasHeld(r) => WasHeld(r)'
    BY RecordsStay
  <1>3. PICK o : o = held[r].by /\ o = held'[r].by
    BY Zenon
  <1>4. Signed(r, o) => Signed(r, o)'
    BY RecordsStay
  <1>5. (held[r].state = "released" => Signed(r, held[r].by))'
    BY <1>3, <1>4, Zenon DEF AnswerOk
  <1>6. (held[r].state # "none" => req[r].pc = "done" /\ WasHeld(r))'
    BY <1>2, Zenon DEF AnswerOk
  <1>7. (req[r].pc = "enforcing" =>
            /\ req[r].verdict \in Verdict
            /\ \E i \in 1 .. Len(chain) : Judged(r, {outcomeAction(req[r].verdict)}, i))'
    <2> SUFFICES ASSUME req[r].pc = "enforcing"
                 PROVE  \E i \in 1 .. Len(chain') :
                           Judged(r, {outcomeAction(req[r].verdict)}, i)'
      BY Zenon DEF AnswerOk
    <2>0. PICK v : v = req[r].verdict
      BY Zenon
    <2>1. PICK i \in 1 .. Len(chain) : Judged(r, {outcomeAction(v)}, i)
      BY <2>0, Zenon DEF AnswerOk
    <2>2. Judged(r, {outcomeAction(v)}, i)' /\ i \in 1 .. Len(chain')
      BY <1>1, <2>1
    <2>3. v = req'[r].verdict
      BY <2>0
    <2>4. QED
      BY <2>2, <2>3, Zenon
  <1>8. QED
    BY <1>5, <1>6, <1>7, Zenon DEF AnswerOk

LEMMA LoopKept ==
    ASSUME ChainKept, NEW s \in Sessions, LoopOk(s), ses'[s].i = ses[s].i,
           ses'[s].verdicts = ses[s].verdicts,
           \/ ses'[s].pc \notin {"new", "proposing", "done"}
           \/ ses[s].pc \in {"new", "proposing", "done"}
    PROVE  LoopOk(s)'
  <1>1. ASSUME NEW j \in 1 .. Len(ses[s].verdicts),
               ses[s].verdicts[j] = "allow", j # ses[s].i
        PROVE  \E n \in 1 .. Len(chain') :
                  chain'[n] = AuditRecord("decision", s, "executed", "none", j)
    <2>1. PICK n \in 1 .. Len(chain) :
                  chain[n] = AuditRecord("decision", s, "executed", "none", j)
      BY <1>1, Zenon DEF LoopOk
    <2>2. n \in 1 .. Len(chain') /\ chain'[n] = chain[n]
      BY DEF ChainKept
    <2>3. QED
      BY <2>1, <2>2, Zenon
  <1>2. (\A j \in 1 .. Len(ses[s].verdicts) :
            ses[s].verdicts[j] = "allow" /\ j # ses[s].i =>
              \E n \in 1 .. Len(chain) :
                 chain[n] = AuditRecord("decision", s, "executed", "none", j))'
    BY <1>1, Zenon DEF AuditRecord
  <1>3. QED
    BY <1>2, Zenon DEF LoopOk

(* The rows of a query whose work is untouched stay matched by records.     *)
LEMMA RowsKept ==
    ASSUME ChainKept, NEW q \in Queries, RowsMatched(q), work'[q] = work[q]
    PROVE  RowsMatched(q)'
  <1> SUFFICES ASSUME NEW n \in 1 .. Len(work[q])
               PROVE  \E m \in 1 .. Len(chain') : Matches(q, work[q][n], chain'[m])
    BY DEF RowsMatched, Matches
  <1>1. PICK m \in 1 .. Len(chain) : Matches(q, work[q][n], chain[m])
    BY Zenon DEF RowsMatched
  <1>2. m \in 1 .. Len(chain') /\ chain'[m] = chain[m]
    BY DEF ChainKept
  <1>3. QED
    BY <1>1, <1>2, Zenon

LEMMA QueryKept ==
    ASSUME ChainKept, NEW q \in Queries, QueryOk(q), work'[q] = work[q],
           qry'[q] = qry[q]
    PROVE  QueryOk(q)'
  <1>1. (/\ qry[q].pc \in {"new", "executing"} => work[q] = <<>> /\ qry[q].status = "none"
         /\ qry[q].pc = "recording" => work[q] = <<>> /\ qry[q].status \in Answered
         /\ qry[q].pc = "failed" => work[q] = <<>>
         /\ qry[q].pc = "done" =>
              \/ qry[q].status \in {"none", "rejected-policy", "failed"} /\ work[q] = <<>>
              \/ \E row : work[q] = <<row>>)'
    BY DEF QueryOk, Answered
  <1>2. QED
    BY <1>1, RowsKept, Zenon DEF QueryOk

(* The section of replica p and what it works on are left alone.            *)
Undisturbed(p) ==
    /\ busy'[p] = busy[p] /\ up'[p] = up[p]
    /\ busy[p].k = "enforce" => req'[busy[p].id] = req[busy[p].id]
    /\ busy[p].k \in {"cosign", "signed"} => held'[busy[p].id].state # "none"
    /\ busy[p].k \in {"loop", "append"} => ses'[busy[p].id] = ses[busy[p].id]
    /\ busy[p].k \in {"record", "work"} => qry'[busy[p].id] = qry[busy[p].id]

LEMMA BusyKept ==
    ASSUME ChainKept, NEW p \in Replicas, BusyOk(p), UNCHANGED env, Undisturbed(p)
    PROVE  BusyOk(p)'
  <1> USE DEF Undisturbed
  <1>1. (up[p] => assertMi9EnforcementAllowed)'
    BY Zenon DEF BusyOk, assertMi9EnforcementAllowed
  <1>2. (busy[p].k = "enforce" =>
           /\ busy[p].id \in Requests
           /\ req[busy[p].id].pc = "enforcing" /\ req[busy[p].id].at = p)'
    BY Zenon DEF BusyOk
  <1>3. (busy[p].k \in {"cosign", "signed"} =>
           /\ busy[p].id \in Requests /\ held[busy[p].id].state # "none"
           /\ busy[p].k = "signed" => Signed(busy[p].id, busy[p].by))'
    <2>1. PICK r, o : r = busy[p].id /\ o = busy[p].by
      BY Zenon
    <2>2. Signed(r, o) => Signed(r, o)'
      BY RecordsStay
    <2>3. r = busy'[p].id /\ o = busy'[p].by
      BY <2>1
    <2>4. busy[p].k = "signed" => Signed(r, o)
      BY <2>1, Zenon DEF BusyOk
    <2>5. QED
      BY <2>1, <2>2, <2>3, <2>4, Zenon DEF BusyOk
  <1>4. (busy[p].k \in {"loop", "append"} =>
           /\ busy[p].id \in Sessions
           /\ ses[busy[p].id].pc = "looping" /\ ses[busy[p].id].at = p
           /\ Len(ses[busy[p].id].verdicts) =
                IF busy[p].k = "loop" THEN ses[busy[p].id].i - 1 ELSE ses[busy[p].id].i)'
    BY Zenon DEF BusyOk
  <1>5. (busy[p].k \in {"record", "work"} =>
           /\ busy[p].id \in Queries
           /\ qry[busy[p].id].pc = "recording" /\ qry[busy[p].id].at = p
           /\ busy[p].k = "work" =>
                \E n \in 1 .. Len(chain) :
                   chain[n] = AuditRecord("model-exchange", busy[p].id,
                                          queryAction(busy[p].id),
                                          candidate(busy[p].id).id, 0))'
    <2>1. PICK q : q = busy[p].id
      BY Zenon
    <2>2. ASSUME busy[p].k = "work"
          PROVE  \E n \in 1 .. Len(chain') :
                    chain'[n] = AuditRecord("model-exchange", q, queryAction(q)',
                                            candidate(q)'.id, 0)
      <3>1. PICK n \in 1 .. Len(chain) :
                   chain[n] = AuditRecord("model-exchange", q, queryAction(q),
                                          candidate(q).id, 0)
        BY <2>1, <2>2, Zenon DEF BusyOk
      <3>2. n \in 1 .. Len(chain') /\ chain'[n] = chain[n]
        BY DEF ChainKept
      <3>3. qry'[q] = qry[q]
        BY <2>1, <2>2
      <3>4. queryAction(q)' = queryAction(q) /\ candidate(q)' = candidate(q)
        BY <3>3, Zenon DEF queryAction, candidate
      <3>5. QED
        BY <3>1, <3>2, <3>4, Zenon
    <2>3. q = busy'[p].id
      BY <2>1
    <2>4. QED
      BY <2>1, <2>2, <2>3, Zenon DEF BusyOk, AuditRecord
  <1>6. QED
    BY <1>1, <1>2, <1>3, <1>4, <1>5, Zenon DEF BusyOk

LEMMA AnswersFrame ==
    ASSUME Answers, ChainKept, UNCHANGED <<env, req, held, sent>>
    PROVE  Answers'
  <1>1. \A r \in Requests : AnswerOk(r)'
    BY AnswerKept DEF Answers
  <1>2. QED
    BY <1>1, Zenon DEF Answers, AnswerShape

LEMMA LoopsFrame ==
    ASSUME Loops, ChainKept, UNCHANGED ses
    PROVE  Loops'
  <1>1. \A s \in Sessions : LoopOk(s)'
    BY LoopKept, Zenon DEF Loops, SessionShape
  <1>2. QED
    BY <1>1, Zenon DEF Loops, SessionShape

LEMMA ExchangesFrame ==
    ASSUME Exchanges, ChainKept, UNCHANGED <<qry, work>>
    PROVE  Exchanges'
  <1>1. \A q \in Queries : QueryOk(q)'
    BY QueryKept DEF Exchanges
  <1>2. QED
    BY <1>1, Zenon DEF Exchanges, QueryShape

LEMMA SectionsFrame ==
    ASSUME Sections, ChainKept, UNCHANGED env, SectionShape',
           \A p \in Replicas : Undisturbed(p) \/ BusyOk(p)'
    PROVE  Sections'
  <1>1. \A p \in Replicas : BusyOk(p)'
    BY BusyKept DEF Sections
  <1>2. QED
    BY <1>1, Zenon DEF Sections

(* Whose turn it is: a section works on something that is its replica's.    *)
WorksOn(p) ==
    /\ busy[p].k = "enforce" =>
          /\ busy[p].id \in Requests
          /\ req[busy[p].id].pc = "enforcing" /\ req[busy[p].id].at = p
    /\ busy[p].k \in {"cosign", "signed"} =>
          busy[p].id \in Requests /\ held[busy[p].id].state # "none"
    /\ busy[p].k \in {"loop", "append"} =>
          /\ busy[p].id \in Sessions
          /\ ses[busy[p].id].pc = "looping" /\ ses[busy[p].id].at = p
    /\ busy[p].k \in {"record", "work"} =>
          /\ busy[p].id \in Queries
          /\ qry[busy[p].id].pc = "recording" /\ qry[busy[p].id].at = p

LEMMA SectionsWork ==
    ASSUME Inv
    PROVE  SectionShape /\ \A p \in Replicas : BusyOk(p) /\ WorksOn(p)
  <1>1. ASSUME NEW p \in Replicas, BusyOk(p) PROVE WorksOn(p)
    BY <1>1, Zenon DEF BusyOk, WorksOn
  <1>2. QED
    BY <1>1 DEF Inv, Sections

----------------------------------------------------------------------------
(* One lemma per step, or group of steps with the same effect.              *)

(* Planes 1 to 3: a request that is neither enforced nor ended moves on.    *)
LEMMA PlaneStep ==
    ASSUME Inv, NEW r \in Requests, AnswerShape', req[r].pc \notin {"enforcing", "done"},
           req'[r].pc # "enforcing", \A x \in Requests \ {r} : req'[x] = req[x],
           UNCHANGED <<env, up, busy, held, sent, ses, qry, work, chain>>
    PROVE  Inv'
  <1>1. IsSeq(chain)' /\ ChainKept
    BY ChainGrows DEF Inv
  <1>2. ASSUME NEW x \in Requests \ {r} PROVE AnswerOk(x)'
    BY <1>1, AnswerKept DEF Inv, Answers
  <1>3. AnswerOk(r)'
    BY DEF Inv, Answers, AnswerShape, AnswerOk
  <1>4. Answers'
    BY <1>2, <1>3, Zenon DEF Answers
  <1>5. Loops' /\ Exchanges'
    BY <1>1, LoopsFrame, ExchangesFrame DEF Inv
  <1>6. \A p \in Replicas : Undisturbed(p)
    BY SectionsWork DEF WorksOn, Undisturbed
  <1>7. SectionShape'
    BY Zenon DEF Inv, Sections, SectionShape
  <1>8. Sections'
    BY <1>1, <1>6, <1>7, SectionsFrame DEF Inv
  <1>9. QED
    BY <1>1, <1>4, <1>5, <1>8, Zenon DEF Inv

LEMMA GatewayStep ==
    ASSUME Inv, NEW r \in Requests, NEW p \in Replicas, NEW injected \in BOOLEAN,
           Gateway(r, p, injected)
    PROVE  Inv'
  <1>1. AnswerShape' /\ req[r].pc = "new" /\ req'[r].pc # "enforcing"
    <2>1. req[r] \in RequestRecord
      BY DEF Inv, Answers, AnswerShape
    <2>2. QED
      BY <2>1 DEF Gateway, Inv, Answers, AnswerShape, RequestRecord
  <1>2. \A x \in Requests \ {r} : req'[x] = req[x]
    BY DEF Gateway, Inv, Answers, AnswerShape
  <1>3. QED
    BY <1>1, <1>2, PlaneStep DEF Gateway

LEMMA ContextStep ==
    ASSUME Inv, NEW r \in Requests, NEW p \in Replicas, Context(r, p)
    PROVE  Inv'
  <1>1. AnswerShape' /\ req[r].pc = "gateway" /\ req'[r].pc # "enforcing"
    <2>1. req[r] \in RequestRecord
      BY DEF Inv, Answers, AnswerShape
    <2>2. QED
      BY <2>1 DEF Context, Inv, Answers, AnswerShape, RequestRecord
  <1>2. \A x \in Requests \ {r} : req'[x] = req[x]
    BY DEF Context, Inv, Answers, AnswerShape
  <1>3. QED
    BY <1>1, <1>2, PlaneStep DEF Context

LEMMA ModelFabricStep ==
    ASSUME Inv, NEW r \in Requests, NEW p \in Replicas, NEW strategy, NEW calls,
           NEW answer \in {"empty", "short", "long"},
           ModelFabric(r, p, strategy, calls, answer)
    PROVE  Inv'
  <1>1. AnswerShape' /\ req[r].pc = "context" /\ req'[r].pc # "enforcing"
    <2>1. req[r] \in RequestRecord
      BY DEF Inv, Answers, AnswerShape
    <2>2. QED
      BY <2>1 DEF ModelFabric, Inv, Answers, AnswerShape, RequestRecord
  <1>2. \A x \in Requests \ {r} : req'[x] = req[x]
    BY DEF ModelFabric, Inv, Answers, AnswerShape
  <1>3. QED
    BY <1>1, <1>2, PlaneStep DEF ModelFabric

(* The gate appends before it retains or answers.                           *)
LEMMA GateStep ==
    ASSUME Inv, NEW r \in Requests, NEW p \in Replicas, NEW active \in BOOLEAN,
           Gate(r, p, active)
    PROVE  Inv'
  <1>1. IsSeq(chain)' /\ ChainKept
    BY ChainGrows, Zenon DEF Inv, Gate
  <1>2. PICK v : v = evaluate(inferenceContext(r, active), Policy(env.unknownTier),
                              window[p], now)
    BY Zenon
  <1>3. v \in Verdict
    BY <1>2, VerdictOfGate, Zenon
  <1>4. /\ chain' = Append(chain, AuditRecord("planes.inference", r, outcomeAction(v),
                                              "none", 0))
        /\ req' = [req EXCEPT ![r].pc = "enforcing", ![r].verdict = v,
                              ![r].answer = "none"]
        /\ busy' = [busy EXCEPT ![p] = [k |-> "enforce", id |-> r, by |-> "none"]]
        /\ req[r].pc = "modelled" /\ req[r].at = p /\ up[p] /\ busy[p] = Idle
        /\ UNCHANGED <<env, up, held, sent, ses, qry, work>>
    BY <1>2, Zenon DEF Gate, Free
  <1>5. AnswerShape' /\ req'[r].pc = "enforcing" /\ req'[r].verdict = v /\ req'[r].at = p
    <2>1. req[r] \in RequestRecord
      BY DEF Inv, Answers, AnswerShape
    <2>2. QED
      BY <1>3, <1>4, <2>1 DEF Inv, Answers, AnswerShape, RequestRecord
  <1>6. \A x \in Requests \ {r} : req'[x] = req[x]
    BY <1>4 DEF Inv, Answers, AnswerShape
  <1>7. \A x \in Requests \ {r} : AnswerOk(x)'
    BY <1>1, <1>4, <1>6, AnswerKept DEF Inv, Answers
  <1>8. AnswerOk(r)'
    <2>1. /\ Len(chain) + 1 \in 1 .. Len(chain')
          /\ chain'[Len(chain) + 1] = AuditRecord("planes.inference", r,
                                                  outcomeAction(v), "none", 0)
      BY <1>4, AppendedSeq DEF Inv
    <2>2. PICK i \in 1 .. Len(chain') :
             chain'[i] = AuditRecord("planes.inference", r, outcomeAction(v), "none", 0)
      BY <2>1
    <2>3. Judged(r, {outcomeAction(req[r].verdict)}, i)'
      BY <1>5, <2>2 DEF Judged, AuditRecord
    <2>4. AnswerOk(r) /\ held[r].state = "none" /\ (env.production => ~(sent[r].direct > 0))
      BY <1>4 DEF Inv, Answers, AnswerOk
    <2>5. QED
      BY <1>3, <1>4, <1>5, <2>3, <2>4 DEF AnswerOk
  <1>9. Answers'
    BY <1>5, <1>7, <1>8, Zenon DEF Answers
  <1>10. Loops' /\ Exchanges'
    BY <1>1, <1>4, LoopsFrame, ExchangesFrame DEF Inv
  <1>11. SectionShape'
    BY <1>4 DEF Inv, Sections, SectionShape
  <1>12. BusyOk(p)'
    BY <1>4, <1>5 DEF Inv, Sections, SectionShape, BusyOk, assertMi9EnforcementAllowed
  <1>13. ASSUME NEW x \in Replicas \ {p} PROVE Undisturbed(x)
    <2>1. WorksOn(x) /\ busy'[x] = busy[x]
      BY <1>4, SectionsWork DEF SectionShape
    <2>2. QED
      BY <1>4, <1>6, <2>1 DEF WorksOn, Undisturbed
  <1>14. Sections'
    BY <1>1, <1>4, <1>11, <1>12, <1>13, SectionsFrame DEF Inv
  <1>15. QED
    BY <1>1, <1>9, <1>10, <1>14, Zenon DEF Inv

(* The catch: the record could not be appended and the content goes out.    *)
LEMMA GateRaisesStep ==
    ASSUME Inv, NEW r \in Requests, NEW p \in Replicas, GateRaises(r, p)
    PROVE  Inv'
  <1>1. IsSeq(chain)' /\ ChainKept
    BY ChainGrows, Zenon DEF Inv, GateRaises
  <1>2. /\ req' = [req EXCEPT ![r].pc = "done", ![r].verdict = "audit-error",
                              ![r].answer = "none"]
        /\ sent' = [sent EXCEPT ![r].direct = 1]
        /\ req[r].pc = "modelled"
        /\ UNCHANGED <<env, up, busy, held, ses, qry, work, chain>>
    BY DEF GateRaises
  <1>3. AnswerShape' /\ req'[r].pc = "done" /\ req'[r].verdict = "audit-error"
    <2>1. req[r] \in RequestRecord /\ sent[r] \in [direct : 0 .. 1, released : 0 .. 1]
      BY DEF Inv, Answers, AnswerShape
    <2>2. req' \in [Requests -> RequestRecord] /\ req'[r].pc = "done"
          /\ req'[r].verdict = "audit-error"
      BY <1>2, <2>1 DEF Inv, Answers, AnswerShape, RequestRecord
    <2>3. sent' \in [Requests -> [direct : 0 .. 1, released : 0 .. 1]]
      BY <1>2, <2>1 DEF Inv, Answers, AnswerShape
    <2>4. QED
      BY <1>2, <2>2, <2>3, Zenon DEF Inv, Answers, AnswerShape
  <1>4. \A x \in Requests \ {r} : req'[x] = req[x] /\ sent'[x] = sent[x]
    BY <1>2 DEF Inv, Answers, AnswerShape
  <1>5. \A x \in Requests \ {r} : AnswerOk(x)'
    BY <1>1, <1>2, <1>4, AnswerKept DEF Inv, Answers
  <1>6. AnswerOk(r)'
    <2>1. AnswerOk(r) /\ held[r].state = "none"
      BY <1>2 DEF Inv, Answers, AnswerOk
    <2>2. sent'[r].released = sent[r].released
      BY <1>2 DEF Inv, Answers, AnswerShape
    <2>3. QED
      BY <1>2, <1>3, <2>1, <2>2 DEF AnswerOk
  <1>7. Answers'
    BY <1>3, <1>5, <1>6, Zenon DEF Answers
  <1>8. Loops' /\ Exchanges'
    BY <1>1, <1>2, LoopsFrame, ExchangesFrame DEF Inv
  <1>9. ASSUME NEW x \in Replicas PROVE Undisturbed(x)
    <2>1. WorksOn(x)
      BY SectionsWork
    <2>2. QED
      BY <1>2, <1>4, <2>1 DEF WorksOn, Undisturbed
  <1>10. SectionShape'
    BY <1>2, Zenon DEF Inv, Sections, SectionShape
  <1>11. Sections'
    BY <1>1, <1>2, <1>9, <1>10, SectionsFrame DEF Inv
  <1>12. QED
    BY <1>1, <1>7, <1>8, <1>11, Zenon DEF Inv

(* A section that ends leaves its replica idle.                             *)
LEMMA SectionEnds ==
    ASSUME Inv, ChainKept, NEW p \in Replicas, busy' = [busy EXCEPT ![p] = Idle],
           UNCHANGED <<env, up>>, \A x \in Replicas \ {p} : Undisturbed(x)
    PROVE  Sections'
  <1>1. SectionShape' /\ busy'[p] = Idle
    BY DEF Inv, Sections, SectionShape, Idle
  <1>2. BusyOk(p)'
    BY <1>1, SectionsWork DEF BusyOk, Idle, assertMi9EnforcementAllowed
  <1>3. QED
    BY <1>1, <1>2, SectionsFrame DEF Inv

LEMMA EnforceStep ==
    ASSUME Inv, NEW p \in Replicas, Enforce(p)
    PROVE  Inv'
  <1>1. IsSeq(chain)' /\ ChainKept
    BY ChainGrows, Zenon DEF Inv, Enforce
  <1>2. PICK r \in Requests :
           r = busy[p].id /\ req[r].pc = "enforcing" /\ req[r].at = p
    <2>1. WorksOn(p)
      BY SectionsWork
    <2>2. QED
      BY <2>1, Zenon DEF Enforce, WorksOn
  <1>3. PICK how : how = enforcement(req[r].verdict)
    BY Zenon
  <1>4. /\ held' = IF how = "held-for-cosign"
                   THEN [held EXCEPT ![r] = [state |-> "open", by |-> "none"]] ELSE held
        /\ sent' = IF how \in {"recorded-only", "allowed"}
                   THEN [sent EXCEPT ![r].direct = 1] ELSE sent
        /\ req' = [req EXCEPT ![r].pc = "done"]
        /\ busy' = [busy EXCEPT ![p] = Idle]
        /\ UNCHANGED <<env, up, ses, qry, work, chain>>
    BY <1>2, <1>3, Zenon DEF Enforce
  <1>5. assertMi9EnforcementAllowed
    BY SectionsWork DEF Enforce, BusyOk
  <1>6. AnswerOk(r) /\ req[r] \in RequestRecord /\ held[r].state = "none"
    <2>1. AnswerOk(r) /\ req[r] \in RequestRecord
      BY DEF Inv, Answers, AnswerShape
    <2>2. QED
      BY <1>2, <2>1 DEF AnswerOk
  <1>7. /\ AnswerShape' /\ req'[r].pc = "done" /\ req'[r].verdict = req[r].verdict
        /\ sent'[r].released = sent[r].released
    <2>1. AnswerShape /\ sent[r] \in [direct : 0 .. 1, released : 0 .. 1]
      BY DEF Inv, Answers, AnswerShape
    <2>2. /\ req' \in [Requests -> RequestRecord] /\ req'[r].pc = "done"
          /\ req'[r].verdict = req[r].verdict
      BY <1>4, <1>6, <2>1 DEF AnswerShape, RequestRecord
    <2>3. /\ sent' \in [Requests -> [direct : 0 .. 1, released : 0 .. 1]]
          /\ sent'[r].released = sent[r].released
      BY <1>4, <2>1 DEF AnswerShape
    <2>4. held' \in [Requests -> [state : {"none", "open", "released"},
                                 by : Operators \cup {"none"}]]
      BY <1>4, <2>1 DEF AnswerShape
    <2>5. QED
      BY <2>2, <2>3, <2>4, Zenon DEF AnswerShape
  <1>8. \A x \in Requests \ {r} :
           req'[x] = req[x] /\ sent'[x] = sent[x] /\ held'[x] = held[x]
    BY <1>4 DEF Inv, Answers, AnswerShape
  <1>9. \A x \in Requests \ {r} : AnswerOk(x)'
    BY <1>1, <1>4, <1>8, AnswerKept DEF Inv, Answers
  <1>10. AnswerOk(r)'
    <2>1. CASE how = "held-for-cosign"
      <3>1. req[r].verdict \in {"allow-with-cosign", "escalate"}
        BY <1>3, <2>1 DEF enforcement, humanCoSignRequired
      <3>2. outcomeAction(req[r].verdict) \in {"held-for-cosign", "escalated"}
        BY <3>1 DEF outcomeAction
      <3>3. WasHeld(r)
        BY <1>2, <1>6, <3>2 DEF AnswerOk, WasHeld, Judged
      <3>4. WasHeld(r)'
        BY <1>1, <3>3, RecordsStay
      <3>5. held'[r].state = "open" /\ sent'[r] = sent[r]
        BY <1>4, <2>1 DEF Inv, Answers, AnswerShape
      <3>6. sent[r].released = 0 /\ (env.production => ~(sent[r].direct > 0))
        BY <1>2, <1>6 DEF AnswerOk
      <3>7. QED
        BY <1>4, <1>7, <3>4, <3>5, <3>6 DEF AnswerOk
    <2>2. CASE how # "held-for-cosign"
      <3>1. held'[r] = held[r] /\ sent'[r].released = 0
        BY <1>4, <1>6, <1>7, <2>2 DEF AnswerOk
      <3>2. env.production /\ sent'[r].direct > 0 => req[r].verdict = "allow"
        <4>1. ASSUME env.production, how = "blocked" PROVE ~(sent'[r].direct > 0)
          BY <1>2, <1>4, <1>6, <4>1 DEF AnswerOk
        <4>2. ASSUME env.production, how # "blocked" PROVE req[r].verdict = "allow"
          BY <1>2, <1>3, <1>5, <1>6, <2>2, <4>2
             DEF AnswerOk, enforcement, humanCoSignRequired, Verdict,
                 assertMi9EnforcementAllowed
        <4>3. QED
          BY <4>1, <4>2
      <3>3. QED
        BY <1>4, <1>6, <1>7, <3>1, <3>2 DEF AnswerOk
    <2>3. QED
      BY <2>1, <2>2
  <1>11. Answers'
    BY <1>7, <1>9, <1>10, Zenon DEF Answers
  <1>12. Loops' /\ Exchanges'
    BY <1>1, <1>4, LoopsFrame, ExchangesFrame DEF Inv
  <1>13. ASSUME NEW x \in Replicas \ {p} PROVE Undisturbed(x)
    <2>1. WorksOn(x) /\ busy'[x] = busy[x]
      BY <1>4, SectionsWork DEF SectionShape
    <2>2. \A y \in Requests : held[y].state # "none" => held'[y].state # "none"
      BY <1>6, <1>8
    <2>3. QED
      BY <1>2, <1>4, <1>8, <2>1, <2>2 DEF WorksOn, Undisturbed
  <1>14. Sections'
    BY <1>1, <1>4, <1>13, SectionEnds
  <1>15. QED
    BY <1>1, <1>11, <1>12, <1>14, Zenon DEF Inv

LEMMA HoldRaisesStep ==
    ASSUME Inv, NEW p \in Replicas, HoldRaises(p)
    PROVE  Inv'
  <1>1. IsSeq(chain)' /\ ChainKept
    BY ChainGrows, Zenon DEF Inv, HoldRaises
  <1>2. PICK r \in Requests :
           r = busy[p].id /\ req[r].pc = "enforcing" /\ req[r].at = p
    <2>1. WorksOn(p)
      BY SectionsWork
    <2>2. QED
      BY <2>1, Zenon DEF HoldRaises, WorksOn
  <1>3. /\ sent' = [sent EXCEPT ![r].direct = 1]
        /\ req' = [req EXCEPT ![r].pc = "done", ![r].verdict = "audit-error"]
        /\ busy' = [busy EXCEPT ![p] = Idle]
        /\ UNCHANGED <<env, up, held, ses, qry, work, chain>>
    BY <1>2, Zenon DEF HoldRaises
  <1>4. AnswerShape' /\ req'[r].pc = "done" /\ req'[r].verdict = "audit-error"
    <2>1. req[r] \in RequestRecord /\ sent[r] \in [direct : 0 .. 1, released : 0 .. 1]
      BY DEF Inv, Answers, AnswerShape
    <2>2. req' \in [Requests -> RequestRecord] /\ req'[r].pc = "done"
          /\ req'[r].verdict = "audit-error"
      BY <1>3, <2>1 DEF Inv, Answers, AnswerShape, RequestRecord
    <2>3. sent' \in [Requests -> [direct : 0 .. 1, released : 0 .. 1]]
      BY <1>3, <2>1 DEF Inv, Answers, AnswerShape
    <2>4. QED
      BY <1>3, <2>2, <2>3, Zenon DEF Inv, Answers, AnswerShape
  <1>5. \A x \in Requests \ {r} : req'[x] = req[x] /\ sent'[x] = sent[x]
    BY <1>3 DEF Inv, Answers, AnswerShape
  <1>6. \A x \in Requests \ {r} : AnswerOk(x)'
    BY <1>1, <1>3, <1>5, AnswerKept DEF Inv, Answers
  <1>7. AnswerOk(r)'
    <2>1. AnswerOk(r) /\ held[r].state = "none"
      BY <1>2 DEF Inv, Answers, AnswerOk
    <2>2. sent'[r].released = sent[r].released
      BY <1>3 DEF Inv, Answers, AnswerShape
    <2>3. QED
      BY <1>3, <1>4, <2>1, <2>2 DEF AnswerOk
  <1>8. Answers'
    BY <1>4, <1>6, <1>7, Zenon DEF Answers
  <1>9. Loops' /\ Exchanges'
    BY <1>1, <1>3, LoopsFrame, ExchangesFrame DEF Inv
  <1>10. ASSUME NEW x \in Replicas \ {p} PROVE Undisturbed(x)
    <2>1. WorksOn(x) /\ busy'[x] = busy[x]
      BY <1>3, SectionsWork DEF SectionShape
    <2>2. QED
      BY <1>2, <1>3, <1>5, <2>1 DEF WorksOn, Undisturbed
  <1>11. Sections'
    BY <1>1, <1>3, <1>10, SectionEnds
  <1>12. QED
    BY <1>1, <1>8, <1>9, <1>11, Zenon DEF Inv

(* The row read open is the row of an answer that was judged and held.      *)
LEMMA CosignReadStep ==
    ASSUME Inv, NEW o \in Operators, NEW p \in Replicas, NEW r \in Requests,
           CosignRead(o, p, r)
    PROVE  Inv'
  <1>1. IsSeq(chain)' /\ ChainKept
    BY ChainGrows, Zenon DEF Inv, CosignRead
  <1>2. /\ busy' = [busy EXCEPT ![p] = [k |-> "cosign", id |-> r, by |-> o]]
        /\ held[r].state = "open"
        /\ UNCHANGED <<env, up, req, held, sent, ses, qry, work, chain>>
    BY DEF CosignRead
  <1>3. Answers' /\ Loops' /\ Exchanges'
    BY <1>1, <1>2, AnswersFrame, LoopsFrame, ExchangesFrame DEF Inv
  <1>4. SectionShape' /\ busy'[p] = [k |-> "cosign", id |-> r, by |-> o]
    BY <1>2 DEF Inv, Sections, SectionShape
  <1>5. BusyOk(p)'
    BY <1>2, <1>4, SectionsWork DEF BusyOk, assertMi9EnforcementAllowed
  <1>6. ASSUME NEW x \in Replicas \ {p} PROVE Undisturbed(x)
    <2>1. WorksOn(x) /\ busy'[x] = busy[x]
      BY <1>2, SectionsWork DEF SectionShape
    <2>2. QED
      BY <1>2, <2>1 DEF WorksOn, Undisturbed
  <1>7. Sections'
    BY <1>1, <1>2, <1>4, <1>5, <1>6, SectionsFrame DEF Inv
  <1>8. QED
    BY <1>1, <1>3, <1>7, Zenon DEF Inv

(* The release record comes after the record of the held answer.            *)
LEMMA CosignAppendStep ==
    ASSUME Inv, NEW p \in Replicas, CosignAppend(p)
    PROVE  Inv'
  <1>1. IsSeq(chain)' /\ ChainKept
    BY ChainGrows, Zenon DEF Inv, CosignAppend
  <1>2. PICK r \in Requests, o \in {busy[p].by} :
           r = busy[p].id /\ o = busy[p].by /\ held[r].state # "none"
    <2>1. WorksOn(p)
      BY SectionsWork
    <2>2. QED
      BY <2>1, Zenon DEF CosignAppend, WorksOn
  <1>3. /\ chain' = Append(chain, AuditRecord("cosign.release", r, "executed", o, 0))
        /\ busy' = [busy EXCEPT ![p].k = "signed"]
        /\ UNCHANGED <<env, up, req, held, sent, ses, qry, work>>
    BY <1>2, Zenon DEF CosignAppend
  <1>4. Answers' /\ Loops' /\ Exchanges'
    BY <1>1, <1>3, AnswersFrame, LoopsFrame, ExchangesFrame DEF Inv
  <1>5. SectionShape' /\ busy'[p].k = "signed" /\ busy'[p].id = r /\ busy'[p].by = o
    BY <1>2, <1>3 DEF Inv, Sections, SectionShape
  <1>6. Signed(r, o)'
    <2>1. /\ Len(chain) + 1 \in 1 .. Len(chain') /\ Len(chain) \in Nat
          /\ chain'[Len(chain) + 1] = AuditRecord("cosign.release", r, "executed", o, 0)
      BY <1>3, AppendedSeq DEF Inv
    <2>2. WasHeld(r)
      BY <1>2 DEF Inv, Answers, AnswerOk
    <2>3. PICK i \in 1 .. Len(chain) : Judged(r, {"held-for-cosign", "escalated"}, i)
      BY <2>2, Zenon DEF WasHeld
    <2>4. Judged(r, {"held-for-cosign", "escalated"}, i)' /\ i \in 1 .. Len(chain')
      BY <1>1, <2>3, RecordsStay
    <2>5. PICK j \in 1 .. Len(chain') :
             i < j /\ chain'[j] = AuditRecord("cosign.release", r, "executed", o, 0)
      BY <2>1
    <2>6. QED
      BY <2>4, <2>5, Zenon DEF Signed, AuditRecord
  <1>7. BusyOk(p)'
    <2>1. (up[p] => assertMi9EnforcementAllowed)'
      BY <1>3, SectionsWork DEF BusyOk, assertMi9EnforcementAllowed
    <2>2. Signed(busy[p].id, busy[p].by)'
      BY <1>5, <1>6, Zenon
    <2>3. held'[busy'[p].id].state # "none" /\ busy'[p].id \in Requests
      BY <1>2, <1>3, <1>5
    <2>4. QED
      BY <1>5, <2>1, <2>2, <2>3 DEF BusyOk
  <1>8. ASSUME NEW x \in Replicas \ {p} PROVE Undisturbed(x)
    <2>1. WorksOn(x) /\ busy'[x] = busy[x]
      BY <1>3, SectionsWork DEF SectionShape
    <2>2. QED
      BY <1>3, <2>1 DEF WorksOn, Undisturbed
  <1>9. Sections'
    BY <1>1, <1>3, <1>5, <1>7, <1>8, SectionsFrame DEF Inv
  <1>10. QED
    BY <1>1, <1>4, <1>9, Zenon DEF Inv

LEMMA CosignAppendRaisesStep ==
    ASSUME Inv, NEW p \in Replicas, CosignAppendRaises(p)
    PROVE  Inv'
  <1>1. IsSeq(chain)' /\ ChainKept
    BY ChainGrows, Zenon DEF Inv, CosignAppendRaises
  <1>2. /\ busy' = [busy EXCEPT ![p] = Idle]
        /\ UNCHANGED <<env, up, req, held, sent, ses, qry, work, chain>>
    BY DEF CosignAppendRaises
  <1>3. Answers' /\ Loops' /\ Exchanges'
    BY <1>1, <1>2, AnswersFrame, LoopsFrame, ExchangesFrame DEF Inv
  <1>4. ASSUME NEW x \in Replicas \ {p} PROVE Undisturbed(x)
    <2>1. WorksOn(x) /\ busy'[x] = busy[x]
      BY <1>2, SectionsWork DEF SectionShape
    <2>2. QED
      BY <1>2, <2>1 DEF WorksOn, Undisturbed
  <1>5. Sections'
    BY <1>1, <1>2, <1>4, SectionEnds
  <1>6. QED
    BY <1>1, <1>3, <1>5, Zenon DEF Inv

(* The conditional update: only the first to mark the row hands it out.     *)
LEMMA CosignMarkStep ==
    ASSUME Inv, NEW p \in Replicas, CosignMark(p)
    PROVE  Inv'
  <1>1. IsSeq(chain)' /\ ChainKept
    BY ChainGrows, Zenon DEF Inv, CosignMark
  <1>2. PICK r \in Requests, o \in {busy[p].by} :
           r = busy[p].id /\ o = busy[p].by /\ held[r].state # "none"
    <2>1. WorksOn(p)
      BY SectionsWork
    <2>2. QED
      BY <2>1, Zenon DEF CosignMark, WorksOn
  <1>3. /\ busy' = [busy EXCEPT ![p] = Idle]
        /\ UNCHANGED <<env, up, req, ses, qry, work, chain>>
    BY DEF CosignMark
  <1>4. Signed(r, o) /\ o \in Operators \cup {"none"}
    <2>1. BusyOk(p) /\ SectionShape
      BY SectionsWork
    <2>2. Signed(r, o)
      BY <1>2, <2>1, Zenon DEF CosignMark, BusyOk
    <2>3. QED
      BY <1>2, <2>1, <2>2 DEF SectionShape
  <1>5. ASSUME held[r].state = "open" PROVE Answers'
    <2>1. /\ held' = [held EXCEPT ![r] = [state |-> "released", by |-> o]]
          /\ sent' = [sent EXCEPT ![r].released = @ + 1]
      BY <1>2, <1>5, Zenon DEF CosignMark, markReleased
    <2>2. AnswerOk(r) /\ AnswerShape /\ sent[r].released = 0
      BY <1>5 DEF Inv, Answers, AnswerOk
    <2>3. /\ AnswerShape' /\ sent'[r].released = 1 /\ sent'[r].direct = sent[r].direct
          /\ held'[r] = [state |-> "released", by |-> o]
      BY <1>3, <1>4, <2>1, <2>2 DEF AnswerShape
    <2>4. \A x \in Requests \ {r} : sent'[x] = sent[x] /\ held'[x] = held[x]
      BY <2>1, <2>2 DEF AnswerShape
    <2>5. \A x \in Requests \ {r} : AnswerOk(x)'
      BY <1>1, <1>3, <2>4, AnswerKept DEF Inv, Answers
    <2>6. AnswerOk(r)'
      <3>1. WasHeld(r)' /\ Signed(r, o)'
        BY <1>1, <1>2, <1>4, <2>2, RecordsStay DEF AnswerOk
      <3>2. held'[r].by = o
        BY <2>3
      <3>3. Signed(r, held[r].by)'
        BY <3>1, <3>2, Zenon
      <3>4. req'[r] = req[r] /\ req[r].pc = "done"
        BY <1>2, <1>3, <2>2 DEF AnswerOk
      <3>5. QED
        BY <1>3, <2>2, <2>3, <3>1, <3>3, <3>4 DEF AnswerOk
    <2>7. QED
      BY <2>3, <2>5, <2>6, Zenon DEF Answers
  <1>6. ASSUME held[r].state # "open" PROVE Answers'
    <2>1. UNCHANGED <<held, sent>>
      BY <1>2, <1>6, Zenon DEF CosignMark, markReleased
    <2>2. QED
      BY <1>1, <1>3, <2>1, AnswersFrame DEF Inv
  <1>7. \A y \in Requests : held[y].state # "none" => held'[y].state # "none"
    BY <1>2 DEF CosignMark, Inv, Answers, AnswerShape
  <1>8. Loops' /\ Exchanges'
    BY <1>1, <1>3, LoopsFrame, ExchangesFrame DEF Inv
  <1>9. ASSUME NEW x \in Replicas \ {p} PROVE Undisturbed(x)
    <2>1. WorksOn(x) /\ busy'[x] = busy[x]
      BY <1>3, SectionsWork DEF SectionShape
    <2>2. QED
      BY <1>3, <1>7, <2>1 DEF WorksOn, Undisturbed
  <1>10. Sections'
    BY <1>1, <1>3, <1>9, SectionEnds
  <1>11. QED
    BY <1>1, <1>5, <1>6, <1>8, <1>10, Zenon DEF Inv

(* A step that changes one session.                                         *)
SessionOk(s) ==
    /\ DOMAIN ses[s] = SessionFields
    /\ ses[s].pc \in {"new", "proposing", "looping", "done", "failed"}
    /\ ses[s].i \in Nat \ {0}
    /\ ses[s].verdicts \in Seq(Verdict)
    /\ LoopOk(s)

LEMMA LoopsStep ==
    ASSUME Loops, ChainKept, NEW s \in Sessions, DOMAIN ses' = Sessions,
           \A x \in Sessions \ {s} : ses'[x] = ses[x], SessionOk(s)'
    PROVE  Loops'
  <1>1. ASSUME NEW x \in Sessions \ {s} PROVE LoopOk(x)'
    BY LoopKept DEF Loops, SessionShape
  <1>2. \A x \in Sessions : LoopOk(x)'
    BY <1>1, Zenon DEF SessionOk
  <1>3. SessionShape'
    BY DEF Loops, SessionShape, SessionOk
  <1>4. QED
    BY <1>2, <1>3, Zenon DEF Loops

LEMMA DecideStep ==
    ASSUME Inv, NEW s \in Sessions, NEW p \in Replicas, NEW domain, Decide(s, p, domain)
    PROVE  Inv'
  <1>1. IsSeq(chain)' /\ ChainKept
    BY ChainGrows, Zenon DEF Inv, Decide
  <1>2. UNCHANGED <<env, up, busy, req, held, sent, qry, work, chain>> /\ ses[s].pc = "new"
    BY DEF Decide
  <1>3. SessionOk(s)
    BY DEF Inv, Loops, SessionShape, SessionOk
  <1>4. /\ DOMAIN ses' = Sessions /\ \A x \in Sessions \ {s} : ses'[x] = ses[x]
        /\ DOMAIN ses'[s] = SessionFields /\ ses'[s].pc = "proposing"
        /\ ses'[s].i = ses[s].i /\ ses'[s].verdicts = ses[s].verdicts
    BY <1>3 DEF Decide, Inv, Loops, SessionShape, SessionOk, SessionFields
  <1>5. LoopOk(s)'
    BY <1>1, <1>2, <1>3, <1>4, LoopKept DEF SessionOk
  <1>6. Loops'
    <2>1. SessionOk(s)'
      BY <1>3, <1>4, <1>5 DEF SessionOk
    <2>2. QED
      BY <1>1, <1>4, <2>1, LoopsStep DEF Inv
  <1>7. Answers' /\ Exchanges'
    BY <1>1, <1>2, AnswersFrame, ExchangesFrame DEF Inv
  <1>8. ASSUME NEW x \in Replicas PROVE Undisturbed(x)
    <2>1. WorksOn(x)
      BY SectionsWork
    <2>2. QED
      BY <1>2, <1>4, <2>1 DEF WorksOn, Undisturbed
  <1>9. Sections'
    <2>1. SectionShape'
      BY <1>2, Zenon DEF Inv, Sections, SectionShape
    <2>2. QED
      BY <1>1, <1>2, <1>8, <2>1, SectionsFrame DEF Inv
  <1>10. QED
    BY <1>1, <1>6, <1>7, <1>9, Zenon DEF Inv

LEMMA ProposeStep ==
    ASSUME Inv, NEW s \in Sessions, NEW p \in Replicas, NEW fallback, NEW proposal,
           Propose(s, p, fallback, proposal)
    PROVE  Inv'
  <1>1. IsSeq(chain)' /\ ChainKept
    BY ChainGrows, Zenon DEF Inv, Propose
  <1>2. PICK actions : actions = IF fallback THEN deterministicFallback ELSE proposal
    BY Zenon
  <1>3. /\ UNCHANGED <<env, up, req, held, sent, qry, work, chain>>
        /\ ses[s].pc = "proposing" /\ ses[s].at = p /\ busy[p] = Idle
        /\ ses' = [ses EXCEPT ![s].actions = actions, ![s].fallback = fallback,
                              ![s].pc = IF actions = <<>> THEN "done" ELSE "looping"]
        /\ busy' = [busy EXCEPT ![p] = IF actions = <<>> THEN Idle
                                       ELSE [k |-> "loop", id |-> s, by |-> "none"]]
    BY <1>2, Zenon DEF Propose, Free
  <1>4. SessionOk(s)
    BY DEF Inv, Loops, SessionShape, SessionOk
  <1>5. /\ DOMAIN ses' = Sessions /\ \A x \in Sessions \ {s} : ses'[x] = ses[x]
        /\ DOMAIN ses'[s] = SessionFields
        /\ ses'[s].pc = IF actions = <<>> THEN "done" ELSE "looping"
        /\ ses'[s].at = p
        /\ ses'[s].i = ses[s].i /\ ses'[s].verdicts = ses[s].verdicts
    BY <1>3, <1>4 DEF Inv, Loops, SessionShape, SessionOk, SessionFields
  <1>6. LoopOk(s)'
    BY <1>1, <1>3, <1>4, <1>5, LoopKept DEF SessionOk
  <1>7. Loops'
    <2>1. SessionOk(s)'
      BY <1>4, <1>5, <1>6 DEF SessionOk
    <2>2. QED
      BY <1>1, <1>5, <2>1, LoopsStep DEF Inv
  <1>8. Answers' /\ Exchanges'
    BY <1>1, <1>3, AnswersFrame, ExchangesFrame DEF Inv
  <1>9. ASSUME NEW x \in Replicas \ {p} PROVE Undisturbed(x)
    <2>1. WorksOn(x) /\ busy'[x] = busy[x]
      BY <1>3, SectionsWork DEF SectionShape
    <2>2. QED
      BY <1>3, <1>5, <2>1 DEF WorksOn, Undisturbed
  <1>10. Sections'
    <2>1. SectionShape' /\ busy'[p] = IF actions = <<>> THEN Idle
                                      ELSE [k |-> "loop", id |-> s, by |-> "none"]
      BY <1>3 DEF Inv, Sections, SectionShape, Idle
    <2>2. CASE actions = <<>>
      <3>1. busy' = [busy EXCEPT ![p] = Idle]
        BY <1>3, <2>2
      <3>2. QED
        BY <1>1, <1>3, <1>9, <3>1, SectionEnds
    <2>3. CASE actions # <<>>
      <3>1. Len(ses[s].verdicts) = ses[s].i - 1
        BY <1>3, <1>4 DEF SessionOk, LoopOk
      <3>2. BusyOk(p)'
        <4>1. (up[p] => assertMi9EnforcementAllowed)'
          BY <1>3, SectionsWork DEF BusyOk, assertMi9EnforcementAllowed
        <4>2. busy'[p].k = "loop" /\ busy'[p].id = s
          BY <2>1, <2>3
        <4>3. /\ ses'[s].pc = "looping" /\ ses'[s].at = p
              /\ Len(ses'[s].verdicts) = ses'[s].i - 1
          BY <1>5, <2>3, <3>1, Zenon
        <4>4. QED
          BY <4>1, <4>2, <4>3 DEF BusyOk
      <3>3. QED
        BY <1>1, <1>3, <1>9, <2>1, <3>2, SectionsFrame DEF Inv
    <2>4. QED
      BY <2>2, <2>3
  <1>11. QED
    BY <1>1, <1>7, <1>8, <1>10, Zenon DEF Inv

(* The session of a loop in progress.                                       *)
LEMMA LoopInProgress ==
    ASSUME Inv, NEW p \in Replicas, busy[p].k \in {"loop", "append"}
    PROVE  \E s \in Sessions :
              /\ s = busy[p].id /\ SessionOk(s)
              /\ ses[s].pc = "looping" /\ ses[s].at = p
              /\ Len(ses[s].verdicts) =
                    IF busy[p].k = "loop" THEN ses[s].i - 1 ELSE ses[s].i
  <1>1. BusyOk(p) /\ busy[p].id \in Sessions
    BY SectionsWork DEF WorksOn
  <1>2. SessionOk(busy[p].id)
    BY <1>1 DEF Inv, Loops, SessionShape, SessionOk
  <1>3. QED
    BY <1>1, <1>2, Zenon DEF BusyOk

(* The verdict is applied first: the action in progress is unrecorded.      *)
LEMMA LoopEvaluateStep ==
    ASSUME Inv, NEW p \in Replicas, LoopEvaluate(p)
    PROVE  Inv'
  <1>1. IsSeq(chain)' /\ ChainKept
    BY ChainGrows, Zenon DEF Inv, LoopEvaluate
  <1>2. PICK s \in Sessions :
              /\ s = busy[p].id /\ SessionOk(s)
              /\ ses[s].pc = "looping" /\ ses[s].at = p
              /\ Len(ses[s].verdicts) = ses[s].i - 1
    BY LoopInProgress, Zenon DEF LoopEvaluate
  <1>3. PICK v, a, c :
           /\ v \in Verdict
           /\ ses' = [ses EXCEPT ![s].verdicts = Append(@, v),
                                 ![s].advisories = Append(@, a),
                                 ![s].soc = c]
    <2>1. PICK action : action = ses[s].actions[ses[s].i]
      BY Zenon
    <2>2. PICK v : v = evaluate(dispatchContext(s, action), Policy(env.unknownTier),
                                window[p], now)
      BY Zenon
    <2>3. v \in Verdict
      BY <2>2, VerdictOfGate, Zenon
    <2>4. PICK a, c : /\ a = analyzeExposure(dispatchContext(s, action))
                      /\ c = IF v = "allow" THEN applyAction(action, ses[s].soc)
                             ELSE ses[s].soc
      BY Zenon
    <2>5. ses' = [ses EXCEPT ![s].verdicts = Append(@, v),
                             ![s].advisories = Append(@, a),
                             ![s].soc = c]
      BY <1>2, <2>1, <2>2, <2>4, Zenon DEF LoopEvaluate
    <2>6. QED
      BY <2>3, <2>5, Zenon
  <1>4. /\ UNCHANGED <<env, up, req, held, sent, qry, work, chain>>
        /\ busy' = [busy EXCEPT ![p].k = "append"]
    BY DEF LoopEvaluate
  <1>5. /\ DOMAIN ses' = Sessions /\ \A x \in Sessions \ {s} : ses'[x] = ses[x]
        /\ DOMAIN ses'[s] = SessionFields
        /\ ses'[s].pc = "looping" /\ ses'[s].at = p /\ ses'[s].i = ses[s].i
        /\ ses'[s].verdicts = Append(ses[s].verdicts, v)
    BY <1>2, <1>3 DEF Inv, Loops, SessionShape, SessionOk, SessionFields
  <1>6. /\ ses'[s].verdicts \in Seq(Verdict) /\ Len(ses'[s].verdicts) = ses[s].i
        /\ \A j \in 1 .. ses[s].i - 1 : ses'[s].verdicts[j] = ses[s].verdicts[j]
    <2>1. PICK w \in Seq(Verdict), i \in Nat \ {0} : w = ses[s].verdicts /\ i = ses[s].i
      BY <1>2 DEF SessionOk
    <2>2. /\ Append(w, v) \in Seq(Verdict) /\ Len(Append(w, v)) = Len(w) + 1
          /\ \A j \in 1 .. Len(w) : Append(w, v)[j] = w[j]
      <3>1. v \in Verdict
        BY <1>3, Zenon
      <3>2. QED
        BY <3>1
    <2>3. Len(w) = i - 1
      BY <1>2, <2>1
    <2>4. QED
      BY <1>5, <2>1, <2>2, <2>3
  <1>7. SessionOk(s)'
    <2>1. LoopOk(s)'
      <3>1. ASSUME NEW j \in 1 .. Len(ses'[s].verdicts), ses'[s].verdicts[j] = "allow",
                   j # ses'[s].i
            PROVE  \E n \in 1 .. Len(chain') :
                      chain'[n] = AuditRecord("decision", s, "executed", "none", j)
        <4>1. j \in 1 .. Len(ses[s].verdicts) /\ ses[s].verdicts[j] = "allow" /\ j # ses[s].i
          <5>1. PICK i \in Nat \ {0} : i = ses[s].i /\ Len(ses[s].verdicts) = i - 1
            BY <1>2 DEF SessionOk
          <5>2. j \in 1 .. i /\ j # i
            BY <1>5, <1>6, <3>1, <5>1, Zenon
          <5>3. j \in 1 .. i - 1
            BY <5>2
          <5>4. QED
            BY <1>6, <3>1, <5>1, <5>2, <5>3, Zenon
        <4>2. \E n \in 1 .. Len(chain) :
                      chain[n] = AuditRecord("decision", s, "executed", "none", j)
          BY <1>2, <4>1, Zenon DEF SessionOk, LoopOk
        <4>3. QED
          BY <1>4, <4>2, Zenon
      <3>2. Len(ses'[s].verdicts) <= ses'[s].i
        <4>1. PICK i \in Nat : i = ses[s].i
          BY <1>2 DEF SessionOk
        <4>2. i <= i
          OBVIOUS
        <4>3. QED
          BY <1>5, <1>6, <4>1, <4>2, Zenon
      <3>3. QED
        BY <1>5, <3>1, <3>2 DEF LoopOk, AuditRecord
    <2>2. QED
      BY <1>2, <1>5, <1>6, <2>1 DEF SessionOk
  <1>8. Loops'
    BY <1>1, <1>5, <1>7, LoopsStep DEF Inv
  <1>9. Answers' /\ Exchanges'
    BY <1>1, <1>4, AnswersFrame, ExchangesFrame DEF Inv
  <1>10. ASSUME NEW x \in Replicas \ {p} PROVE Undisturbed(x)
    <2>1. WorksOn(x) /\ busy'[x] = busy[x]
      BY <1>4, SectionsWork DEF SectionShape
    <2>2. QED
      BY <1>2, <1>4, <1>5, <2>1 DEF WorksOn, Undisturbed
  <1>11. Sections'
    <2>1. SectionShape' /\ busy'[p].k = "append" /\ busy'[p].id = s
      BY <1>2, <1>4 DEF Inv, Sections, SectionShape
    <2>2. BusyOk(p)'
      BY <1>4, <1>5, <1>6, <2>1, SectionsWork DEF BusyOk, assertMi9EnforcementAllowed
    <2>3. QED
      BY <1>1, <1>4, <1>10, <2>1, <2>2, SectionsFrame DEF Inv
  <1>12. QED
    BY <1>1, <1>8, <1>9, <1>11, Zenon DEF Inv

(* The append of the action in progress closes the gap, and only then does  *)
(* the loop go on.                                                          *)
LEMMA LoopAppendStep ==
    ASSUME Inv, NEW p \in Replicas, LoopAppend(p)
    PROVE  Inv'
  <1>1. IsSeq(chain)' /\ ChainKept
    BY ChainGrows, Zenon DEF Inv, LoopAppend
  <1>2. PICK s \in Sessions :
              /\ s = busy[p].id /\ SessionOk(s)
              /\ ses[s].pc = "looping" /\ ses[s].at = p
              /\ Len(ses[s].verdicts) = ses[s].i
    BY LoopInProgress DEF LoopAppend
  <1> DEFINE last == ses[s].i = Len(ses[s].actions)
  <1>4. /\ chain' = Append(chain, AuditRecord("decision", s,
                                      outcomeAction(Last(ses[s].verdicts)), "none", ses[s].i))
        /\ ses' = [ses EXCEPT ![s].i = @ + 1, ![s].pc = IF last THEN "done" ELSE @]
        /\ busy' = [busy EXCEPT ![p] = IF last THEN Idle
                                       ELSE [busy[p] EXCEPT !.k = "loop"]]
        /\ UNCHANGED <<env, up, req, held, sent, qry, work>>
    BY <1>2, Zenon DEF LoopAppend
  <1>5. /\ DOMAIN ses' = Sessions /\ \A x \in Sessions \ {s} : ses'[x] = ses[x]
        /\ DOMAIN ses'[s] = SessionFields
        /\ ses'[s].pc = (IF last THEN "done" ELSE "looping") /\ ses'[s].at = p
        /\ ses'[s].i = ses[s].i + 1 /\ ses'[s].verdicts = ses[s].verdicts
    BY <1>2, <1>4 DEF Inv, Loops, SessionShape, SessionOk, SessionFields
  <1>6. /\ ses[s].i \in Nat \ {0} /\ ses[s].verdicts \in Seq(Verdict) /\ LoopOk(s)
    BY <1>2 DEF SessionOk
  <1>7. SessionOk(s)'
    <2>1. ASSUME NEW j \in 1 .. Len(ses[s].verdicts), ses[s].verdicts[j] = "allow"
          PROVE  \E n \in 1 .. Len(chain') :
                    chain'[n] = AuditRecord("decision", s, "executed", "none", j)
      <3>1. CASE j = ses[s].i
        <4>1. Last(ses[s].verdicts) = "allow"
          BY <1>2, <2>1, <3>1 DEF Last
        <4>2. outcomeAction(Last(ses[s].verdicts)) = "executed"
          BY <4>1 DEF outcomeAction
        <4>3. /\ Len(chain) + 1 \in 1 .. Len(chain')
              /\ chain'[Len(chain) + 1] = AuditRecord("decision", s, "executed", "none", j)
          BY <1>4, <3>1, <4>2, AppendedSeq DEF Inv
        <4>4. QED
          BY <4>3
      <3>2. CASE j # ses[s].i
        <4>1. PICK n \in 1 .. Len(chain) :
                    chain[n] = AuditRecord("decision", s, "executed", "none", j)
          BY <1>6, <2>1, <3>2, Zenon DEF LoopOk
        <4>2. n \in 1 .. Len(chain') /\ chain'[n] = chain[n]
          BY <1>1 DEF ChainKept
        <4>3. QED
          BY <4>1, <4>2, Zenon
      <3>3. QED
        BY <3>1, <3>2
    <2>2. Len(ses'[s].verdicts) = ses'[s].i - 1 /\ Len(ses'[s].verdicts) <= ses'[s].i
      BY <1>2, <1>5, <1>6
    <2>3. LoopOk(s)'
      BY <1>5, <2>1, <2>2 DEF LoopOk, AuditRecord
    <2>4. QED
      BY <1>5, <1>6, <2>3 DEF SessionOk
  <1>8. Loops'
    BY <1>1, <1>5, <1>7, LoopsStep DEF Inv
  <1>9. Answers' /\ Exchanges'
    BY <1>1, <1>4, AnswersFrame, ExchangesFrame DEF Inv
  <1>10. ASSUME NEW x \in Replicas \ {p} PROVE Undisturbed(x)
    <2>1. WorksOn(x) /\ busy'[x] = busy[x]
      BY <1>4, SectionsWork DEF SectionShape
    <2>2. QED
      BY <1>2, <1>4, <1>5, <2>1 DEF WorksOn, Undisturbed
  <1>11. Sections'
    <2>1. CASE last
      <3>1. busy' = [busy EXCEPT ![p] = Idle]
        BY <1>4, <2>1
      <3>2. QED
        BY <1>1, <1>4, <1>10, <3>1, SectionEnds
    <2>2. CASE ~last
      <3>1. SectionShape' /\ busy'[p].k = "loop" /\ busy'[p].id = s
        <4>1. busy' = [busy EXCEPT ![p] = [busy[p] EXCEPT !.k = "loop"]]
          BY <1>4, <2>2
        <4>2. SectionShape /\ busy[p].id = s /\ up' = up
          BY <1>2, <1>4 DEF Inv, Sections
        <4>3. QED
          BY <4>1, <4>2 DEF SectionShape
      <3>2. BusyOk(p)'
        <4>1. (up[p] => assertMi9EnforcementAllowed)'
          BY <1>4, SectionsWork DEF BusyOk, assertMi9EnforcementAllowed
        <4>2. ses'[s].pc = "looping" /\ ses'[s].at = p
              /\ Len(ses'[s].verdicts) = ses'[s].i - 1
          BY <1>2, <1>5, <1>6, <2>2
        <4>3. QED
          BY <3>1, <4>1, <4>2 DEF BusyOk
      <3>3. QED
        BY <1>1, <1>4, <1>10, <3>1, <3>2, SectionsFrame DEF Inv
    <2>3. QED
      BY <2>1, <2>2
  <1>12. QED
    BY <1>1, <1>8, <1>9, <1>11, Zenon DEF Inv

LEMMA LoopAppendRaisesStep ==
    ASSUME Inv, NEW p \in Replicas, LoopAppendRaises(p)
    PROVE  Inv'
  <1>1. IsSeq(chain)' /\ ChainKept
    BY ChainGrows, Zenon DEF Inv, LoopAppendRaises
  <1>2. PICK s \in Sessions :
              s = busy[p].id /\ SessionOk(s) /\ ses[s].at = p
    BY LoopInProgress, Zenon DEF LoopAppendRaises
  <1>3. /\ ses' = [ses EXCEPT ![s].pc = "failed"] /\ busy' = [busy EXCEPT ![p] = Idle]
        /\ UNCHANGED <<env, up, req, held, sent, qry, work, chain>>
    BY <1>2, Zenon DEF LoopAppendRaises
  <1>4. /\ DOMAIN ses' = Sessions /\ \A x \in Sessions \ {s} : ses'[x] = ses[x]
        /\ DOMAIN ses'[s] = SessionFields /\ ses'[s].pc = "failed"
        /\ ses'[s].i = ses[s].i /\ ses'[s].verdicts = ses[s].verdicts
    BY <1>2, <1>3 DEF Inv, Loops, SessionShape, SessionOk, SessionFields
  <1>5. LoopOk(s)'
    BY <1>1, <1>2, <1>4, LoopKept DEF SessionOk
  <1>6. Loops'
    <2>1. SessionOk(s)'
      BY <1>2, <1>4, <1>5 DEF SessionOk
    <2>2. QED
      BY <1>1, <1>4, <2>1, LoopsStep DEF Inv
  <1>7. Answers' /\ Exchanges'
    BY <1>1, <1>3, AnswersFrame, ExchangesFrame DEF Inv
  <1>8. ASSUME NEW x \in Replicas \ {p} PROVE Undisturbed(x)
    <2>1. WorksOn(x) /\ busy'[x] = busy[x]
      BY <1>3, SectionsWork DEF SectionShape
    <2>2. QED
      BY <1>2, <1>3, <1>4, <2>1 DEF WorksOn, Undisturbed
  <1>9. Sections'
    BY <1>1, <1>3, <1>8, SectionEnds
  <1>10. QED
    BY <1>1, <1>6, <1>7, <1>9, Zenon DEF Inv

(* A step that changes one query.                                           *)
ExchangeOk(q) ==
    /\ DOMAIN qry[q] = QueryFields
    /\ qry[q].pc \in {"new", "executing", "recording", "done", "failed"}
    /\ QueryOk(q)

LEMMA ExchangesStep ==
    ASSUME Exchanges, ChainKept, NEW q \in Queries, DOMAIN qry' = Queries,
           DOMAIN work' = Queries,
           \A x \in Queries \ {q} : qry'[x] = qry[x] /\ work'[x] = work[x], ExchangeOk(q)'
    PROVE  Exchanges'
  <1>1. ASSUME NEW x \in Queries \ {q} PROVE QueryOk(x)'
    BY QueryKept DEF Exchanges
  <1>2. \A x \in Queries : QueryOk(x)'
    BY <1>1, Zenon DEF ExchangeOk
  <1>3. QueryShape'
    BY DEF Exchanges, QueryShape, ExchangeOk
  <1>4. QED
    BY <1>2, <1>3, Zenon DEF Exchanges

(* Steps of a query that write no row.                                      *)
LEMMA QueryMoves ==
    ASSUME Exchanges, ChainKept, NEW q \in Queries, DOMAIN qry' = Queries,
           \A x \in Queries \ {q} : qry'[x] = qry[x], DOMAIN qry'[q] = QueryFields,
           UNCHANGED work, qry[q].pc \in {"new", "executing", "recording"},
           \/ qry'[q].pc = "executing" /\ qry'[q].status = "none"
           \/ qry'[q].pc = "recording" /\ qry'[q].status \in Answered
           \/ qry'[q].pc = "done" /\ qry'[q].status \in {"rejected-policy", "failed"}
           \/ qry'[q].pc = "failed"
    PROVE  Exchanges'
  <1>1. QueryOk(q) /\ DOMAIN work = Queries
    BY DEF Exchanges, QueryShape
  <1>2. work[q] = <<>> /\ work'[q] = <<>> /\ RowsMatched(q)
    BY <1>1 DEF QueryOk
  <1>3. RowsMatched(q)'
    BY <1>2, RowsKept
  <1>4. QueryOk(q)'
    BY <1>2, <1>3 DEF QueryOk
  <1>5. ExchangeOk(q)'
    BY <1>4 DEF ExchangeOk
  <1>6. QED
    BY <1>1, <1>5, ExchangesStep

LEMMA QueryStep ==
    ASSUME Inv, NEW q \in Queries, NEW p \in Replicas, NEW request, Query(q, p, request)
    PROVE  Inv'
  <1>1. IsSeq(chain)' /\ ChainKept
    BY ChainGrows, Zenon DEF Inv, Query
  <1>2. /\ UNCHANGED <<env, up, req, held, sent, ses, work, chain>>
        /\ qry[q].pc = "new" /\ up[p] /\ busy[p] = Idle
    BY Zenon DEF Query, Free
  <1>3. DOMAIN qry = Queries /\ DOMAIN qry[q] = QueryFields /\ qry[q].status = "none"
    BY <1>2 DEF Inv, Exchanges, QueryShape, QueryOk
  <1>4. PICK asked :
           /\ \E v, t : asked = [qry[q] EXCEPT !.at = p, !.ask = request, !.verdict = v,
                                               !.routing = t]
           /\ \/ /\ qry' = [qry EXCEPT ![q].pc = "done", ![q].status = "rejected-policy"]
                 /\ busy' = busy
              \/ /\ qry' = [qry EXCEPT ![q] = [asked EXCEPT !.pc = "recording",
                                                !.status = "rejected-governance"]]
                 /\ busy' = [busy EXCEPT ![p] = [k |-> "record", id |-> q, by |-> "none"]]
              \/ /\ qry' = [qry EXCEPT ![q] = [asked EXCEPT !.pc = "executing"]]
                 /\ busy' = busy
    BY Zenon DEF Query
  <1>5. /\ DOMAIN qry' = Queries /\ \A x \in Queries \ {q} : qry'[x] = qry[x]
        /\ DOMAIN qry'[q] = QueryFields
        /\ \/ qry'[q].pc = "executing" /\ qry'[q].status = "none" /\ busy' = busy
           \/ qry'[q].pc = "done" /\ qry'[q].status = "rejected-policy" /\ busy' = busy
           \/ /\ qry'[q].pc = "recording" /\ qry'[q].status = "rejected-governance"
              /\ qry'[q].at = p
              /\ busy' = [busy EXCEPT ![p] = [k |-> "record", id |-> q, by |-> "none"]]
    <2>1. DOMAIN asked = QueryFields /\ asked.at = p /\ asked.status = "none"
      BY <1>3, <1>4 DEF QueryFields
    <2>2. CASE /\ qry' = [qry EXCEPT ![q].pc = "done", ![q].status = "rejected-policy"]
               /\ busy' = busy
      BY <1>3, <2>2 DEF QueryFields
    <2>3. CASE /\ qry' = [qry EXCEPT ![q] = [asked EXCEPT !.pc = "recording",
                                               !.status = "rejected-governance"]]
               /\ busy' = [busy EXCEPT ![p] = [k |-> "record", id |-> q, by |-> "none"]]
      BY <1>3, <2>1, <2>3 DEF QueryFields
    <2>4. CASE /\ qry' = [qry EXCEPT ![q] = [asked EXCEPT !.pc = "executing"]]
               /\ busy' = busy
      BY <1>3, <2>1, <2>4 DEF QueryFields
    <2>5. QED
      BY <1>4, <2>2, <2>3, <2>4
  <1>6. Exchanges'
    BY <1>1, <1>2, <1>5, QueryMoves DEF Inv, Answered
  <1>7. Answers' /\ Loops'
    BY <1>1, <1>2, AnswersFrame, LoopsFrame DEF Inv
  <1>8. ASSUME NEW x \in Replicas, busy'[x] = busy[x] PROVE Undisturbed(x)
    <2>1. WorksOn(x)
      BY SectionsWork
    <2>2. QED
      BY <1>2, <1>5, <1>8, <2>1 DEF WorksOn, Undisturbed
  <1>9. Sections'
    <2>1. SectionShape'
      BY <1>2, <1>5 DEF Inv, Sections, SectionShape
    <2>2. ASSUME NEW x \in Replicas, busy'[x] # busy[x] PROVE BusyOk(x)'
      <3>1. x = p /\ busy' = [busy EXCEPT ![p] = [k |-> "record", id |-> q, by |-> "none"]]
            /\ qry'[q].pc = "recording" /\ qry'[q].at = p
        BY <1>5, <2>2 DEF Inv, Sections, SectionShape
      <3>2. busy'[x] = [k |-> "record", id |-> q, by |-> "none"]
        BY <3>1 DEF Inv, Sections, SectionShape
      <3>3. QED
        BY <1>2, <3>1, <3>2, SectionsWork DEF BusyOk, assertMi9EnforcementAllowed
    <2>3. QED
      BY <1>1, <1>2, <1>8, <2>1, <2>2, SectionsFrame DEF Inv
  <1>10. QED
    BY <1>1, <1>6, <1>7, <1>9, Zenon DEF Inv

LEMMA ExecuteEngineStep ==
    ASSUME Inv, NEW q \in Queries, NEW p \in Replicas, ExecuteEngine(q, p)
    PROVE  Inv'
  <1>1. IsSeq(chain)' /\ ChainKept
    BY ChainGrows, Zenon DEF Inv, ExecuteEngine
  <1>2. /\ UNCHANGED <<env, up, req, held, sent, ses, work, chain>>
        /\ qry[q].pc = "executing" /\ qry[q].at = p /\ up[p] /\ busy[p] = Idle
    BY Zenon DEF ExecuteEngine, Free
  <1>3. DOMAIN qry = Queries /\ DOMAIN qry[q] = QueryFields /\ qry[q].status = "none"
    BY <1>2 DEF Inv, Exchanges, QueryShape, QueryOk
  <1>31. PICK status \in {"completed", "escalated"} :
            status = IF qry[q].i = 1 THEN "completed" ELSE "escalated"
    BY Zenon
  <1>4. PICK c :
          \/ /\ qry' = [qry EXCEPT ![q].pc = "recording", ![q].status = status,
                                   ![q].confidence = c]
             /\ busy' = [busy EXCEPT ![p] = [k |-> "record", id |-> q, by |-> "none"]]
          \/ /\ qry' = [qry EXCEPT ![q].pc = "done", ![q].status = "failed"]
             /\ busy' = busy
          \/ /\ qry' = [qry EXCEPT ![q].i = @ + 1]
             /\ busy' = busy
    <2>1. PICK x : IF x.ok
         THEN /\ qry' = [qry EXCEPT
                   ![q].pc = "recording",
                   ![q].status = IF qry[q].i = 1 THEN "completed" ELSE "escalated",
                   ![q].confidence = Exchange!assure(candidate(q), x)]
              /\ busy' = [busy EXCEPT ![p] = [k |-> "record", id |-> q, by |-> "none"]]
         ELSE /\ qry' = IF qry[q].i = Len(qry[q].routing)
                        THEN [qry EXCEPT ![q].pc = "done", ![q].status = "failed"]
                        ELSE [qry EXCEPT ![q].i = @ + 1]
              /\ busy' = busy
      BY Zenon DEF ExecuteEngine
    <2>2. QED
      BY <1>31, <2>1, Zenon
  <1>5. /\ DOMAIN qry' = Queries /\ \A x \in Queries \ {q} : qry'[x] = qry[x]
        /\ DOMAIN qry'[q] = QueryFields
        /\ \/ qry'[q].pc = "executing" /\ qry'[q].status = "none" /\ busy' = busy
           \/ qry'[q].pc = "done" /\ qry'[q].status = "failed" /\ busy' = busy
           \/ /\ qry'[q].pc = "recording" /\ qry'[q].status \in {"completed", "escalated"}
              /\ qry'[q].at = p
              /\ busy' = [busy EXCEPT ![p] = [k |-> "record", id |-> q, by |-> "none"]]
    <2>1. CASE /\ qry' = [qry EXCEPT ![q].pc = "recording", ![q].status = status,
                                     ![q].confidence = c]
               /\ busy' = [busy EXCEPT ![p] = [k |-> "record", id |-> q, by |-> "none"]]
      BY <1>2, <1>3, <2>1 DEF QueryFields
    <2>2. CASE /\ qry' = [qry EXCEPT ![q].pc = "done", ![q].status = "failed"]
               /\ busy' = busy
      BY <1>3, <2>2 DEF QueryFields
    <2>3. CASE qry' = [qry EXCEPT ![q].i = @ + 1] /\ busy' = busy
      BY <1>2, <1>3, <2>3 DEF QueryFields
    <2>4. QED
      BY <1>4, <2>1, <2>2, <2>3
  <1>6. Exchanges'
    BY <1>1, <1>2, <1>5, QueryMoves DEF Inv, Answered
  <1>7. Answers' /\ Loops'
    BY <1>1, <1>2, AnswersFrame, LoopsFrame DEF Inv
  <1>8. ASSUME NEW x \in Replicas, busy'[x] = busy[x] PROVE Undisturbed(x)
    <2>1. WorksOn(x)
      BY SectionsWork
    <2>2. QED
      BY <1>2, <1>5, <1>8, <2>1 DEF WorksOn, Undisturbed
  <1>9. Sections'
    <2>1. SectionShape'
      BY <1>2, <1>5 DEF Inv, Sections, SectionShape
    <2>2. ASSUME NEW x \in Replicas, busy'[x] # busy[x] PROVE BusyOk(x)'
      <3>1. x = p /\ busy' = [busy EXCEPT ![p] = [k |-> "record", id |-> q, by |-> "none"]]
            /\ qry'[q].pc = "recording" /\ qry'[q].at = p
        BY <1>5, <2>2 DEF Inv, Sections, SectionShape
      <3>2. busy'[x] = [k |-> "record", id |-> q, by |-> "none"]
        BY <3>1 DEF Inv, Sections, SectionShape
      <3>3. QED
        BY <1>2, <3>1, <3>2, SectionsWork DEF BusyOk, assertMi9EnforcementAllowed
    <2>3. QED
      BY <1>1, <1>2, <1>8, <2>1, <2>2, SectionsFrame DEF Inv
  <1>10. QED
    BY <1>1, <1>6, <1>7, <1>9, Zenon DEF Inv

LEMMA QueryAppendStep ==
    ASSUME Inv, NEW p \in Replicas, QueryAppend(p)
    PROVE  Inv'
  <1>1. IsSeq(chain)' /\ ChainKept
    BY ChainGrows, Zenon DEF Inv, QueryAppend
  <1>2. PICK q \in Queries : q = busy[p].id /\ qry[q].pc = "recording" /\ qry[q].at = p
    <2>1. WorksOn(p)
      BY SectionsWork
    <2>2. QED
      BY <2>1, Zenon DEF QueryAppend, WorksOn
  <1>3. /\ chain' = Append(chain, AuditRecord("model-exchange", q, queryAction(q),
                                              candidate(q).id, 0))
        /\ busy' = [busy EXCEPT ![p].k = "work"]
        /\ UNCHANGED <<env, up, req, held, sent, ses, qry, work>>
    BY <1>2, Zenon DEF QueryAppend
  <1>4. Answers' /\ Loops' /\ Exchanges'
    BY <1>1, <1>3, AnswersFrame, LoopsFrame, ExchangesFrame DEF Inv
  <1>5. SectionShape' /\ busy'[p].k = "work" /\ busy'[p].id = q
    BY <1>2, <1>3 DEF Inv, Sections, SectionShape
  <1>6. BusyOk(p)'
    <2>1. (up[p] => assertMi9EnforcementAllowed)'
      BY <1>3, SectionsWork DEF BusyOk, assertMi9EnforcementAllowed
    <2>2. queryAction(q)' = queryAction(q) /\ candidate(q)' = candidate(q)
      BY <1>3, Zenon DEF queryAction, candidate
    <2>3. /\ Len(chain) + 1 \in 1 .. Len(chain')
          /\ chain'[Len(chain) + 1] = AuditRecord("model-exchange", q, queryAction(q),
                                                  candidate(q).id, 0)
      BY <1>3, AppendedSeq DEF Inv
    <2>4. \E n \in 1 .. Len(chain') :
             chain'[n] = AuditRecord("model-exchange", q, queryAction(q)',
                                     candidate(q)'.id, 0)
      BY <2>2, <2>3
    <2>5. (\E n \in 1 .. Len(chain) :
             chain[n] = AuditRecord("model-exchange", busy[p].id, queryAction(busy[p].id),
                                    candidate(busy[p].id).id, 0))'
      BY <1>5, <2>4, Zenon DEF AuditRecord
    <2>6. qry'[q].pc = "recording" /\ qry'[q].at = p
      BY <1>2, <1>3
    <2>7. QED
      BY <1>5, <2>1, <2>5, <2>6 DEF BusyOk
  <1>7. ASSUME NEW x \in Replicas \ {p} PROVE Undisturbed(x)
    <2>1. WorksOn(x) /\ busy'[x] = busy[x]
      BY <1>3, SectionsWork DEF SectionShape
    <2>2. QED
      BY <1>3, <2>1 DEF WorksOn, Undisturbed
  <1>8. Sections'
    BY <1>1, <1>3, <1>5, <1>6, <1>7, SectionsFrame DEF Inv
  <1>9. QED
    BY <1>1, <1>4, <1>8, Zenon DEF Inv

(* The row is the one the record announced.                                 *)
LEMMA recordWorkStep ==
    ASSUME Inv, NEW p \in Replicas, recordWork(p)
    PROVE  Inv'
  <1>1. IsSeq(chain)' /\ ChainKept
    BY ChainGrows, Zenon DEF Inv, recordWork
  <1>2. PICK q \in Queries : q = busy[p].id /\ qry[q].pc = "recording" /\ qry[q].at = p
    <2>1. WorksOn(p)
      BY SectionsWork
    <2>2. QED
      BY <2>1, Zenon DEF recordWork, WorksOn
  <1>3. PICK row :
          /\ row.engine = candidate(q).id
          /\ row.status = (IF qry[q].status = "rejected-governance" THEN "rejected"
                           ELSE qry[q].status)
          /\ work' = [work EXCEPT ![q] = Append(@, row)]
    <2>1. PICK row : row = [engine |-> candidate(q).id,
                            status |-> IF qry[q].status = "rejected-governance"
                                       THEN "rejected" ELSE qry[q].status,
                            confidence |-> qry[q].confidence]
      BY Zenon
    <2>2. work' = [work EXCEPT ![q] = Append(@, row)]
      BY <1>2, <2>1, Zenon DEF recordWork
    <2>3. row.engine = candidate(q).id
      BY <2>1
    <2>4. row.status = (IF qry[q].status = "rejected-governance" THEN "rejected"
                        ELSE qry[q].status)
      BY <2>1
    <2>5. QED
      BY <2>2, <2>3, <2>4, Zenon
  <1>4. /\ qry' = [qry EXCEPT ![q].pc = "done"] /\ busy' = [busy EXCEPT ![p] = Idle]
        /\ UNCHANGED <<env, up, req, held, sent, ses, chain>>
    BY <1>2, Zenon DEF recordWork
  <1>5. /\ DOMAIN qry = Queries /\ DOMAIN work = Queries /\ DOMAIN qry[q] = QueryFields
        /\ work[q] = <<>> /\ qry[q].status \in Answered
    BY <1>2 DEF Inv, Exchanges, QueryShape, QueryOk
  <1>6. /\ DOMAIN qry' = Queries /\ \A x \in Queries \ {q} : qry'[x] = qry[x]
        /\ DOMAIN qry'[q] = QueryFields /\ qry'[q].pc = "done"
    BY <1>4, <1>5 DEF QueryFields
  <1>7. /\ DOMAIN work' = Queries /\ \A x \in Queries \ {q} : work'[x] = work[x]
        /\ work'[q] = <<row>>
    BY <1>3, <1>5
  <1>8. PICK m \in 1 .. Len(chain) : Matches(q, row, chain[m])
    <2>1. PICK m \in 1 .. Len(chain) :
             chain[m] = AuditRecord("model-exchange", q, queryAction(q), candidate(q).id, 0)
      <3>1. BusyOk(p)
        BY SectionsWork
      <3>2. QED
        BY <1>2, <3>1, Zenon DEF recordWork, BusyOk
    <2>2. (row.status = "rejected") = (queryAction(q) = "blocked")
      BY <1>3, <1>5 DEF queryAction, Answered
    <2>3. QED
      BY <1>3, <2>1, <2>2 DEF Matches, AuditRecord
  <1>9. RowsMatched(q)'
    <2>1. Len(work'[q]) = 1 /\ work'[q][1] = row
      BY <1>7
    <2>2. \A n \in 1 .. Len(work'[q]) : work'[q][n] = row
      BY <2>1
    <2>3. m \in 1 .. Len(chain') /\ chain'[m] = chain[m]
      BY <1>4
    <2>4. \A n \in 1 .. Len(work'[q]) : Matches(q, work'[q][n], chain'[m])
      BY <1>8, <2>2, <2>3
    <2>5. QED
      BY <2>3, <2>4 DEF RowsMatched, Matches
  <1>10. ExchangeOk(q)'
    <2>1. \E x : work'[q] = <<x>>
      BY <1>7, Zenon
    <2>2. QED
      BY <1>6, <1>9, <2>1 DEF ExchangeOk, QueryOk
  <1>11. Exchanges'
    BY <1>1, <1>6, <1>7, <1>10, ExchangesStep DEF Inv
  <1>12. Answers' /\ Loops'
    BY <1>1, <1>4, AnswersFrame, LoopsFrame DEF Inv
  <1>13. ASSUME NEW x \in Replicas \ {p} PROVE Undisturbed(x)
    <2>1. WorksOn(x) /\ busy'[x] = busy[x]
      BY <1>4, SectionsWork DEF SectionShape
    <2>2. QED
      BY <1>2, <1>4, <1>6, <2>1 DEF WorksOn, Undisturbed
  <1>14. Sections'
    BY <1>1, <1>4, <1>13, SectionEnds
  <1>15. QED
    BY <1>1, <1>11, <1>12, <1>14, Zenon DEF Inv

LEMMA QueryRaisesStep ==
    ASSUME Inv, NEW p \in Replicas, QueryRaises(p)
    PROVE  Inv'
  <1>1. IsSeq(chain)' /\ ChainKept
    BY ChainGrows, Zenon DEF Inv, QueryRaises
  <1>2. PICK q \in Queries : q = busy[p].id /\ qry[q].pc = "recording" /\ qry[q].at = p
    <2>1. WorksOn(p)
      BY SectionsWork
    <2>2. QED
      BY <2>1, Zenon DEF QueryRaises, WorksOn
  <1>3. /\ qry' = [qry EXCEPT ![q].pc = "failed"] /\ busy' = [busy EXCEPT ![p] = Idle]
        /\ UNCHANGED <<env, up, req, held, sent, ses, work, chain>>
    BY <1>2, Zenon DEF QueryRaises
  <1>4. DOMAIN qry = Queries /\ DOMAIN qry[q] = QueryFields
    BY DEF Inv, Exchanges, QueryShape
  <1>5. /\ DOMAIN qry' = Queries /\ \A x \in Queries \ {q} : qry'[x] = qry[x]
        /\ DOMAIN qry'[q] = QueryFields /\ qry'[q].pc = "failed"
    BY <1>3, <1>4 DEF QueryFields
  <1>6. Exchanges'
    BY <1>1, <1>2, <1>3, <1>5, QueryMoves DEF Inv
  <1>7. Answers' /\ Loops'
    BY <1>1, <1>3, AnswersFrame, LoopsFrame DEF Inv
  <1>8. ASSUME NEW x \in Replicas \ {p} PROVE Undisturbed(x)
    <2>1. WorksOn(x) /\ busy'[x] = busy[x]
      BY <1>3, SectionsWork DEF SectionShape
    <2>2. QED
      BY <1>2, <1>3, <1>5, <2>1 DEF WorksOn, Undisturbed
  <1>9. Sections'
    BY <1>1, <1>3, <1>8, SectionEnds
  <1>10. QED
    BY <1>1, <1>6, <1>7, <1>9, Zenon DEF Inv

LEMMA TickOrBootStep ==
    ASSUME Inv, Tick \/ \E p \in Replicas : Boot(p)
    PROVE  Inv'
  <1>1. UNCHANGED <<env, busy, req, held, sent, ses, qry, work, chain>>
    BY DEF Tick, Boot
  <1>2. IsSeq(chain)' /\ ChainKept
    BY <1>1, ChainGrows DEF Inv
  <1>3. Answers' /\ Loops' /\ Exchanges'
    BY <1>1, <1>2, AnswersFrame, LoopsFrame, ExchangesFrame DEF Inv
  <1>4. SectionShape' /\ \A x \in Replicas : up'[x] = up[x] \/ assertMi9EnforcementAllowed
    BY <1>1 DEF Tick, Boot, Inv, Sections, SectionShape
  <1>5. ASSUME NEW x \in Replicas, up'[x] = up[x] PROVE Undisturbed(x)
    <2>1. WorksOn(x)
      BY SectionsWork
    <2>2. QED
      BY <1>1, <1>5, <2>1 DEF WorksOn, Undisturbed
  <1>6. ASSUME NEW x \in Replicas, assertMi9EnforcementAllowed PROVE BusyOk(x)'
    <2>1. BusyOk(x) /\ (assertMi9EnforcementAllowed)'
      BY <1>1, <1>6, SectionsWork DEF assertMi9EnforcementAllowed
    <2>2. queryAction(busy[x].id)' = queryAction(busy[x].id)
          /\ candidate(busy[x].id)' = candidate(busy[x].id)
      BY <1>1, Zenon DEF queryAction, candidate
    <2>3. Signed(busy[x].id, busy[x].by)' <=> Signed(busy[x].id, busy[x].by)
      BY <1>1, Zenon DEF Signed, Judged
    <2>4. QED
      BY <1>1, <2>1, <2>2, <2>3 DEF BusyOk, AuditRecord
  <1>7. Sections'
    BY <1>1, <1>2, <1>4, <1>5, <1>6, SectionsFrame DEF Inv
  <1>8. QED
    BY <1>2, <1>3, <1>7, Zenon DEF Inv

(* A crash forgets what was in progress; a row, a record and what went out  *)
(* stay as they are.                                                        *)
LEMMA CrashStep ==
    ASSUME Inv, NEW p \in Replicas, Crash(p)
    PROVE  Inv'
  <1>1. IsSeq(chain)' /\ ChainKept
    BY ChainGrows, Zenon DEF Inv, Crash
  <1>2. /\ UNCHANGED <<env, held, sent, work, chain>>
        /\ up' = [up EXCEPT ![p] = FALSE] /\ busy' = [busy EXCEPT ![p] = Idle]
    BY DEF Crash
  <1>3. Answers'
    <2>1. AnswerShape'
      <3>1. ASSUME NEW r \in Requests PROVE req'[r] \in RequestRecord
        <4>1. req[r] \in RequestRecord
          BY DEF Inv, Answers, AnswerShape
        <4>2. [req[r] EXCEPT !.pc = "failed"] \in RequestRecord
          BY <4>1 DEF RequestRecord
        <4>3. QED
          BY <4>1, <4>2, Zenon DEF Crash
      <3>2. req' \in [Requests -> RequestRecord]
        BY <3>1 DEF Crash
      <3>3. QED
        BY <1>2, <3>2, Zenon DEF Inv, Answers, AnswerShape
    <2>2. ASSUME NEW r \in Requests PROVE AnswerOk(r)'
      <3>1. AnswerOk(r)
        BY DEF Inv, Answers
      <3>2. CASE req'[r] = req[r]
        BY <1>1, <1>2, <3>1, <3>2, AnswerKept
      <3>3. CASE req'[r] # req[r]
        <4>1. req[r].pc # "done" /\ req'[r].pc = "failed"
          BY <3>3 DEF Crash, Inv, Answers, AnswerShape, RequestRecord
        <4>2. QED
          BY <1>2, <3>1, <4>1 DEF AnswerOk
      <3>4. QED
        BY <3>2, <3>3
    <2>3. QED
      BY <2>1, <2>2, Zenon DEF Answers
  <1>4. ASSUME NEW s \in Sessions
        PROVE  \/ ses'[s] = ses[s]
               \/ /\ DOMAIN ses'[s] = SessionFields /\ ses'[s].pc = "failed"
                  /\ ses'[s].i = ses[s].i /\ ses'[s].verdicts = ses[s].verdicts
    BY DEF Crash, Inv, Loops, SessionShape, SessionFields
  <1>5. Loops'
    <2>1. ASSUME NEW s \in Sessions PROVE LoopOk(s)'
      BY <1>1, <1>4, LoopKept DEF Inv, Loops, SessionShape
    <2>2. DOMAIN ses' = Sessions
      BY DEF Crash
    <2>3. SessionShape'
      BY <1>4, <2>2 DEF Inv, Loops, SessionShape
    <2>4. QED
      BY <2>1, <2>3, Zenon DEF Loops
  <1>6. ASSUME NEW q \in Queries
        PROVE  \/ qry'[q] = qry[q]
               \/ /\ qry[q].pc \in {"new", "executing", "recording"}
                  /\ DOMAIN qry'[q] = QueryFields /\ qry'[q].pc = "failed"
    BY DEF Crash, Inv, Exchanges, QueryShape, QueryFields
  <1>7. Exchanges'
    <2>1. ASSUME NEW q \in Queries PROVE QueryOk(q)'
      <3>1. QueryOk(q) /\ RowsMatched(q)
        BY DEF Inv, Exchanges, QueryOk
      <3>2. CASE qry'[q] = qry[q]
        BY <1>1, <1>2, <3>1, <3>2, QueryKept
      <3>3. CASE qry[q].pc \in {"new", "executing", "recording"} /\ qry'[q].pc = "failed"
        <4>1. RowsMatched(q)'
          BY <1>1, <1>2, <3>1, RowsKept
        <4>2. work'[q] = <<>>
          BY <1>2, <3>1, <3>3 DEF QueryOk
        <4>3. QED
          BY <3>3, <4>1, <4>2 DEF QueryOk
      <3>4. QED
        BY <1>6, <3>2, <3>3
    <2>2. DOMAIN qry' = Queries
      BY DEF Crash
    <2>3. QueryShape'
      BY <1>2, <1>6, <2>2 DEF Inv, Exchanges, QueryShape
    <2>4. QED
      BY <2>1, <2>3, Zenon DEF Exchanges
  <1>8. SectionShape' /\ busy'[p] = Idle /\ up'[p] = FALSE
    BY <1>2 DEF Inv, Sections, SectionShape, Idle
  <1>9. BusyOk(p)'
    BY <1>8 DEF BusyOk, Idle
  <1>10. ASSUME NEW x \in Replicas \ {p} PROVE Undisturbed(x)
    <2>1. WorksOn(x) /\ busy'[x] = busy[x] /\ up'[x] = up[x]
      BY <1>2, SectionsWork DEF SectionShape
    <2>2. /\ \A r \in Requests : req[r].at = x => req'[r] = req[r]
          /\ \A s \in Sessions : ses[s].at = x => ses'[s] = ses[s]
          /\ \A q \in Queries : qry[q].at = x => qry'[q] = qry[q]
      BY DEF Crash
    <2>3. QED
      BY <1>2, <2>1, <2>2 DEF WorksOn, Undisturbed
  <1>11. Sections'
    BY <1>1, <1>2, <1>8, <1>9, <1>10, SectionsFrame DEF Inv
  <1>12. QED
    BY <1>1, <1>3, <1>5, <1>7, <1>11, Zenon DEF Inv

LEMMA InitInv == Init => Inv
  <1> SUFFICES ASSUME Init PROVE Inv
    OBVIOUS
  <1>1. PICK d \in Deployments :
         /\ req = [r \in Requests |->
                     [pc |-> IF r \in d.work THEN "new" ELSE "done", at |-> "none",
                      answer |-> "none", verdict |-> "none"]]
         /\ ses = [s \in Sessions |->
                     [pc |-> IF s \in d.work THEN "new" ELSE "done", at |-> "none",
                      domain |-> <<>>, actions |-> <<>>, i |-> 1, fallback |-> FALSE,
                      baseline |-> Asset.soc,
                      soc |-> Asset.soc, verdicts |-> <<>>, advisories |-> <<>>]]
         /\ qry = [q \in Queries |->
                     [pc |-> IF q \in d.work THEN "new" ELSE "done", at |-> "none",
                      ask |-> "none", routing |-> <<>>, i |-> 1, verdict |-> "none",
                      confidence |-> 0, status |-> "none"]]
    BY Zenon DEF Init
  <1>2. /\ work = [q \in Queries |-> <<>>]
        /\ held = [r \in Requests |-> [state |-> "none", by |-> "none"]]
        /\ sent = [r \in Requests |-> [direct |-> 0, released |-> 0]]
        /\ chain = <<>>
        /\ up = [p \in Replicas |-> FALSE] /\ busy = [p \in Replicas |-> Idle]
    BY DEF Init
  <1>3. IsSeq(chain)
    <2>1. <<>> \in Seq({})
      OBVIOUS
    <2>2. QED
      BY <1>2, <2>1, Zenon DEF IsSeq
  <1>4. Answers
    <2>1. AnswerShape
      BY <1>1, <1>2 DEF AnswerShape, RequestRecord
    <2>2. \A r \in Requests : AnswerOk(r)
      BY <1>1, <1>2 DEF AnswerOk
    <2>3. QED
      BY <2>1, <2>2 DEF Answers
  <1>5. Loops
    <2>1. SessionShape
      <3>1. <<>> \in Seq(Verdict)
        OBVIOUS
      <3>2. DOMAIN ses = Sessions
        BY <1>1
      <3>3. ASSUME NEW s \in Sessions
            PROVE  /\ DOMAIN ses[s] = SessionFields
                   /\ ses[s].pc \in {"new", "proposing", "looping", "done", "failed"}
                   /\ ses[s].i \in Nat \ {0} /\ ses[s].verdicts \in Seq(Verdict)
        <4>1. ses[s] = [pc |-> IF s \in d.work THEN "new" ELSE "done", at |-> "none",
                        domain |-> <<>>, actions |-> <<>>, i |-> 1, fallback |-> FALSE,
                        baseline |-> Asset.soc,
                        soc |-> Asset.soc, verdicts |-> <<>>, advisories |-> <<>>]
          BY <1>1, Zenon
        <4>2. DOMAIN ses[s] = SessionFields
          BY <4>1 DEF SessionFields
        <4>3. ses[s].pc \in {"new", "done"} /\ ses[s].i = 1 /\ ses[s].verdicts = <<>>
          BY <4>1
        <4>4. 1 \in Nat \ {0}
          OBVIOUS
        <4>5. QED
          BY <3>1, <4>2, <4>3, <4>4
      <3>4. QED
        BY <3>2, <3>3, Zenon DEF SessionShape
    <2>2. \A s \in Sessions : LoopOk(s)
      BY <1>1 DEF LoopOk
    <2>3. QED
      BY <2>1, <2>2 DEF Loops
  <1>6. Exchanges
    <2>1. QueryShape
      BY <1>1, <1>2 DEF QueryShape, QueryFields
    <2>2. \A q \in Queries : QueryOk(q)
      BY <1>1, <1>2 DEF QueryOk, RowsMatched
    <2>3. QED
      BY <2>1, <2>2 DEF Exchanges
  <1>7. Sections
    BY <1>2 DEF Sections, SectionShape, BusyOk, Idle
  <1>8. QED
    BY <1>3, <1>4, <1>5, <1>6, <1>7 DEF Inv

LEMMA NextInv ==
    ASSUME Inv, [Next]_vars
    PROVE  Inv'
  <1>1. CASE UNCHANGED vars
    <2>1. UNCHANGED <<env, up, busy, req, held, sent, ses, qry, work, chain>>
      BY <1>1 DEF vars
    <2>2. IsSeq(chain)' /\ ChainKept
      BY <2>1, ChainGrows DEF Inv
    <2>3. Answers' /\ Loops' /\ Exchanges'
      BY <2>1, <2>2, AnswersFrame, LoopsFrame, ExchangesFrame DEF Inv
    <2>4. SectionShape'
      BY <2>1, Zenon DEF Inv, Sections, SectionShape
    <2>5. ASSUME NEW x \in Replicas PROVE Undisturbed(x)
      <3>1. WorksOn(x)
        BY SectionsWork
      <3>2. QED
        BY <2>1, <3>1 DEF WorksOn, Undisturbed
    <2>6. Sections'
      BY <2>1, <2>2, <2>4, <2>5, SectionsFrame DEF Inv
    <2>7. QED
      BY <2>2, <2>3, <2>6, Zenon DEF Inv
  <1>2. CASE Tick \/ \E p \in Replicas : Boot(p)
    BY <1>2, TickOrBootStep
  <1>3. CASE \E p \in Replicas : Crash(p)
    BY <1>3, CrashStep
  <1>4. CASE \E p \in Replicas : Enforce(p) \/ HoldRaises(p)
    BY <1>4, EnforceStep, HoldRaisesStep
  <1>5. CASE \E p \in Replicas :
               CosignAppend(p) \/ CosignAppendRaises(p) \/ CosignMark(p)
    BY <1>5, CosignAppendStep, CosignAppendRaisesStep, CosignMarkStep
  <1>6. CASE \E p \in Replicas :
               LoopEvaluate(p) \/ LoopAppend(p) \/ LoopAppendRaises(p)
    BY <1>6, LoopEvaluateStep, LoopAppendStep, LoopAppendRaisesStep
  <1>7. CASE \E p \in Replicas : QueryAppend(p) \/ recordWork(p) \/ QueryRaises(p)
    BY <1>7, QueryAppendStep, recordWorkStep, QueryRaisesStep
  <1>8. CASE \E p \in Replicas, q \in Queries :
               \/ ExecuteEngine(q, p)
               \/ \E request \in UnifiedRequests : Query(q, p, request)
    BY <1>8, ExecuteEngineStep, QueryStep
  <1>9. CASE \E p \in Replicas, r \in Requests :
               \/ Context(r, p)
               \/ \E b \in BOOLEAN : Gateway(r, p, b) \/ Gate(r, p, b)
    BY <1>9, ContextStep, GatewayStep, GateStep
  <1>10. CASE \E p \in Replicas, r \in Requests :
                \/ \E strategy \in Strategies, calls \in [1 .. 2 -> BOOLEAN],
                      answer \in {"empty", "short", "long"} :
                      ModelFabric(r, p, strategy, calls, answer)
                \/ GateRaises(r, p)
                \/ \E o \in Operators : CosignRead(o, p, r)
    BY <1>10, ModelFabricStep, GateRaisesStep, CosignReadStep
  <1>11. CASE \E p \in Replicas, s \in Sessions :
                \/ \E domain \in DecisionDomains : Decide(s, p, domain)
                \/ \E fallback \in BOOLEAN, proposal \in ModelActions :
                      Propose(s, p, fallback, proposal)
    BY <1>11, DecideStep, ProposeStep
  <1>12. QED
    BY <1>1, <1>2, <1>3, <1>4, <1>5, <1>6, <1>7, <1>8, <1>9, <1>10, <1>11, Zenon
       DEF Next

LEMMA InvariantHolds == Spec => []Inv
  BY InitInv, NextInv, PTL DEF Spec

----------------------------------------------------------------------------
(* A held answer is handed out once, however many operators co-sign it and  *)
(* on however many replicas (cosign-store.ts:148): the row's state counts   *)
(* the releases, and only the update of an open row adds one.               *)
THEOREM HandedOutOnce == Spec => []ReleasedOnce
  <1>1. Inv => ReleasedOnce
    BY DEF Inv, Answers, AnswerOk, AnswerShape, ReleasedOnce
  <1>2. QED
    BY <1>1, InvariantHolds, PTL

(* In production nothing the gate did not allow reaches a client before its *)
(* own record and a release signed by the operator whom the row names are   *)
(* in the chain, in this order; the exception is the catch of               *)
(* orchestrator.ts:239.  For any number of replicas, requests, operators    *)
(* and crashes.                                                             *)
THEOREM ProductionIsGoverned == Spec => []AnswersAreGoverned
  <1>1. ASSUME Inv PROVE AnswersAreGoverned
    <2> SUFFICES ASSUME env.production, NEW r \in Requests
                 PROVE  /\ sent[r].direct > 0 => req[r].verdict \in {"allow", "audit-error"}
                        /\ sent[r].released > 0 =>
                              \E i, j \in DOMAIN chain :
                                 /\ i < j
                                 /\ chain[i].type = "planes.inference" /\ chain[i].id = r
                                 /\ chain[i].action \in {"held-for-cosign", "escalated"}
                                 /\ chain[j] = AuditRecord("cosign.release", r, "executed",
                                                           held[r].by, 0)
      BY DEF AnswersAreGoverned
    <2>1. AnswerOk(r)
      BY <1>1 DEF Inv, Answers
    <2>2. DOMAIN chain = 1 .. Len(chain)
      BY <1>1, AppendedSeq DEF Inv
    <2>3. sent[r].released > 0 => Signed(r, held[r].by)
      BY <2>1 DEF AnswerOk
    <2>4. QED
      BY <2>1, <2>2, <2>3 DEF AnswerOk, Signed, Judged
  <1>2. QED
    BY <1>1, InvariantHolds, PTL

(* What ran is in the chain: of the actions a session executed, at most the *)
(* one in progress when an append failed or the replica crashed is not      *)
(* recorded, and every row of the work ledger has its record, the row being *)
(* written last.                                                            *)
THEOREM WorkIsRecorded == Spec => []ExecutedIsRecorded
  <1>1. ASSUME Inv, NEW s \in Sessions PROVE SessionIsRecorded(s)
    <2> DEFINE unrecorded == {i \in DOMAIN ses[s].verdicts :
                                /\ ses[s].verdicts[i] = "allow"
                                /\ AuditRecord("decision", s, "executed", "none", i)
                                      \notin Range(chain)}
    <2>1. /\ LoopOk(s) /\ ses[s].verdicts \in Seq(Verdict) /\ ses[s].i \in Nat \ {0}
          /\ DOMAIN chain = 1 .. Len(chain)
      BY <1>1, AppendedSeq DEF Inv, Loops, SessionShape
    <2>2. unrecorded \subseteq {ses[s].i}
      <3>1. ASSUME NEW j \in unrecorded, j # ses[s].i PROVE FALSE
        <4>1. j \in 1 .. Len(ses[s].verdicts) /\ ses[s].verdicts[j] = "allow"
          BY <2>1
        <4>2. PICK n \in 1 .. Len(chain) :
                 chain[n] = AuditRecord("decision", s, "executed", "none", j)
          BY <2>1, <3>1, <4>1, Zenon DEF LoopOk
        <4>3. QED
          BY <2>1, <4>2, Zenon DEF Range
      <3>2. QED
        BY <3>1
    <2>3. Cardinality(unrecorded) <= 1
      <3>1. IsFiniteSet({ses[s].i}) /\ Cardinality({ses[s].i}) = 1
        BY FS_Singleton
      <3>2. IsFiniteSet(unrecorded) /\ Cardinality(unrecorded) <= Cardinality({ses[s].i})
        BY <2>2, <3>1, FS_Subset
      <3>3. QED
        BY <3>1, <3>2
    <2>4. ses[s].pc = "done" => unrecorded = {}
      <3>1. ses[s].pc = "done" => ses[s].i \notin DOMAIN ses[s].verdicts
        BY <2>1 DEF LoopOk
      <3>2. QED
        BY <2>2, <3>1
    <2>5. QED
      BY <2>3, <2>4, Zenon DEF SessionIsRecorded
  <1>2. ASSUME Inv, NEW q \in Queries PROVE QueryIsRecorded(q)
    <2>1. QueryOk(q) /\ DOMAIN chain = 1 .. Len(chain)
      BY <1>2, AppendedSeq DEF Inv, Exchanges
    <2>2. work[q] = <<>> \/ \E row : work[q] = <<row>>
      BY <1>2, <2>1 DEF QueryOk, Inv, Exchanges, QueryShape
    <2>3. /\ DOMAIN work[q] = 1 .. Len(work[q])
          /\ (\E row : work[q] = <<row>>) => Len(work[q]) = 1
      <3>1. CASE work[q] = <<>>
        BY <3>1
      <3>2. ASSUME NEW row, work[q] = <<row>>
            PROVE  DOMAIN work[q] = 1 .. Len(work[q]) /\ Len(work[q]) = 1
        BY <3>2
      <3>3. QED
        BY <2>2, <3>1, <3>2, Zenon
    <2>4. ASSUME qry[q].pc = "done", qry[q].status \notin {"none", "rejected-policy", "failed"}
          PROVE  Len(work[q]) = 1
      BY <2>1, <2>3, <2>4, Zenon DEF QueryOk
    <2>5. QED
      BY <2>1, <2>3, <2>4 DEF QueryOk, QueryIsRecorded, RowsMatched, Matches, Range
  <1>3. Inv => ExecutedIsRecorded
    BY <1>1, <1>2 DEF ExecutedIsRecorded
  <1>4. QED
    BY <1>3, InvariantHolds, PTL

----------------------------------------------------------------------------
(* The clock, the settings and what a replica keeps in memory.              *)
Ambient ==
    /\ now \in 0 .. MaxTime /\ env \in Settings
    /\ bucket \in [Replicas -> [count : 0 .. maxRPM, resetAt : Int]]
    /\ history \in [Replicas -> Nat]

LEMMA InitAmbient == Init => Ambient
  <1> SUFFICES ASSUME Init PROVE Ambient
    OBVIOUS
  <1>1. env \in Settings
    BY DeploymentsAssumption DEF Init
  <1>2. NoBucket \in [count : 0 .. maxRPM, resetAt : Int] /\ TokenLimit \in Nat
        /\ 0 \in 0 .. MaxTime
    BY DecisionAssumption DEF NoBucket
  <1>3. now = 0 /\ bucket = [p \in Replicas |-> NoBucket]
        /\ history = [p \in Replicas |-> TokenLimit]
    BY DEF Init
  <1>4. QED
    BY <1>1, <1>2, <1>3 DEF Ambient

LEMMA NextAmbient ==
    ASSUME Ambient, [Next]_vars
    PROVE  Ambient'
  <1>1. CASE UNCHANGED <<now, env, bucket, history>>
    BY <1>1, Zenon DEF Ambient
  <1>2. CASE Tick
    BY <1>2, DecisionAssumption DEF Tick, Ambient
  <1>3. ASSUME NEW r \in Requests, NEW p \in Replicas, NEW b \in BOOLEAN, Gateway(r, p, b)
        PROVE  Ambient'
    <2>1. checkRateLimit(bucket[p]).bucket \in [count : 0 .. maxRPM, resetAt : Int]
      <3>1. PICK k : k = bucket[p] /\ k \in [count : 0 .. maxRPM, resetAt : Int]
        BY DEF Ambient
      <3>2. /\ [count |-> 1, resetAt |-> now + Minute] \in [count : 0 .. maxRPM, resetAt : Int]
            /\ k.count < maxRPM =>
                 [k EXCEPT !.count = @ + 1] \in [count : 0 .. maxRPM, resetAt : Int]
        BY <3>1, DecisionAssumption DEF Ambient
      <3>3. k.count >= maxRPM \/ k.count < maxRPM
        BY <3>1, DecisionAssumption
      <3>4. QED
        BY <3>1, <3>2, <3>3 DEF checkRateLimit
    <2>2. bucket' = [bucket EXCEPT ![p] = checkRateLimit(bucket[p]).bucket]
          /\ UNCHANGED <<now, env, history>>
      BY <1>3, Zenon DEF Gateway
    <2>3. QED
      BY <2>1, <2>2 DEF Ambient
  <1>4. ASSUME NEW r \in Requests, NEW p \in Replicas, Context(r, p)
        PROVE  Ambient'
    <2>1. history[p] \in Nat /\ KeepRecent \in Nat
      BY DecisionAssumption DEF Ambient
    <2>2. compress(history[p] + 1) \in Nat
      BY <2>1 DEF compress
    <2>3. QED
      BY <1>4, <2>1, <2>2 DEF Context, Ambient
  <1>5. ASSUME NEW p \in Replicas, Crash(p)
        PROVE  Ambient'
    <2>1. NoBucket \in [count : 0 .. maxRPM, resetAt : Int]
      BY DecisionAssumption DEF NoBucket
    <2>2. QED
      BY <1>5, <2>1 DEF Crash, Ambient
  <1>6. QED
    <2>1. CASE UNCHANGED vars
      BY <1>1, <2>1 DEF vars
    <2>2. ASSUME NEW p \in Replicas,
                 \/ Boot(p) \/ Enforce(p) \/ HoldRaises(p)
                 \/ CosignAppend(p) \/ CosignAppendRaises(p) \/ CosignMark(p)
                 \/ LoopEvaluate(p) \/ LoopAppend(p) \/ LoopAppendRaises(p)
                 \/ QueryAppend(p) \/ recordWork(p) \/ QueryRaises(p)
          PROVE  UNCHANGED <<now, env, bucket, history>>
      BY <2>2, Zenon DEF Boot, Enforce, HoldRaises, CosignAppend, CosignAppendRaises,
                  CosignMark, LoopEvaluate, LoopAppend, LoopAppendRaises, QueryAppend,
                  recordWork, QueryRaises
    <2>3. ASSUME NEW p \in Replicas, NEW q \in Queries,
                 \/ ExecuteEngine(q, p)
                 \/ \E request \in UnifiedRequests : Query(q, p, request)
          PROVE  UNCHANGED <<now, env, bucket, history>>
      BY <2>3, Zenon DEF ExecuteEngine, Query
    <2>4. ASSUME NEW p \in Replicas, NEW r \in Requests,
                 \/ \E b \in BOOLEAN : Gate(r, p, b)
                 \/ \E strategy \in Strategies, calls \in [1 .. 2 -> BOOLEAN],
                       answer \in {"empty", "short", "long"} :
                       ModelFabric(r, p, strategy, calls, answer)
                 \/ GateRaises(r, p)
                 \/ \E o \in Operators : CosignRead(o, p, r)
          PROVE  UNCHANGED <<now, env, bucket, history>>
      BY <2>4, Zenon DEF Gate, ModelFabric, GateRaises, CosignRead
    <2>5. ASSUME NEW p \in Replicas, NEW s \in Sessions,
                 \/ \E domain \in DecisionDomains : Decide(s, p, domain)
                 \/ \E fallback \in BOOLEAN, proposal \in ModelActions :
                       Propose(s, p, fallback, proposal)
          PROVE  UNCHANGED <<now, env, bucket, history>>
      BY <2>5, Zenon DEF Decide, Propose
    <2>6. QED
      BY <1>1, <1>2, <1>3, <1>4, <1>5, <2>1, <2>2, <2>3, <2>4, <2>5, Zenon DEF Next

(* Every variable keeps its type; the gateway's bucket never holds more     *)
(* than RATE_LIMIT_RPM requests.                                            *)
THEOREM TypeCorrect == Spec => []TypeOK
  <1>1. ASSUME Inv, Ambient PROVE TypeOK
    <2>1. /\ \A p \in Replicas : bucket[p].count \in 0 .. maxRPM /\ history[p] \in Nat
          /\ now \in 0 .. MaxTime /\ env \in Settings
      BY <1>1 DEF Ambient
    <2>2. /\ up \in [Replicas -> BOOLEAN]
          /\ \A p \in Replicas :
                busy[p].k \in {"idle", "enforce", "cosign", "signed", "loop", "append",
                              "record", "work"}
      BY <1>1 DEF Inv, Sections, SectionShape
    <2>3. \A r \in Requests :
             /\ req[r].pc \in {"new", "gateway", "context", "modelled", "enforcing",
                               "done", "failed"}
             /\ held[r].state \in {"none", "open", "released"}
             /\ sent[r] \in [direct : 0 .. 1, released : Nat]
      BY <1>1 DEF Inv, Answers, AnswerShape, RequestRecord
    <2>4. QED
      BY <1>1, <2>1, <2>2, <2>3, Zenon
         DEF TypeOK, Inv, Loops, SessionShape, Exchanges, QueryShape
  <1>2. Spec => []Ambient
    BY InitAmbient, NextAmbient, PTL DEF Spec
  <1>3. QED
    BY <1>1, <1>2, InvariantHolds, PTL

----------------------------------------------------------------------------
(* The battery day.  Its two recursive functions are reasoned about through *)
(* the first hour at which a claim would fail.                              *)

LEMMA FirstHour ==
    ASSUME NEW S \in SUBSET Nat, S # {}
    PROVE  \E n \in S : n = 0 \/ (n - 1 \in Nat /\ n - 1 \notin S)
  <1> DEFINE R == OpToRel(<, Nat)
  <1>1. IsWellFoundedOn(R, Nat)
    BY NatLessThanWellFounded
  <1>2. \A m, n \in Nat : m < n => <<m, n>> \in R
    BY DEF OpToRel
  <1> HIDE DEF R
  <1>3. PICK n \in S : \A m \in S : <<m, n>> \notin R
    BY <1>1, WFMin
  <1>4. \A m \in S : ~(m < n)
    BY <1>2, <1>3, Zenon
  <1>5. n = 0 \/ (n - 1 \in Nat /\ n - 1 < n)
    OBVIOUS
  <1>6. QED
    BY <1>4, <1>5

LEMMA LowestOf ==
    ASSUME NEW a \in Int, NEW b \in Int, NEW c \in Int
    PROVE  /\ Lowest({a, b, c}) \in {a, b, c}
           /\ Lowest({a, b, c}) <= a /\ Lowest({a, b, c}) <= b /\ Lowest({a, b, c}) <= c
  <1> DEFINE S == {a, b, c}
  <1>1. \E x \in S : \A y \in S : x <= y
    <2>1. CASE a <= b /\ a <= c
      BY <2>1
    <2>2. CASE b <= a /\ b <= c
      BY <2>2
    <2>3. CASE c <= a /\ c <= b
      BY <2>3
    <2>4. QED
      BY <2>1, <2>2, <2>3
  <1>2. Lowest(S) \in S /\ \A y \in S : Lowest(S) <= y
    <2> HIDE DEF S
    <2>1. QED
      BY <1>1, Zenon DEF Lowest
  <1>3. QED
    BY <1>2

LEMMA LowestOfTwo ==
    ASSUME NEW a \in Int, NEW b \in Int
    PROVE  Lowest({a, b}) \in {a, b} /\ Lowest({a, b}) <= a /\ Lowest({a, b}) <= b
  <1>1. {a, b} = {a, b, b}
    OBVIOUS
  <1>2. Lowest({a, b}) = Lowest({a, b, b})
    BY <1>1, Zenon
  <1>3. QED
    BY <1>2, LowestOf

(* runBaselinePolicy satisfies its recursion: a function that does exists   *)
(* for every prefix of the day.                                             *)
LEMMA BaselineHours ==
    ASSUME NEW h \in 0 .. Len(Ticks)
    PROVE  runBaselinePolicy[h] =
              IF h = 0 THEN Asset.soc ELSE baselineHour(runBaselinePolicy[h - 1], h)
  <1> DEFINE G(g, n) == g = [k \in 0 .. n |-> IF k = 0 THEN Asset.soc
                                              ELSE baselineHour(g[k - 1], k)]
  <1>1. Len(Ticks) \in Nat
    BY ScenarioAssumption
  <1>2. ASSUME NEW n \in Nat PROVE \E g : G(g, n)
    <2> DEFINE S == {m \in Nat : ~\E g : G(g, m)}
    <2> SUFFICES ASSUME S # {} PROVE FALSE
      OBVIOUS
    <2>1. PICK m \in S : m = 0 \/ (m - 1 \in Nat /\ m - 1 \notin S)
      BY FirstHour
    <2>2. CASE m = 0
      <3>1. G([k \in 0 .. 0 |-> Asset.soc], 0)
        OBVIOUS
      <3>2. QED
        BY <2>2, <3>1
    <2>3. CASE m # 0
      <3>1. PICK g : G(g, m - 1)
        BY <2>1, <2>3
      <3>2. PICK f : f = [k \in 0 .. m |-> IF k = m THEN baselineHour(g[m - 1], m)
                                           ELSE g[k]]
        OBVIOUS
      <3>3. ASSUME NEW k \in 0 .. m
            PROVE  f[k] = IF k = 0 THEN Asset.soc ELSE baselineHour(f[k - 1], k)
        <4>1. CASE k = m
          BY <2>3, <3>2, <4>1
        <4>2. CASE k # m
          <5>1. k \in 0 .. m - 1 /\ f[k] = g[k] /\ (k # 0 => f[k - 1] = g[k - 1])
            BY <3>2, <4>2
          <5>2. QED
            BY <3>1, <5>1
        <4>3. QED
          BY <4>1, <4>2
      <3>4. G(f, m)
        BY <3>2, <3>3
      <3>5. QED
        BY <3>4
    <2>4. QED
      BY <2>2, <2>3
  <1>3. \E g : G(g, Len(Ticks))
    BY <1>1, <1>2
  <1>4. runBaselinePolicy = CHOOSE g : G(g, Len(Ticks))
    BY DEF runBaselinePolicy
  <1>5. G(runBaselinePolicy, Len(Ticks))
    BY <1>3, <1>4
  <1>6. QED
    BY <1>5

(* The baseline policy keeps the battery within its rating.                 *)
LEMMA BaselineWithin ==
    \A h \in 0 .. Len(Ticks) : runBaselinePolicy[h] \in 0 .. Asset.ratedEnergy
  <1> DEFINE S == {h \in 0 .. Len(Ticks) : runBaselinePolicy[h] \notin 0 .. Asset.ratedEnergy}
  <1> SUFFICES ASSUME S # {} PROVE FALSE
    OBVIOUS
  <1>1. /\ Len(Ticks) \in Nat /\ Asset.ratedPower \in Nat \ {0}
        /\ Asset.ratedEnergy \in Nat \ {0} /\ Asset.soc \in 0 .. Asset.ratedEnergy
    BY ScenarioAssumption
  <1>2. PICK h \in S : h = 0 \/ (h - 1 \in Nat /\ h - 1 \notin S)
    <2>1. S \in SUBSET Nat
      BY <1>1
    <2> HIDE DEF S
    <2>2. QED
      BY <2>1, FirstHour
  <1>3. h # 0 /\ h - 1 \in 0 .. Len(Ticks)
    BY <1>1, <1>2, BaselineHours
  <1>4. PICK s \in 0 .. Asset.ratedEnergy : s = runBaselinePolicy[h - 1]
    BY <1>2, <1>3
  <1>5. runBaselinePolicy[h] = baselineHour(s, h)
    BY <1>3, <1>4, BaselineHours
  <1>6. baselineHour(s, h) \in 0 .. Asset.ratedEnergy
    <2>1. PICK power \in Nat, energy \in Nat :
             power = Asset.ratedPower /\ energy = Asset.ratedEnergy
      BY <1>1, Zenon
    <2>2. PICK room \in Nat : s \in 0 .. energy /\ room = energy - s
      BY <2>1
    <2>3. /\ Lowest({power, s}) \in {power, s} /\ Lowest({power, s}) <= s
          /\ Lowest({power, room}) \in {power, room} /\ Lowest({power, room}) <= room
      <3>1. power \in Int /\ s \in Int /\ room \in Int
        BY <2>2
      <3>2. QED
        BY <3>1, LowestOfTwo, Zenon
    <2>4. baselineHour(s, h) \in {s, s + Lowest({power, room}), s - Lowest({power, s})}
      BY <2>1, <2>2, Zenon DEF baselineHour
    <2>5. baselineHour(s, h) \in 0 .. energy
      BY <2>2, <2>3, <2>4
    <2>6. QED
      BY <2>1, <2>5
  <1>7. QED
    BY <1>2, <1>5, <1>6

(* The same for the fallback proposal.                                      *)
LEMMA FallbackHours ==
    ASSUME NEW h \in 0 .. Len(Ticks)
    PROVE  fallbackDay[h] =
              IF h = 0 THEN [soc |-> Asset.soc, cycled |-> 0, actions |-> <<>>]
              ELSE fallbackHour(fallbackDay[h - 1], h, generateGovernedEnvelope)
  <1> DEFINE morning == [soc |-> Asset.soc, cycled |-> 0, actions |-> <<>>]
             hour(st, k) == fallbackHour(st, k, generateGovernedEnvelope)
             G(g, n) == g = [k \in 0 .. n |-> IF k = 0 THEN morning ELSE hour(g[k - 1], k)]
  <1> HIDE DEF morning, hour
  <1>1. Len(Ticks) \in Nat
    BY ScenarioAssumption
  <1>2. ASSUME NEW n \in Nat PROVE \E g : G(g, n)
    <2> DEFINE S == {m \in Nat : ~\E g : G(g, m)}
    <2> SUFFICES ASSUME S # {} PROVE FALSE
      OBVIOUS
    <2>1. PICK m \in S : m = 0 \/ (m - 1 \in Nat /\ m - 1 \notin S)
      BY FirstHour
    <2>2. CASE m = 0
      <3>1. G([k \in 0 .. 0 |-> morning], 0)
        OBVIOUS
      <3>2. QED
        BY <2>2, <3>1
    <2>3. CASE m # 0
      <3>1. PICK g : G(g, m - 1)
        BY <2>1, <2>3
      <3>2. PICK f : f = [k \in 0 .. m |-> IF k = m THEN hour(g[m - 1], m) ELSE g[k]]
        OBVIOUS
      <3>3. ASSUME NEW k \in 0 .. m
            PROVE  f[k] = IF k = 0 THEN morning ELSE hour(f[k - 1], k)
        <4>1. CASE k = m
          BY <2>3, <3>2, <4>1
        <4>2. CASE k # m
          <5>1. k \in 0 .. m - 1 /\ f[k] = g[k] /\ (k # 0 => f[k - 1] = g[k - 1])
            BY <3>2, <4>2
          <5>2. QED
            BY <3>1, <5>1
        <4>3. QED
          BY <4>1, <4>2
      <3>4. G(f, m)
        BY <3>2, <3>3
      <3>5. QED
        BY <3>4
    <2>4. QED
      BY <2>2, <2>3
  <1>3. \E g : G(g, Len(Ticks))
    BY <1>1, <1>2
  <1>4. fallbackDay = CHOOSE g : G(g, Len(Ticks))
    BY DEF fallbackDay, morning, hour
  <1>5. G(fallbackDay, Len(Ticks))
    BY <1>3, <1>4
  <1>6. QED
    BY <1>5 DEF morning, hour

LEMMA TickPrice == ASSUME NEW h \in 1 .. Len(Ticks) PROVE Ticks[h].dam \in Int
  <1>1. PICK T : T = [dam : Int, fcr : Int]
    BY Zenon
  <1>2. Ticks \in Seq(T)
    BY <1>1, ScenarioAssumption, Zenon
  <1>3. Ticks[h] \in T
    BY <1>2
  <1>4. QED
    BY <1>1, <1>3

LEMMA Percentage == \A n \in 0 .. 100 : n \in Nat
  OBVIOUS

floor == generateGovernedEnvelope.socFloor
ceiling == generateGovernedEnvelope.socCeiling

LEMMA EnvelopeTyped == floor \in Int /\ ceiling \in Int
  <1>1. PICK energy \in Nat : energy = Asset.ratedEnergy
    BY ScenarioAssumption
  <1>2. floor = energy \div 10 /\ ceiling = (energy * 95) \div 100
    BY <1>1, Zenon DEF floor, ceiling, generateGovernedEnvelope
  <1>3. QED
    BY <1>2

(* A day that starts within the envelope, and the charge of such a day.     *)
WithinAtDawn == Asset.soc \in floor .. ceiling

Charge(soc) == soc \in Int /\ (WithinAtDawn => soc \in floor .. ceiling)

DayState(soc, cycled, acts) == [soc |-> soc, cycled |-> cycled, actions |-> acts]

(* An action that moves no more than an hour at rated power.                *)
Modest(a) == a.type \in {"charge", "discharge"} => a.volume \in 0 .. Asset.ratedPower

HourAdds(h, st, soc, acts, a, t) ==
    /\ fallbackHour(st, h, generateGovernedEnvelope) =
           DayState(applyAction(a, soc), t, Append(acts, a))
    /\ Charge(applyAction(a, soc)) /\ Modest(a)

(* One hour of the fallback adds one modest action, whose effect on the     *)
(* battery is the charge the adapter went on computing with, within the     *)
(* envelope.                                                                *)
LEMMA FallbackHour ==
    ASSUME NEW h \in 1 .. Len(Ticks), NEW soc \in Int, Charge(soc), NEW cycled \in Int,
           NEW acts \in Seq(DispatchActions)
    PROVE  \E a \in DispatchActions, t \in Int :
              HourAdds(h, DayState(soc, cycled, acts), soc, acts, a, t)
  <1>0. PICK st : st = DayState(soc, cycled, acts)
    BY Zenon
  <1>1. /\ Asset.ratedPower \in Nat \ {0} /\ Asset.ratedEnergy \in Nat \ {0}
        /\ Asset.reliability \in 0 .. 100 /\ Ticks \in Seq([dam : Int, fcr : Int])
    BY ScenarioAssumption
  <1>2. PICK power \in Nat, energy \in Nat, reliable \in Nat, price \in Int :
           /\ power = Asset.ratedPower /\ energy = Asset.ratedEnergy
           /\ reliable = Asset.reliability /\ price = Ticks[h].dam
    <2>1. Ticks[h].dam \in Int
      BY TickPrice
    <2>2. Asset.reliability \in Nat
      BY <1>1, Percentage
    <2>3. QED
      BY <1>1, <2>1, <2>2, Zenon
  <1>3. PICK low \in Int, high \in Int, most \in Int :
           /\ low = floor /\ high = ceiling
           /\ most = generateGovernedEnvelope.maxCycled
    <2>1. /\ floor = energy \div 10 /\ ceiling = (energy * 95) \div 100
          /\ generateGovernedEnvelope.maxCycled = (energy * 3) \div 2
      BY <1>2, Zenon DEF floor, ceiling, generateGovernedEnvelope
    <2>2. energy \div 10 \in Int /\ (energy * 95) \div 100 \in Int /\ (energy * 3) \div 2 \in Int
      OBVIOUS
    <2>3. QED
      BY <2>1, <2>2, Zenon
  <1>4. PICK bid \in Int, up1 \in Int, down1 \in Int, left \in Int :
           /\ bid = (power * reliable) \div 100
           /\ up1 = high - soc /\ down1 = soc - low /\ left = most - cycled
    <2>1. (power * reliable) \div 100 \in Int
      OBVIOUS
    <2>2. QED
      BY <2>1, <1>3
  <1>5. PICK room \in Int, store \in Int :
           /\ room = Lowest({power, up1, left}) /\ room <= up1 /\ room <= power
           /\ store = Lowest({power, down1, left}) /\ store <= down1 /\ store <= power
    <2>1. power \in Int
      OBVIOUS
    <2>2. /\ Lowest({power, up1, left}) \in {power, up1, left}
          /\ Lowest({power, up1, left}) <= up1 /\ Lowest({power, up1, left}) <= power
      BY <2>1, LowestOf, Zenon
    <2>3. /\ Lowest({power, down1, left}) \in {power, down1, left}
          /\ Lowest({power, down1, left}) <= down1 /\ Lowest({power, down1, left}) <= power
      BY <2>1, LowestOf, Zenon
    <2>4. Lowest({power, up1, left}) \in Int /\ Lowest({power, down1, left}) \in Int
      BY <2>1, <2>2, <2>3
    <2>5. QED
      BY <2>2, <2>3, <2>4, Zenon
  <1> DEFINE act(type, volume, confidence) == DispatchAction(type, volume, price, confidence)
  <1>6. /\ act("fcr-bid", bid, 86) \in DispatchActions
        /\ act("charge", room, 92) \in DispatchActions
        /\ act("discharge", store, 90) \in DispatchActions
        /\ act("hold", 0, 95) \in DispatchActions
    BY DEF DispatchAction, DispatchActions
  <1>7. /\ applyAction(act("fcr-bid", bid, 86), soc) = soc
        /\ applyAction(act("charge", room, 92), soc) = soc + room
        /\ applyAction(act("discharge", store, 90), soc) = soc - store
        /\ applyAction(act("hold", 0, 95), soc) = soc
    BY DEF applyAction, DispatchAction
  <1>15. /\ Modest(act("fcr-bid", bid, 86)) /\ Modest(act("hold", 0, 95))
         /\ room > 0 => Modest(act("charge", room, 92))
         /\ store > 0 => Modest(act("discharge", store, 90))
    <2>1. /\ room > 0 => room \in 0 .. power
          /\ store > 0 => store \in 0 .. power
      BY <1>5
    <2>2. QED
      BY <1>2, <2>1 DEF Modest, DispatchAction
  <1>8. WithinAtDawn => soc \in low .. high
    BY <1>3, Zenon DEF Charge
  <1>9. \/ fallbackHour(st, h, generateGovernedEnvelope) =
              [st EXCEPT !.actions = Append(acts, act("fcr-bid", bid, 86))]
        \/ /\ room > 0
           /\ fallbackHour(st, h, generateGovernedEnvelope) =
                [soc |-> soc + room, cycled |-> cycled + room,
                 actions |-> Append(acts, act("charge", room, 92))]
        \/ /\ store > 0
           /\ fallbackHour(st, h, generateGovernedEnvelope) =
                [soc |-> soc - store, cycled |-> cycled + store,
                 actions |-> Append(acts, act("discharge", store, 90))]
        \/ fallbackHour(st, h, generateGovernedEnvelope) =
              [st EXCEPT !.actions = Append(acts, act("hold", 0, 95))]
    <2>1. st.soc = soc /\ st.cycled = cycled /\ st.actions = acts
      BY <1>0 DEF DayState
    <2>2. /\ room = Lowest({Asset.ratedPower, generateGovernedEnvelope.socCeiling - st.soc,
                            generateGovernedEnvelope.maxCycled - st.cycled})
          /\ store = Lowest({Asset.ratedPower, st.soc - generateGovernedEnvelope.socFloor,
                             generateGovernedEnvelope.maxCycled - st.cycled})
          /\ bid = (Asset.ratedPower * Asset.reliability) \div 100
      BY <2>1, <1>2, <1>3, <1>4, <1>5, Zenon DEF floor, ceiling
    <2>3. QED
      BY <2>1, <2>2, <1>2, ZenonT(60) DEF fallbackHour
  <1> HIDE DEF act
  <1>10. CASE fallbackHour(st, h, generateGovernedEnvelope) =
                [st EXCEPT !.actions = Append(acts, act("fcr-bid", bid, 86))]
    <2>1. fallbackHour(st, h, generateGovernedEnvelope) =
             DayState(soc, cycled, Append(acts, act("fcr-bid", bid, 86)))
      BY <1>0, <1>10 DEF DayState
    <2>2. PICK a \in DispatchActions : a = act("fcr-bid", bid, 86)
      BY <1>6, Zenon
    <2>3. /\ fallbackHour(st, h, generateGovernedEnvelope) =
                DayState(soc, cycled, Append(acts, a))
          /\ applyAction(a, soc) = soc /\ Modest(a)
      BY <1>7, <1>15, <2>1, <2>2, Zenon
    <2>4. HourAdds(h, st, soc, acts, a, cycled)
      BY <2>3, Zenon DEF HourAdds
    <2>5. QED
      BY <1>0, <2>4, Zenon
  <1>11. CASE fallbackHour(st, h, generateGovernedEnvelope) =
                [st EXCEPT !.actions = Append(acts, act("hold", 0, 95))]
    <2>1. fallbackHour(st, h, generateGovernedEnvelope) =
             DayState(soc, cycled, Append(acts, act("hold", 0, 95)))
      BY <1>0, <1>11 DEF DayState
    <2>2. PICK a \in DispatchActions : a = act("hold", 0, 95)
      BY <1>6, Zenon
    <2>3. /\ fallbackHour(st, h, generateGovernedEnvelope) =
                DayState(soc, cycled, Append(acts, a))
          /\ applyAction(a, soc) = soc /\ Modest(a)
      BY <1>7, <1>15, <2>1, <2>2, Zenon
    <2>4. HourAdds(h, st, soc, acts, a, cycled)
      BY <2>3, Zenon DEF HourAdds
    <2>5. QED
      BY <1>0, <2>4, Zenon
  <1>12. CASE room > 0 /\ fallbackHour(st, h, generateGovernedEnvelope) =
                [soc |-> soc + room, cycled |-> cycled + room,
                 actions |-> Append(acts, act("charge", room, 92))]
    <2>0. room > 0 /\ room <= up1 /\ up1 = high - soc
      BY <1>4, <1>5, <1>12, Zenon
    <2>1. /\ cycled + room \in Int /\ soc + room \in Int
          /\ soc \in low .. high => soc + room \in low .. high
      BY <2>0
    <2>2. Charge(soc + room)
      BY <1>3, <1>8, <2>1, Zenon DEF Charge
    <2>3. PICK a \in DispatchActions, t \in Int, next \in Int :
             a = act("charge", room, 92) /\ t = cycled + room /\ next = soc + room
      BY <2>1, <1>6, Zenon
    <2>4. fallbackHour(st, h, generateGovernedEnvelope) = DayState(next, t, Append(acts, a))
      BY <1>12, <2>3, Zenon DEF DayState
    <2>5. next = applyAction(a, soc) /\ Charge(next) /\ Modest(a)
      BY <1>7, <1>15, <2>0, <2>2, <2>3, Zenon
    <2>6. HourAdds(h, st, soc, acts, a, t)
      BY <2>4, <2>5, Zenon DEF HourAdds
    <2>7. QED
      BY <1>0, <2>6, Zenon
  <1>13. CASE store > 0 /\ fallbackHour(st, h, generateGovernedEnvelope) =
                [soc |-> soc - store, cycled |-> cycled + store,
                 actions |-> Append(acts, act("discharge", store, 90))]
    <2>0. store > 0 /\ store <= down1 /\ down1 = soc - low
      BY <1>4, <1>5, <1>13, Zenon
    <2>1. /\ cycled + store \in Int /\ soc - store \in Int
          /\ soc \in low .. high => soc - store \in low .. high
      BY <2>0
    <2>2. Charge(soc - store)
      BY <1>3, <1>8, <2>1, Zenon DEF Charge
    <2>3. PICK a \in DispatchActions, t \in Int, next \in Int :
             a = act("discharge", store, 90) /\ t = cycled + store /\ next = soc - store
      BY <2>1, <1>6, Zenon
    <2>4. fallbackHour(st, h, generateGovernedEnvelope) = DayState(next, t, Append(acts, a))
      BY <1>13, <2>3, Zenon DEF DayState
    <2>5. next = applyAction(a, soc) /\ Charge(next) /\ Modest(a)
      BY <1>7, <1>15, <2>0, <2>2, <2>3, Zenon
    <2>6. HourAdds(h, st, soc, acts, a, t)
      BY <2>4, <2>5, Zenon DEF HourAdds
    <2>7. QED
      BY <1>0, <2>6, Zenon
  <1>14. QED
    BY <1>0, <1>9, <1>10, <1>11, <1>12, <1>13, Zenon

DayAt(h, soc, cycled, acts) ==
    /\ soc \in Int /\ Charge(soc) /\ cycled \in Int
    /\ acts \in Seq(DispatchActions) /\ Len(acts) = h
    /\ fallbackDay[h] = DayState(soc, cycled, acts)

LEMMA FallbackWithin ==
    \A h \in 0 .. Len(Ticks) : \E soc, cycled, acts : DayAt(h, soc, cycled, acts)
  <1> DEFINE S == {h \in 0 .. Len(Ticks) : ~\E soc, cycled, acts : DayAt(h, soc, cycled, acts)}
  <1> SUFFICES ASSUME S # {} PROVE FALSE
    OBVIOUS
  <1>1. Len(Ticks) \in Nat
    BY ScenarioAssumption
  <1>2. PICK h \in S : h = 0 \/ (h - 1 \in Nat /\ h - 1 \notin S)
    <2>1. S \in SUBSET Nat
      BY <1>1
    <2> HIDE DEF S
    <2>2. QED
      BY <2>1, FirstHour
  <1>3. h \in 0 .. Len(Ticks) /\ ~\E soc, cycled, acts : DayAt(h, soc, cycled, acts)
    BY <1>2
  <1>4. CASE h = 0
    <2>1. fallbackDay[h] = [soc |-> Asset.soc, cycled |-> 0, actions |-> <<>>]
      BY <1>3, <1>4, FallbackHours
    <2>2. Asset.soc \in Int
      BY ScenarioAssumption
    <2>3. Charge(Asset.soc)
      BY <2>2, Zenon DEF Charge, WithinAtDawn
    <2>4. DayAt(h, Asset.soc, 0, <<>>)
      BY <1>4, <2>1, <2>2, <2>3 DEF DayAt, DayState
    <2>5. QED
      BY <1>3, <2>4
  <1>5. CASE h # 0
    <2>1. h - 1 \in 0 .. Len(Ticks) /\ h \in 1 .. Len(Ticks)
      BY <1>1, <1>3, <1>5
    <2>2. PICK soc, cycled, acts : DayAt(h - 1, soc, cycled, acts)
      BY <1>2, <1>5, <2>1
    <2>3. PICK st : st = fallbackDay[h - 1]
      BY Zenon
    <2>4. /\ soc \in Int /\ Charge(soc) /\ cycled \in Int /\ acts \in Seq(DispatchActions)
          /\ st = DayState(soc, cycled, acts)
      BY <2>2, <2>3, Zenon DEF DayAt
    <2>5. PICK a \in DispatchActions, t \in Int :
             /\ fallbackHour(st, h, generateGovernedEnvelope) =
                    DayState(applyAction(a, soc), t, Append(acts, a))
             /\ Charge(applyAction(a, soc))
      <3>1. PICK n \in 1 .. Len(Ticks) : n = h
        BY <2>1, Zenon
      <3>2. \E a \in DispatchActions, t \in Int :
              HourAdds(n, DayState(soc, cycled, acts), soc, acts, a, t)
        BY <2>4, FallbackHour, Zenon
      <3>3. QED
        BY <2>4, <3>1, <3>2, Zenon DEF HourAdds
    <2>6. fallbackDay[h] = fallbackHour(st, h, generateGovernedEnvelope)
      <3>1. fallbackDay[h] = fallbackHour(fallbackDay[h - 1], h, generateGovernedEnvelope)
        BY <1>3, <1>5, FallbackHours
      <3>2. QED
        BY <2>3, <3>1, Zenon
    <2>7. Append(acts, a) \in Seq(DispatchActions) /\ Len(Append(acts, a)) = h
      <3>1. Len(acts) = h - 1
        BY <2>2, Zenon DEF DayAt
      <3>2. PICK A : A = DispatchActions
        BY Zenon
      <3>3. acts \in Seq(A) /\ a \in A
        BY <2>4, <3>2, Zenon
      <3>4. Append(acts, a) \in Seq(A) /\ Len(Append(acts, a)) = h
        BY <1>3, <3>1, <3>3
      <3>5. QED
        BY <3>2, <3>4, Zenon
    <2>8. DayAt(h, applyAction(a, soc), t, Append(acts, a))
      BY <2>5, <2>6, <2>7, Zenon DEF DayAt, Charge
    <2>9. QED
      BY <1>3, <2>8, Zenon
  <1>6. QED
    BY <1>4, <1>5

(* The charge of the day at hour h follows from hour h - 1 by the action of *)
(* that hour.                                                               *)
LEMMA DayMoves ==
    ASSUME NEW h \in 1 .. Len(Ticks)
    PROVE  \E a \in DispatchActions :
              /\ fallbackDay[h].actions = Append(fallbackDay[h - 1].actions, a)
              /\ fallbackDay[h].soc = applyAction(a, fallbackDay[h - 1].soc)
              /\ Modest(a)
  <1>1. h - 1 \in 0 .. Len(Ticks) /\ h \in 0 .. Len(Ticks) /\ h # 0
    BY ScenarioAssumption
  <1>2. PICK soc, cycled, acts : DayAt(h - 1, soc, cycled, acts)
    BY <1>1, FallbackWithin, Zenon
  <1>3. PICK st : st = fallbackDay[h - 1]
    BY Zenon
  <1>4. /\ soc \in Int /\ Charge(soc) /\ cycled \in Int /\ acts \in Seq(DispatchActions)
        /\ st = DayState(soc, cycled, acts)
    BY <1>2, <1>3, Zenon DEF DayAt
  <1>5. PICK a \in DispatchActions, t \in Int :
             /\ fallbackHour(st, h, generateGovernedEnvelope) =
                    DayState(applyAction(a, soc), t, Append(acts, a))
             /\ Charge(applyAction(a, soc)) /\ Modest(a)
    <2>1. \E a \in DispatchActions, t \in Int :
              HourAdds(h, DayState(soc, cycled, acts), soc, acts, a, t)
      BY <1>4, FallbackHour, Zenon
    <2>2. QED
      BY <1>4, <2>1, Zenon DEF HourAdds
  <1>6. fallbackDay[h] = fallbackHour(st, h, generateGovernedEnvelope)
    <2>1. fallbackDay[h] = fallbackHour(fallbackDay[h - 1], h, generateGovernedEnvelope)
      BY <1>1, FallbackHours
    <2>2. QED
      BY <1>3, <2>1, Zenon
  <1>7. PICK next, more : next = applyAction(a, soc) /\ more = Append(acts, a)
    BY Zenon
  <1>8. fallbackDay[h] = DayState(next, t, more)
    BY <1>5, <1>6, <1>7, Zenon
  <1>9. fallbackDay[h].soc = next /\ fallbackDay[h].actions = more
    BY <1>8 DEF DayState
  <1>10. fallbackDay[h - 1].soc = soc /\ fallbackDay[h - 1].actions = acts
    <2>1. st.soc = soc /\ st.actions = acts
      BY <1>4 DEF DayState
    <2>2. QED
      BY <1>3, <2>1, Zenon
  <1>11. QED
    BY <1>5, <1>7, <1>9, <1>10, Zenon

(* An action of the proposal is the one its hour added.                     *)
LEMMA HoursStay ==
    ASSUME NEW j \in 1 .. Len(Ticks)
    PROVE  \A h \in j .. Len(Ticks) : fallbackDay[h].actions[j] = fallbackDay[j].actions[j]
  <1> DEFINE S == {h \in j .. Len(Ticks) :
                     fallbackDay[h].actions[j] # fallbackDay[j].actions[j]}
  <1> SUFFICES ASSUME S # {} PROVE FALSE
    OBVIOUS
  <1>1. Len(Ticks) \in Nat
    BY ScenarioAssumption
  <1>2. PICK h \in S : h = 0 \/ (h - 1 \in Nat /\ h - 1 \notin S)
    <2>1. S \in SUBSET Nat
      BY <1>1
    <2> HIDE DEF S
    <2>2. QED
      BY <2>1, FirstHour
  <1>3. /\ h \in j .. Len(Ticks) /\ h # j
        /\ fallbackDay[h].actions[j] # fallbackDay[j].actions[j]
    BY <1>2
  <1>4. /\ h - 1 \in j .. Len(Ticks) /\ h \in 1 .. Len(Ticks) /\ h - 1 \in 0 .. Len(Ticks)
        /\ j \in 1 .. h - 1 /\ h # 0
    BY <1>1, <1>3
  <1>5. fallbackDay[h - 1].actions[j] = fallbackDay[j].actions[j]
    BY <1>2, <1>4
  <1>6. PICK soc, cycled, acts : DayAt(h - 1, soc, cycled, acts)
    BY <1>4, FallbackWithin, Zenon
  <1>7. PICK a \in DispatchActions :
              fallbackDay[h].actions = Append(fallbackDay[h - 1].actions, a)
    BY <1>4, DayMoves, Zenon
  <1>8. PICK st : st = fallbackDay[h - 1]
    BY Zenon
  <1>9. /\ acts \in Seq(DispatchActions) /\ Len(acts) = h - 1
        /\ st = DayState(soc, cycled, acts)
    BY <1>6, <1>8, Zenon DEF DayAt
  <1>10. st.actions = acts
    BY <1>9 DEF DayState
  <1>11. PICK A : A = DispatchActions
    BY Zenon
  <1>12. acts \in Seq(A) /\ a \in A
    BY <1>9, <1>11, Zenon
  <1>13. Append(acts, a)[j] = acts[j]
    BY <1>4, <1>9, <1>12
  <1>14. QED
    BY <1>3, <1>5, <1>7, <1>8, <1>10, <1>13, Zenon

(* What deterministicFallback proposes, applied hour by hour, is the day    *)
(* the adapter computed.                                                    *)
LEMMA ProposalFollowsDay ==
    /\ deterministicFallback \in Seq(DispatchActions)
    /\ Len(deterministicFallback) = Len(Ticks)
    /\ \A h \in 0 .. Len(Ticks) :
          /\ fallbackDay[h].soc \in Int
          /\ WithinAtDawn => fallbackDay[h].soc \in floor .. ceiling
    /\ fallbackDay[0].soc = Asset.soc
    /\ \A j \in 1 .. Len(Ticks) :
          /\ fallbackDay[j].soc = applyAction(deterministicFallback[j], fallbackDay[j - 1].soc)
          /\ Modest(deterministicFallback[j])
  <1>1. Len(Ticks) \in Nat /\ 0 \in 0 .. Len(Ticks) /\ Len(Ticks) \in 0 .. Len(Ticks)
    BY ScenarioAssumption
  <1>2. ASSUME NEW h \in 0 .. Len(Ticks)
        PROVE  /\ fallbackDay[h].soc \in Int
               /\ WithinAtDawn => fallbackDay[h].soc \in floor .. ceiling
               /\ fallbackDay[h].actions \in Seq(DispatchActions)
               /\ Len(fallbackDay[h].actions) = h
    <2>1. PICK soc, cycled, acts : DayAt(h, soc, cycled, acts)
      BY FallbackWithin, Zenon
    <2>2. fallbackDay[h] = DayState(soc, cycled, acts)
      BY <2>1, Zenon DEF DayAt
    <2>3. fallbackDay[h].soc = soc /\ fallbackDay[h].actions = acts
      BY <2>2 DEF DayState
    <2>4. QED
      BY <2>1, <2>3, Zenon DEF DayAt, Charge
  <1>3. fallbackDay[0].soc = Asset.soc
    <2>1. fallbackDay[0] = [soc |-> Asset.soc, cycled |-> 0, actions |-> <<>>]
      BY <1>1, FallbackHours, Zenon
    <2>2. QED
      BY <2>1
  <1>4. ASSUME NEW j \in 1 .. Len(Ticks)
        PROVE  /\ fallbackDay[j].soc = applyAction(deterministicFallback[j],
                                                   fallbackDay[j - 1].soc)
               /\ Modest(deterministicFallback[j])
    <2>1. PICK a \in DispatchActions :
              /\ fallbackDay[j].actions = Append(fallbackDay[j - 1].actions, a)
              /\ fallbackDay[j].soc = applyAction(a, fallbackDay[j - 1].soc)
              /\ Modest(a)
      BY DayMoves, Zenon
    <2>2. j - 1 \in 0 .. Len(Ticks) /\ Len(Ticks) \in j .. Len(Ticks)
      BY <1>1
    <2>3. PICK acts : acts = fallbackDay[j - 1].actions
      BY Zenon
    <2>4. PICK A : A = DispatchActions
      BY Zenon
    <2>5. acts \in Seq(A) /\ Len(acts) = j - 1 /\ a \in A
      BY <1>2, <2>2, <2>3, <2>4, Zenon
    <2>6. Append(acts, a)[j] = a
      BY <2>5
    <2>7. deterministicFallback[j] = fallbackDay[j].actions[j]
      BY <2>2, HoursStay, Zenon DEF deterministicFallback
    <2>8. QED
      BY <2>1, <2>3, <2>6, <2>7, Zenon
  <1>5. QED
    BY <1>1, <1>2, <1>3, <1>4, Zenon DEF deterministicFallback

----------------------------------------------------------------------------
(* What a step does to a session, x before it and y after it.               *)

Keeps(x, y) == y.actions = x.actions /\ y.fallback = x.fallback /\ y.baseline = x.baseline
SameResults(x, y) ==
    y.soc = x.soc /\ y.verdicts = x.verdicts /\ y.advisories = x.advisories

Stays(x, y) ==
    Keeps(x, y) /\ SameResults(x, y) /\ y.i = x.i /\ (y.pc = x.pc \/ y.pc = "failed")

Starts(x, y) ==
    /\ x.pc = "new" /\ y.pc = "proposing" /\ y.i = x.i /\ SameResults(x, y)
    /\ y.actions = x.actions /\ y.fallback = x.fallback
    /\ y.baseline = runBaselinePolicy[Len(Ticks)]

Proposes(x, y) ==
    /\ x.pc = "proposing" /\ y.i = x.i /\ SameResults(x, y) /\ y.baseline = x.baseline
    /\ \E fallback \in BOOLEAN, proposal \in ModelActions :
          /\ y.fallback = fallback
          /\ y.actions = IF fallback THEN deterministicFallback ELSE proposal
          /\ y.pc = IF y.actions = <<>> THEN "done" ELSE "looping"

Evaluates(s, x, y) ==
    /\ x.pc = "looping" /\ y.pc = "looping" /\ y.i = x.i /\ Keeps(x, y)
    /\ Len(x.verdicts) = x.i - 1
    /\ \E v, action, tier, w, t :
          /\ action = x.actions[x.i]
          /\ v = evaluate(dispatchContext(s, action), Policy(tier), w, t)
          /\ y.verdicts = Append(x.verdicts, v)
          /\ y.advisories = Append(x.advisories, analyzeExposure(dispatchContext(s, action)))
          /\ y.soc = IF v = "allow" THEN applyAction(action, x.soc) ELSE x.soc

Appends(x, y) ==
    /\ x.pc = "looping" /\ y.i = x.i + 1 /\ Keeps(x, y) /\ SameResults(x, y)
    /\ y.pc = IF x.i = Len(x.actions) THEN "done" ELSE "looping"

Moves(s, x, y) ==
    Stays(x, y) \/ Starts(x, y) \/ Proposes(x, y) \/ Evaluates(s, x, y) \/ Appends(x, y)

LEMMA SessionFrame ==
    ASSUME NEW s \in Sessions, ses'[s] = ses[s]
    PROVE  Moves(s, ses[s], ses'[s])
  BY Zenon DEF Moves, Stays, Keeps, SameResults

LEMMA DecideMoves ==
    ASSUME Inv, NEW s \in Sessions, NEW p \in Replicas, NEW domain, Decide(s, p, domain),
           NEW u \in Sessions
    PROVE  Moves(u, ses[u], ses'[u])
  <1>1. DOMAIN ses = Sessions /\ DOMAIN ses[s] = SessionFields
    BY DEF Inv, Loops, SessionShape
  <1>2. PICK base : base = runBaselinePolicy[Len(Ticks)]
    BY Zenon
  <1>3. /\ ses[s].pc = "new"
        /\ ses' = [ses EXCEPT ![s].pc = "proposing", ![s].at = p, ![s].domain = domain,
                              ![s].baseline = base]
    BY <1>2, Zenon DEF Decide
  <1>4. CASE u = s
    <2>1. /\ ses'[s].pc = "proposing" /\ ses'[s].i = ses[s].i
          /\ ses'[s].soc = ses[s].soc /\ ses'[s].verdicts = ses[s].verdicts
          /\ ses'[s].advisories = ses[s].advisories /\ ses'[s].actions = ses[s].actions
          /\ ses'[s].fallback = ses[s].fallback /\ ses'[s].baseline = base
      BY <1>1, <1>3 DEF SessionFields
    <2>2. QED
      BY <1>2, <1>3, <1>4, <2>1, Zenon DEF Moves, Starts, SameResults
  <1>5. CASE u # s
    <2>1. ses'[u] = ses[u]
      BY <1>1, <1>3, <1>5
    <2>2. QED
      BY <2>1, SessionFrame
  <1>6. QED
    BY <1>4, <1>5

LEMMA ProposeMoves ==
    ASSUME Inv, NEW s \in Sessions, NEW p \in Replicas, NEW fallback \in BOOLEAN,
           NEW proposal \in ModelActions, Propose(s, p, fallback, proposal),
           NEW u \in Sessions
    PROVE  Moves(u, ses[u], ses'[u])
  <1>1. DOMAIN ses = Sessions /\ DOMAIN ses[s] = SessionFields
    BY DEF Inv, Loops, SessionShape
  <1>2. PICK actions : actions = IF fallback THEN deterministicFallback ELSE proposal
    BY Zenon
  <1>3. PICK pc : pc = IF actions = <<>> THEN "done" ELSE "looping"
    BY Zenon
  <1>4. /\ ses[s].pc = "proposing"
        /\ ses' = [ses EXCEPT ![s].actions = actions, ![s].fallback = fallback, ![s].pc = pc]
    BY <1>2, <1>3, Zenon DEF Propose
  <1>5. CASE u = s
    <2>1. /\ ses'[s].pc = pc /\ ses'[s].i = ses[s].i
          /\ ses'[s].soc = ses[s].soc /\ ses'[s].verdicts = ses[s].verdicts
          /\ ses'[s].advisories = ses[s].advisories /\ ses'[s].actions = actions
          /\ ses'[s].fallback = fallback /\ ses'[s].baseline = ses[s].baseline
      BY <1>1, <1>4 DEF SessionFields
    <2>2. Proposes(ses[s], ses'[s])
      BY <1>2, <1>3, <1>4, <2>1, Zenon DEF Proposes, SameResults
    <2>3. QED
      BY <1>5, <2>2, Zenon DEF Moves
  <1>6. CASE u # s
    <2>1. ses'[u] = ses[u]
      BY <1>1, <1>4, <1>6
    <2>2. QED
      BY <2>1, SessionFrame
  <1>7. QED
    BY <1>5, <1>6

LEMMA LoopEvaluateMoves ==
    ASSUME Inv, NEW p \in Replicas, LoopEvaluate(p), NEW u \in Sessions
    PROVE  Moves(u, ses[u], ses'[u])
  <1>1. PICK s \in Sessions :
              /\ s = busy[p].id /\ SessionOk(s) /\ ses[s].pc = "looping"
              /\ Len(ses[s].verdicts) = ses[s].i - 1
    BY LoopInProgress, Zenon DEF LoopEvaluate
  <1>2. DOMAIN ses = Sessions /\ DOMAIN ses[s] = SessionFields
    BY DEF Inv, Loops, SessionShape
  <1>3. PICK action, tier, w : action = ses[s].actions[ses[s].i] /\ tier = env.unknownTier
                               /\ w = window[p]
    BY Zenon
  <1>4. PICK v, a : /\ v = evaluate(dispatchContext(s, action), Policy(tier), w, now)
                    /\ a = analyzeExposure(dispatchContext(s, action))
    BY Zenon
  <1>5. PICK c : c = IF v = "allow" THEN applyAction(action, ses[s].soc) ELSE ses[s].soc
    BY Zenon
  <1>6. ses' = [ses EXCEPT ![s].verdicts = Append(@, v), ![s].advisories = Append(@, a),
                           ![s].soc = c]
    BY <1>1, <1>3, <1>4, <1>5, Zenon DEF LoopEvaluate
  <1>7. CASE u = s
    <2>1. /\ ses'[s].pc = "looping" /\ ses'[s].i = ses[s].i
          /\ ses'[s].actions = ses[s].actions /\ ses'[s].fallback = ses[s].fallback
          /\ ses'[s].baseline = ses[s].baseline /\ ses'[s].soc = c
          /\ ses'[s].verdicts = Append(ses[s].verdicts, v)
          /\ ses'[s].advisories = Append(ses[s].advisories, a)
      BY <1>1, <1>2, <1>6 DEF SessionFields
    <2>2. Evaluates(s, ses[s], ses'[s])
      <3>1. Keeps(ses[s], ses'[s])
        BY <2>1, Zenon DEF Keeps
      <3>2. PICK x, y : x = ses[s] /\ y = ses'[s]
        BY Zenon
      <3>3. /\ action = x.actions[x.i]
            /\ v = evaluate(dispatchContext(s, action), Policy(tier), w, now)
            /\ y.verdicts = Append(x.verdicts, v)
            /\ y.advisories = Append(x.advisories, analyzeExposure(dispatchContext(s, action)))
            /\ y.soc = IF v = "allow" THEN applyAction(action, x.soc) ELSE x.soc
        BY <1>3, <1>4, <1>5, <2>1, <3>2, Zenon
      <3>4. /\ x.pc = "looping" /\ y.pc = "looping" /\ y.i = x.i /\ Keeps(x, y)
            /\ Len(x.verdicts) = x.i - 1
        BY <1>1, <2>1, <3>1, <3>2, Zenon
      <3>5. Evaluates(s, x, y)
        BY <3>3, <3>4, Zenon DEF Evaluates
      <3>6. QED
        BY <3>2, <3>5, Zenon
    <2>3. QED
      BY <1>7, <2>2, Zenon DEF Moves
  <1>8. CASE u # s
    <2>1. ses'[u] = ses[u]
      BY <1>2, <1>6, <1>8
    <2>2. QED
      BY <2>1, SessionFrame
  <1>9. QED
    BY <1>7, <1>8

LEMMA LoopAppendMoves ==
    ASSUME Inv, NEW p \in Replicas, LoopAppend(p) \/ LoopAppendRaises(p),
           NEW u \in Sessions
    PROVE  Moves(u, ses[u], ses'[u])
  <1>1. PICK s \in Sessions : s = busy[p].id /\ ses[s].pc = "looping"
    BY LoopInProgress, Zenon DEF LoopAppend, LoopAppendRaises
  <1>2. DOMAIN ses = Sessions /\ DOMAIN ses[s] = SessionFields
    BY DEF Inv, Loops, SessionShape
  <1>3. PICK pc : pc = IF ses[s].i = Len(ses[s].actions) THEN "done" ELSE "looping"
    BY Zenon
  <1>4. \/ ses' = [ses EXCEPT ![s].i = @ + 1, ![s].pc = pc]
        \/ ses' = [ses EXCEPT ![s].pc = "failed"]
    <2>1. CASE LoopAppend(p)
      <3>1. ses' = [ses EXCEPT ![s].i = @ + 1,
                               ![s].pc = IF ses[s].i = Len(ses[s].actions) THEN "done" ELSE @]
        BY <1>1, <2>1, Zenon DEF LoopAppend
      <3>2. QED
        BY <1>1, <1>3, <3>1, Zenon
    <2>2. CASE LoopAppendRaises(p)
      BY <1>1, <2>2, Zenon DEF LoopAppendRaises
    <2>3. QED
      BY <2>1, <2>2
  <1>5. CASE u = s
    <2>1. /\ ses'[s].actions = ses[s].actions /\ ses'[s].fallback = ses[s].fallback
          /\ ses'[s].baseline = ses[s].baseline /\ ses'[s].soc = ses[s].soc
          /\ ses'[s].verdicts = ses[s].verdicts /\ ses'[s].advisories = ses[s].advisories
          /\ \/ ses'[s].i = ses[s].i + 1 /\ ses'[s].pc = pc
             \/ ses'[s].i = ses[s].i /\ ses'[s].pc = "failed"
      BY <1>2, <1>4 DEF SessionFields
    <2>2. Keeps(ses[s], ses'[s]) /\ SameResults(ses[s], ses'[s])
      BY <2>1, Zenon DEF Keeps, SameResults
    <2>3. QED
      BY <1>1, <1>3, <1>5, <2>1, <2>2, Zenon DEF Moves, Stays, Appends
  <1>6. CASE u # s
    <2>1. ses'[u] = ses[u]
      BY <1>2, <1>4, <1>6
    <2>2. QED
      BY <2>1, SessionFrame
  <1>7. QED
    BY <1>5, <1>6

LEMMA CrashMoves ==
    ASSUME Inv, NEW p \in Replicas, Crash(p), NEW u \in Sessions
    PROVE  Moves(u, ses[u], ses'[u])
  <1>1. DOMAIN ses[u] = SessionFields
    BY DEF Inv, Loops, SessionShape
  <1>2. ses'[u] = ses[u] \/ ses'[u] = [ses[u] EXCEPT !.pc = "failed"]
    BY DEF Crash
  <1>3. CASE ses'[u] = [ses[u] EXCEPT !.pc = "failed"]
    <2>1. /\ ses'[u].actions = ses[u].actions /\ ses'[u].fallback = ses[u].fallback
          /\ ses'[u].baseline = ses[u].baseline /\ ses'[u].soc = ses[u].soc
          /\ ses'[u].verdicts = ses[u].verdicts /\ ses'[u].advisories = ses[u].advisories
          /\ ses'[u].i = ses[u].i /\ ses'[u].pc = "failed"
      BY <1>1, <1>3 DEF SessionFields
    <2>2. QED
      BY <2>1, Zenon DEF Moves, Stays, Keeps, SameResults
  <1>4. QED
    BY <1>2, <1>3, SessionFrame

LEMMA NextMoves ==
    ASSUME Inv, [Next]_vars, NEW u \in Sessions
    PROVE  Moves(u, ses[u], ses'[u])
  <1>1. CASE UNCHANGED ses
    BY <1>1, SessionFrame
  <1>2. CASE UNCHANGED vars
    BY <1>1, <1>2 DEF vars
  <1>3. CASE Tick
    BY <1>1, <1>3 DEF Tick
  <1>4. ASSUME NEW p \in Replicas,
               \/ Boot(p) \/ Enforce(p) \/ HoldRaises(p)
               \/ CosignAppend(p) \/ CosignAppendRaises(p) \/ CosignMark(p)
               \/ QueryAppend(p) \/ recordWork(p) \/ QueryRaises(p)
        PROVE  UNCHANGED ses
    BY <1>4, Zenon DEF Boot, Enforce, HoldRaises, CosignAppend, CosignAppendRaises,
                       CosignMark, QueryAppend, recordWork, QueryRaises
  <1>5. ASSUME NEW p \in Replicas, NEW q \in Queries,
               \/ ExecuteEngine(q, p)
               \/ \E request \in UnifiedRequests : Query(q, p, request)
        PROVE  UNCHANGED ses
    BY <1>5, Zenon DEF ExecuteEngine, Query
  <1>6. ASSUME NEW p \in Replicas, NEW r \in Requests,
               \/ Context(r, p)
               \/ \E b \in BOOLEAN : Gateway(r, p, b) \/ Gate(r, p, b)
               \/ \E strategy \in Strategies, calls \in [1 .. 2 -> BOOLEAN],
                     answer \in {"empty", "short", "long"} :
                     ModelFabric(r, p, strategy, calls, answer)
               \/ GateRaises(r, p)
               \/ \E o \in Operators : CosignRead(o, p, r)
        PROVE  UNCHANGED ses
    BY <1>6, Zenon DEF Context, Gateway, Gate, ModelFabric, GateRaises, CosignRead
  <1>7. QED
    BY <1>1, <1>2, <1>3, <1>4, <1>5, <1>6, DecideMoves, ProposeMoves, LoopEvaluateMoves,
       LoopAppendMoves, CrashMoves, Zenon DEF Next

----------------------------------------------------------------------------
(* The invariant of the battery: the charge of a fallback session strays    *)
(* from the one the day had at the hour reached by at most the rated power  *)
(* for each action that was held, downwards for a charge and upwards for a  *)
(* discharge.                                                               *)

heldIn(x, type) ==
    {i \in DOMAIN x.verdicts : x.verdicts[i] # "allow" /\ x.actions[i].type = type}

Drift(planned, soc, charges, discharges) ==
    /\ soc \in Int
    /\ planned - charges * Asset.ratedPower <= soc
    /\ soc <= planned + discharges * Asset.ratedPower

Follows(x) ==
    /\ IsFiniteSet(heldIn(x, "charge")) /\ IsFiniteSet(heldIn(x, "discharge"))
    /\ Drift(fallbackDay[Len(x.verdicts)].soc, x.soc, Cardinality(heldIn(x, "charge")),
             Cardinality(heldIn(x, "discharge")))

Battery(x) ==
    /\ x.baseline \in 0 .. Asset.ratedEnergy
    /\ x.verdicts \in Seq(Verdict) /\ x.i \in Nat \ {0}
    /\ x.actions \in Seq(DispatchActions)
    /\ x.pc \in {"new", "proposing"} =>
          x.i = 1 /\ x.verdicts = <<>> /\ x.soc = Asset.soc
    /\ x.pc = "looping" => x.i <= Len(x.actions)
    /\ x.fallback => x.actions = deterministicFallback /\ x.pc \notin {"new", "proposing"}
    /\ x.fallback => Len(x.verdicts) <= Len(Ticks) /\ Follows(x)

(* A verdict more is at most one held action more.                          *)
LEMMA HeldAfter ==
    ASSUME NEW x, NEW y, NEW type, NEW verdicts \in Seq(Verdict), NEW v \in Verdict,
           NEW i \in Nat \ {0}, Len(verdicts) = i - 1,
           x.verdicts = verdicts, y.verdicts = Append(verdicts, v), y.actions = x.actions,
           IsFiniteSet(heldIn(x, type))
    PROVE  /\ IsFiniteSet(heldIn(y, type)) /\ Cardinality(heldIn(x, type)) \in Nat
           /\ Cardinality(heldIn(y, type)) =
                 Cardinality(heldIn(x, type))
                   + (IF v # "allow" /\ x.actions[i].type = type THEN 1 ELSE 0)
  <1>1. PICK H : H = heldIn(x, type)
    OBVIOUS
  <1>2. /\ DOMAIN verdicts = 1 .. i - 1 /\ DOMAIN Append(verdicts, v) = 1 .. i
        /\ \A j \in 1 .. i - 1 : Append(verdicts, v)[j] = verdicts[j]
        /\ Append(verdicts, v)[i] = v
    OBVIOUS
  <1>3. i \notin H /\ H = {j \in 1 .. i - 1 : verdicts[j] # "allow" /\ x.actions[j].type = type}
    BY <1>1, <1>2 DEF heldIn
  <1>4. heldIn(y, type) =
           {j \in 1 .. i : Append(verdicts, v)[j] # "allow" /\ x.actions[j].type = type}
    BY <1>2 DEF heldIn
  <1>5. heldIn(y, type) = IF v # "allow" /\ x.actions[i].type = type THEN H \cup {i} ELSE H
    BY <1>2, <1>3, <1>4
  <1>6. Cardinality(H) \in Nat
    BY <1>1, FS_CardinalityType
  <1>7. CASE v # "allow" /\ x.actions[i].type = type
    <2>1. IsFiniteSet(H \cup {i}) /\ Cardinality(H \cup {i}) = Cardinality(H) + 1
      BY <1>1, <1>3, FS_AddElement
    <2>2. QED
      BY <1>1, <1>5, <1>6, <1>7, <2>1
  <1>8. CASE ~(v # "allow" /\ x.actions[i].type = type)
    <2>1. heldIn(y, type) = H
      BY <1>5, <1>8
    <2>2. QED
      BY <1>1, <1>6, <1>8, <2>1
  <1>9. QED
    BY <1>7, <1>8

(* What an action of the day does, held or not, to the distance between the *)
(* charge that was planned and the one there is.                            *)
LEMMA DriftMoves ==
    ASSUME NEW planned \in Int, NEW soc \in Int, NEW charges \in Nat, NEW discharges \in Nat,
           Drift(planned, soc, charges, discharges),
           NEW action \in DispatchActions, Modest(action), NEW v,
           NEW more, more = charges + (IF v # "allow" /\ action.type = "charge" THEN 1 ELSE 0),
           NEW fewer, fewer = discharges
                                + (IF v # "allow" /\ action.type = "discharge" THEN 1 ELSE 0)
    PROVE  Drift(applyAction(action, planned),
                 IF v = "allow" THEN applyAction(action, soc) ELSE soc, more, fewer)
  <1>1. PICK power \in Nat, volume \in Int : power = Asset.ratedPower /\ volume = action.volume
    BY ScenarioAssumption DEF DispatchActions
  <1>2. PICK low \in Int, high \in Int : low = charges * power /\ high = discharges * power
    OBVIOUS
  <1>3. (charges + 1) * power = low + power /\ (discharges + 1) * power = high + power
    BY <1>2
  <1>4. planned - low <= soc /\ soc <= planned + high
    BY <1>1, <1>2 DEF Drift
  <1>5. CASE action.type = "charge"
    <2>1. 0 <= volume /\ volume <= power
      BY <1>1, <1>5 DEF Modest
    <2>2. /\ applyAction(action, planned) = planned + volume
          /\ applyAction(action, soc) = soc + volume
      BY <1>1, <1>5 DEF applyAction
    <2>3. CASE v = "allow"
      <3>1. more = charges /\ fewer = discharges
        BY <2>3
      <3>2. QED
        BY <1>1, <1>2, <1>4, <2>2, <2>3, <3>1 DEF Drift
    <2>4. CASE v # "allow"
      <3>1. more * power = low + power /\ fewer = discharges
        BY <1>3, <1>5, <2>4
      <3>2. /\ planned + volume - (low + power) <= soc
            /\ soc <= planned + volume + high
        BY <1>4, <2>1
      <3>3. QED
        BY <1>1, <1>2, <2>2, <2>4, <3>1, <3>2 DEF Drift
    <2>5. QED
      BY <2>3, <2>4
  <1>6. CASE action.type = "discharge"
    <2>1. 0 <= volume /\ volume <= power
      BY <1>1, <1>6 DEF Modest
    <2>2. /\ applyAction(action, planned) = planned - volume
          /\ applyAction(action, soc) = soc - volume
      BY <1>1, <1>6 DEF applyAction
    <2>3. CASE v = "allow"
      <3>1. more = charges /\ fewer = discharges
        BY <2>3
      <3>2. QED
        BY <1>1, <1>2, <1>4, <2>2, <2>3, <3>1 DEF Drift
    <2>4. CASE v # "allow"
      <3>1. more = charges /\ fewer * power = high + power
        BY <1>3, <1>6, <2>4
      <3>2. /\ planned - volume - low <= soc
            /\ soc <= planned - volume + (high + power)
        BY <1>4, <2>1
      <3>3. QED
        BY <1>1, <1>2, <2>2, <2>4, <3>1, <3>2 DEF Drift
    <2>5. QED
      BY <2>3, <2>4
  <1>7. CASE action.type \notin {"charge", "discharge"}
    <2>1. applyAction(action, planned) = planned /\ applyAction(action, soc) = soc
      BY <1>7 DEF applyAction
    <2>2. more = charges /\ fewer = discharges
      BY <1>7
    <2>3. QED
      BY <2>1, <2>2
  <1>8. QED
    BY <1>5, <1>6, <1>7

LEMMA BatteryMoves ==
    ASSUME NEW s, NEW x, NEW y, Battery(x), Moves(s, x, y)
    PROVE  Battery(y)
  <1>1. Len(Ticks) \in Nat
    BY ScenarioAssumption
  <1>2. CASE Stays(x, y)
    BY <1>2, Zenon DEF Stays, Keeps, SameResults, Battery, Follows, heldIn
  <1>3. CASE Starts(x, y)
    <2>1. y.baseline \in 0 .. Asset.ratedEnergy
      <3>1. Len(Ticks) \in 0 .. Len(Ticks)
        BY <1>1
      <3>2. QED
        BY <1>3, <3>1, BaselineWithin, Zenon DEF Starts
    <2>2. ~x.fallback /\ ~y.fallback
      BY <1>3, Zenon DEF Starts, Battery
    <2>3. QED
      BY <1>3, <2>1, <2>2, Zenon DEF Starts, SameResults, Battery
  <1>4. CASE Proposes(x, y)
    <2>1. PICK fallback \in BOOLEAN, proposal \in ModelActions :
             /\ y.fallback = fallback
             /\ y.actions = IF fallback THEN deterministicFallback ELSE proposal
             /\ y.pc = IF y.actions = <<>> THEN "done" ELSE "looping"
      BY <1>4, Zenon DEF Proposes
    <2>2. y.actions \in Seq(DispatchActions)
      BY <2>1, ProposalFollowsDay, ModelActionsAssumption, Zenon
    <2>3. /\ y.i = 1 /\ y.verdicts = <<>> /\ y.soc = Asset.soc
          /\ y.baseline \in 0 .. Asset.ratedEnergy
      BY <1>4, Zenon DEF Proposes, SameResults, Battery
    <2>4. y.pc = "looping" => y.i <= Len(y.actions)
      <3>1. PICK A, acts : A = DispatchActions /\ acts = y.actions
        BY Zenon
      <3>2. acts \in Seq(A)
        BY <2>2, <3>1, Zenon
      <3>3. acts # <<>> => 1 <= Len(acts)
        BY <3>2
      <3>4. y.pc = "looping" => acts # <<>>
        BY <2>1, <3>1
      <3>5. QED
        BY <2>3, <3>1, <3>3, <3>4, Zenon
    <2>5. y.fallback => y.actions = deterministicFallback /\ y.pc \notin {"new", "proposing"}
      BY <2>1
    <2>6. Len(y.verdicts) = 0 /\ Len(y.verdicts) <= Len(Ticks)
      BY <1>1, <2>3
    <2>7. Follows(y)
      <3>1. heldIn(y, "charge") = {} /\ heldIn(y, "discharge") = {}
        BY <2>3 DEF heldIn
      <3>2. IsFiniteSet({}) /\ Cardinality({}) = 0
        BY FS_EmptySet
      <3>3. fallbackDay[Len(y.verdicts)].soc = Asset.soc /\ Asset.soc \in Int
        <4>1. Asset.soc \in Int
          BY ScenarioAssumption
        <4>2. fallbackDay[0].soc = Asset.soc
          BY ProposalFollowsDay, Zenon
        <4>3. QED
          BY <2>6, <4>1, <4>2, Zenon
      <3>4. Drift(Asset.soc, Asset.soc, 0, 0)
        BY <3>3, ScenarioAssumption DEF Drift
      <3>5. QED
        BY <2>3, <3>1, <3>2, <3>3, <3>4, Zenon DEF Follows
    <2>8. y.verdicts \in Seq(Verdict) /\ y.i \in Nat \ {0} /\ y.pc \notin {"new", "proposing"}
      BY <2>1, <2>3
    <2>9. QED
      BY <2>2, <2>3, <2>4, <2>5, <2>6, <2>7, <2>8, Zenon DEF Battery
  <1>5. CASE Evaluates(s, x, y)
    <2>1. PICK v, action, tier, w, t :
          /\ action = x.actions[x.i]
          /\ v = evaluate(dispatchContext(s, action), Policy(tier), w, t)
          /\ y.verdicts = Append(x.verdicts, v)
          /\ y.soc = IF v = "allow" THEN applyAction(action, x.soc) ELSE x.soc
      BY <1>5, Zenon DEF Evaluates
    <2>2. v \in Verdict
      BY <2>1, VerdictOfGate, Zenon
    <2>3. /\ x.pc = "looping" /\ y.pc = "looping" /\ y.i = x.i /\ y.actions = x.actions
          /\ y.fallback = x.fallback /\ y.baseline = x.baseline
          /\ Len(x.verdicts) = x.i - 1
      BY <1>5, Zenon DEF Evaluates, Keeps
    <2>4. PICK verdicts \in Seq(Verdict), i \in Nat \ {0} : verdicts = x.verdicts /\ i = x.i
      BY Zenon DEF Battery
    <2>5. /\ Append(verdicts, v) \in Seq(Verdict) /\ Len(verdicts) = i - 1
          /\ Len(Append(verdicts, v)) = i
          /\ DOMAIN verdicts = 1 .. i - 1 /\ DOMAIN Append(verdicts, v) = 1 .. i
          /\ \A j \in 1 .. i - 1 : Append(verdicts, v)[j] = verdicts[j]
          /\ Append(verdicts, v)[i] = v
      <3>1. Len(verdicts) = i - 1
        BY <2>3, <2>4, Zenon
      <3>2. QED
        BY <2>2, <3>1
    <2>6. ASSUME y.fallback PROVE Len(y.verdicts) <= Len(Ticks) /\ Follows(y)
      <3>1. /\ x.actions = deterministicFallback /\ Follows(x) /\ i <= Len(x.actions)
        BY <2>3, <2>4, <2>6, Zenon DEF Battery
      <3>2. i \in 1 .. Len(Ticks) /\ i <= Len(Ticks) /\ i - 1 \in 0 .. Len(Ticks)
        <4>1. Len(deterministicFallback) = Len(Ticks)
          BY ProposalFollowsDay, Zenon
        <4>2. i <= Len(Ticks)
          BY <3>1, <4>1, Zenon
        <4>3. QED
          BY <1>1, <4>2
      <3>3. PICK planned \in Int : planned = fallbackDay[i - 1].soc
        BY <3>2, ProposalFollowsDay, Zenon
      <3>4. /\ action = deterministicFallback[i] /\ Modest(action)
            /\ fallbackDay[i].soc = applyAction(action, planned)
        BY <2>1, <2>4, <3>1, <3>2, <3>3, ProposalFollowsDay, Zenon
      <3>5. action \in DispatchActions
        <4>1. PICK A : A = DispatchActions
          BY Zenon
        <4>2. deterministicFallback \in Seq(A) /\ Len(deterministicFallback) = Len(Ticks)
          BY <4>1, ProposalFollowsDay, Zenon
        <4>3. deterministicFallback[i] \in A
          BY <3>2, <4>2
        <4>4. QED
          BY <3>4, <4>1, <4>3, Zenon
      <3>6. ASSUME NEW type, IsFiniteSet(heldIn(x, type))
            PROVE  /\ IsFiniteSet(heldIn(y, type)) /\ Cardinality(heldIn(x, type)) \in Nat
                   /\ Cardinality(heldIn(y, type)) =
                         Cardinality(heldIn(x, type))
                           + (IF v # "allow" /\ action.type = type THEN 1 ELSE 0)
        <4>1. /\ x.verdicts = verdicts /\ y.verdicts = Append(verdicts, v)
              /\ y.actions = x.actions /\ Len(verdicts) = i - 1 /\ x.actions[i] = action
          BY <2>1, <2>3, <2>4, <2>5, Zenon
        <4>2. QED
          BY <2>2, <3>6, <4>1, HeldAfter
      <3>7. IsFiniteSet(heldIn(x, "charge")) /\ IsFiniteSet(heldIn(x, "discharge"))
        BY <3>1, Zenon DEF Follows
      <3>8. PICK charges \in Nat, discharges \in Nat :
               /\ charges = Cardinality(heldIn(x, "charge"))
               /\ discharges = Cardinality(heldIn(x, "discharge"))
        BY <3>6, <3>7, Zenon
      <3>9. /\ Cardinality(heldIn(y, "charge")) =
                  charges + (IF v # "allow" /\ action.type = "charge" THEN 1 ELSE 0)
            /\ Cardinality(heldIn(y, "discharge")) =
                  discharges + (IF v # "allow" /\ action.type = "discharge" THEN 1 ELSE 0)
            /\ IsFiniteSet(heldIn(y, "charge")) /\ IsFiniteSet(heldIn(y, "discharge"))
        BY <3>6, <3>7, <3>8, Zenon
      <3>10. Len(x.verdicts) = i - 1 /\ Len(y.verdicts) = i
        BY <2>1, <2>4, <2>5, Zenon
      <3>11. x.soc \in Int /\ Drift(planned, x.soc, charges, discharges)
        BY <3>1, <3>3, <3>8, <3>10, Zenon DEF Follows, Drift
      <3>12. Drift(fallbackDay[i].soc, y.soc, Cardinality(heldIn(y, "charge")),
                   Cardinality(heldIn(y, "discharge")))
        <4>1. PICK more, fewer :
                 /\ more = Cardinality(heldIn(y, "charge"))
                 /\ fewer = Cardinality(heldIn(y, "discharge"))
          BY Zenon
        <4>2. PICK soc \in Int : soc = x.soc
          BY <3>11, Zenon
        <4>3. /\ more = charges + (IF v # "allow" /\ action.type = "charge" THEN 1 ELSE 0)
              /\ fewer = discharges + (IF v # "allow" /\ action.type = "discharge" THEN 1 ELSE 0)
          BY <3>9, <4>1, Zenon
        <4>4. Drift(planned, soc, charges, discharges) /\ Modest(action)
          BY <3>4, <3>11, <4>2, Zenon
        <4>5. Drift(applyAction(action, planned),
                    IF v = "allow" THEN applyAction(action, soc) ELSE soc, more, fewer)
          BY <3>5, <4>3, <4>4, DriftMoves
        <4>6. y.soc = IF v = "allow" THEN applyAction(action, soc) ELSE soc
          BY <2>1, <4>2, Zenon
        <4>7. QED
          BY <3>4, <4>1, <4>5, <4>6, Zenon
      <3>13. QED
        BY <3>2, <3>9, <3>10, <3>12, Zenon DEF Follows
    <2>7. y.verdicts \in Seq(Verdict)
      BY <2>1, <2>4, <2>5, Zenon
    <2>8. y.pc \notin {"new", "proposing"}
      BY <2>3
    <2>9. QED
      BY <2>3, <2>6, <2>7, <2>8, Zenon DEF Battery
  <1>6. CASE Appends(x, y)
    <2>1. /\ x.pc = "looping" /\ y.i = x.i + 1 /\ y.actions = x.actions
          /\ y.fallback = x.fallback /\ y.baseline = x.baseline
          /\ y.soc = x.soc /\ y.verdicts = x.verdicts
          /\ y.pc = IF x.i = Len(x.actions) THEN "done" ELSE "looping"
      BY <1>6, Zenon DEF Appends, Keeps, SameResults
    <2>2. PICK i \in Nat \ {0}, acts \in Seq(DispatchActions) : i = x.i /\ acts = x.actions
      BY Zenon DEF Battery
    <2>3. i <= Len(acts)
      BY <2>1, <2>2, Zenon DEF Battery
    <2>4. i + 1 \in Nat \ {0} /\ (i # Len(acts) => i + 1 <= Len(acts))
      BY <2>2, <2>3
    <2>5. /\ y.pc = "looping" => y.i <= Len(y.actions)
          /\ y.pc \notin {"new", "proposing"}
      BY <2>1, <2>2, <2>4
    <2>6. y.i \in Nat \ {0}
      BY <2>1, <2>2, <2>4, Zenon
    <2>7. QED
      BY <2>1, <2>5, <2>6, Zenon DEF Battery, Follows, heldIn
  <1>7. QED
    BY <1>2, <1>3, <1>4, <1>5, <1>6, Zenon DEF Moves

Batteries == \A s \in Sessions : Battery(ses[s])

LEMMA InitBatteries == Init => Batteries
  <1> SUFFICES ASSUME Init, NEW s \in Sessions PROVE Battery(ses[s])
    BY Zenon DEF Batteries
  <1>1. PICK x : x = ses[s]
    BY Zenon
  <1>2. /\ x.baseline = Asset.soc /\ x.i = 1 /\ x.verdicts = <<>> /\ x.soc = Asset.soc
        /\ x.actions = <<>> /\ x.fallback = FALSE /\ x.pc \in {"new", "done"}
    BY <1>1 DEF Init
  <1>3. x.baseline \in 0 .. Asset.ratedEnergy
    BY <1>2, ScenarioAssumption, Zenon
  <1>4. /\ x.verdicts \in Seq(Verdict) /\ x.i \in Nat \ {0}
        /\ x.actions \in Seq(DispatchActions) /\ x.pc # "looping"
    BY <1>2
  <1>5. QED
    BY <1>1, <1>2, <1>3, <1>4, Zenon DEF Battery

(* "AI proposes, physics disposes": a fallback proposal keeps the battery   *)
(* between the floor and the ceiling of the governed envelope as long as    *)
(* all of it is executed, and each action that was held lets it stray by an *)
(* hour at rated power and no further; the baseline keeps it within its     *)
(* rating. For every market day, rating and limit of the gate, if the day   *)
(* starts inside the envelope (the demonstration asset does; a caller may   *)
(* send another, which the adapter does not check).                         *)
THEOREM BatteryWithinEnvelope ==
    ASSUME Asset.soc \in generateGovernedEnvelope.socFloor
                         .. generateGovernedEnvelope.socCeiling
    PROVE  Spec => []ExecutedWithinEnvelope
  <1>1. WithinAtDawn
    BY DEF WithinAtDawn, floor, ceiling
  <1>2. ASSUME Inv, Batteries, [Next]_vars PROVE Batteries'
    <2>1. ASSUME NEW s \in Sessions PROVE Battery(ses'[s])
      BY <1>2, NextMoves, BatteryMoves, Zenon DEF Batteries
    <2>2. QED
      BY <2>1, Zenon DEF Batteries
  <1>3. ASSUME Batteries PROVE ExecutedWithinEnvelope
    <2> DEFINE astray(s, type) == Cardinality(heldActions(s, type)) * Asset.ratedPower
    <2> SUFFICES ASSUME NEW s \in Sessions
                 PROVE  /\ ses[s].baseline \in 0 .. Asset.ratedEnergy
                        /\ ses[s].fallback =>
                              ses[s].soc \in floor - astray(s, "charge")
                                             .. ceiling + astray(s, "discharge")
      BY Zenon DEF ExecutedWithinEnvelope, floor, ceiling
    <2>1. Battery(ses[s])
      BY <1>3 DEF Batteries
    <2>2. ASSUME ses[s].fallback
          PROVE  ses[s].soc \in floor - astray(s, "charge") .. ceiling + astray(s, "discharge")
      <3>1. PICK verdicts \in Seq(Verdict) : verdicts = ses[s].verdicts
        BY <2>1, Zenon DEF Battery
      <3>2. Len(verdicts) <= Len(Ticks) /\ Follows(ses[s])
        BY <2>1, <2>2, <3>1, Zenon DEF Battery
      <3>3. Len(verdicts) \in 0 .. Len(Ticks)
        BY <3>2, ScenarioAssumption
      <3>4. fallbackDay[Len(verdicts)].soc \in floor .. ceiling
        BY <1>1, <3>3, ProposalFollowsDay, Zenon
      <3>5. PICK charges \in Nat, discharges \in Nat :
               /\ charges = Cardinality(heldActions(s, "charge"))
               /\ discharges = Cardinality(heldActions(s, "discharge"))
               /\ Drift(fallbackDay[Len(verdicts)].soc, ses[s].soc, charges, discharges)
        <4>1. /\ heldActions(s, "charge") = heldIn(ses[s], "charge")
              /\ heldActions(s, "discharge") = heldIn(ses[s], "discharge")
          BY DEF heldActions, heldIn
        <4>2. /\ IsFiniteSet(heldActions(s, "charge"))
              /\ IsFiniteSet(heldActions(s, "discharge"))
              /\ Drift(fallbackDay[Len(verdicts)].soc, ses[s].soc,
                       Cardinality(heldActions(s, "charge")),
                       Cardinality(heldActions(s, "discharge")))
          <5>1. \A x : Follows(x) =>
                  /\ IsFiniteSet(heldIn(x, "charge")) /\ IsFiniteSet(heldIn(x, "discharge"))
                  /\ Drift(fallbackDay[Len(x.verdicts)].soc, x.soc,
                           Cardinality(heldIn(x, "charge")),
                           Cardinality(heldIn(x, "discharge")))
            BY Zenon DEF Follows
          <5>2. QED
            BY <5>1, <4>1, <3>1, <3>2, Zenon
        <4>3. /\ Cardinality(heldActions(s, "charge")) \in Nat
              /\ Cardinality(heldActions(s, "discharge")) \in Nat
          BY <4>2, FS_CardinalityType
        <4>4. QED
          BY <4>2, <4>3, Zenon
      <3>6. PICK planned \in floor .. ceiling, power \in Nat :
               planned = fallbackDay[Len(verdicts)].soc /\ power = Asset.ratedPower
        BY <3>4, ScenarioAssumption
      <3>7. PICK low \in Int, high \in Int : low = floor /\ high = ceiling
        BY EnvelopeTyped, Zenon
      <3>8. PICK below \in Int, above \in Int :
               below = astray(s, "charge") /\ above = astray(s, "discharge")
        BY <3>5, <3>6
      <3>9. planned \in low .. high /\ planned - below <= ses[s].soc /\ ses[s].soc <= planned + above
            /\ ses[s].soc \in Int
        BY <3>5, <3>6, <3>7, <3>8 DEF Drift
      <3>10. ses[s].soc \in low - below .. high + above
        BY <3>9
      <3>11. QED
        BY <3>7, <3>8, <3>10, Zenon
    <2>3. QED
      BY <2>1, <2>2, Zenon DEF Battery
  <1>4. QED
    BY <1>2, <1>3, InitBatteries, InvariantHolds, PTL DEF Spec

----------------------------------------------------------------------------
(* The gate against the exposure analysis.                                  *)

(* An outright allow is the verdict of every gate.                          *)
LEMMA AllowedByAll ==
    ASSUME NEW V \in SUBSET Verdict, V # {}, strictest(V) = "allow"
    PROVE  V = {"allow"}
  <1>1. "allow" \in V /\ \A u \in V : VERDICT_ORDER["allow"] >= VERDICT_ORDER[u]
    BY StrictestIsOne, Zenon
  <1>2. ASSUME NEW u \in V PROVE u = "allow"
    <2>1. u \in Verdict /\ VERDICT_ORDER["allow"] >= VERDICT_ORDER[u]
      BY <1>1
    <2>2. QED
      BY <2>1 DEF Verdict, VERDICT_ORDER
  <1>3. QED
    BY <1>1, <1>2, Zenon

LEMMA AllowedByGates ==
    ASSUME NEW ctx, NEW tier, NEW w, NEW t,
           evaluate(ctx, Policy(tier), w, t) = "allow"
    PROVE  /\ gateReversibility(ctx, Policy(tier)) = "allow"
           /\ gateImpact(ctx, Policy(tier)) = "allow"
           /\ gateConfidence(ctx, Policy(tier)) = "allow"
           /\ gateRateLimits(ctx, Policy(tier), w, t) = "allow"
  <1> DEFINE p == Policy(tier)
             F == {gateSovereignty(ctx, p), gateRiskTier(ctx, p),
                   gateReversibility(ctx, p), gateImpact(ctx, p),
                   gateConfidence(ctx, p), gateEvidence(ctx, p),
                   gatePolicyCompliance(ctx, p), gateRateLimits(ctx, p, w, t),
                   gateFallback(ctx, p)}
  <1>1. F \in SUBSET Verdict
    BY GateVerdicts, Zenon
  <1>2. /\ gateReversibility(ctx, p) \in F /\ gateImpact(ctx, p) \in F
        /\ gateConfidence(ctx, p) \in F /\ gateRateLimits(ctx, p, w, t) \in F
    OBVIOUS
  <1>3. evaluate(ctx, p, w, t) = strictest(F)
    BY DEF evaluate
  <1> HIDE DEF F
  <1>4. F = {"allow"}
    BY <1>1, <1>2, <1>3, AllowedByAll
  <1>5. QED
    BY <1>2, <1>4

Small(ctx) ==
    /\ ctx.reversible = TRUE /\ ctx.confidence \in Int /\ ctx.confidence >= 85
    /\ ctx.value \in Int
    /\ \/ ctx.unit = "EUR" /\ abs(ctx.value) < 1000
       \/ ctx.unit = "MW" /\ abs(ctx.value) < 10
       \/ ctx.unit = "MWh" /\ abs(ctx.value) < 5

(* What an action the gate allows may weigh: it is reversible, its model is *)
(* at least 85% confident, and its impact is below the co-sign threshold.   *)
LEMMA AllowedIsSmall ==
    ASSUME NEW s, NEW action \in DispatchActions, NEW tier, NEW w, NEW t,
           NEW ctx, ctx = dispatchContext(s, action),
           evaluate(ctx, Policy(tier), w, t) = "allow"
    PROVE  Small(ctx)
  <1>1. ctx = dispatchContext(s, action)
    OBVIOUS
  <1>2. PICK volume \in Int, price \in Int, confidence \in Int :
           /\ volume = action.volume /\ price = action.price
           /\ confidence = action.confidence
    BY DEF DispatchActions
  <1>3. PICK money \in Int : money = volume * price
    OBVIOUS
  <1>4. \/ ctx.unit = "EUR" /\ ctx.value = money
        \/ ctx.unit = "MW" /\ ctx.value = volume
        \/ ctx.unit = "MWh" /\ ctx.value = 0
    <2>1. ctx.unit = impactOfAction(action).unit /\ ctx.value = impactOfAction(action).value
      BY <1>1 DEF dispatchContext
    <2>2. \/ impactOfAction(action) = [unit |-> "EUR", value |-> money]
          \/ impactOfAction(action) = [unit |-> "MW", value |-> volume]
          \/ impactOfAction(action) = [unit |-> "MWh", value |-> 0]
      BY <1>2, <1>3, Zenon DEF impactOfAction
    <2>3. QED
      BY <2>1, <2>2
  <1>5. ctx.confidence = confidence /\ ctx.reversible \in BOOLEAN
    BY <1>1, <1>2 DEF dispatchContext
  <1>6. /\ gateReversibility(ctx, Policy(tier)) = "allow"
        /\ gateImpact(ctx, Policy(tier)) = "allow"
        /\ gateConfidence(ctx, Policy(tier)) = "allow"
    BY <1>1, AllowedByGates, Zenon
  <1>7. ctx.reversible = TRUE
    BY <1>5, <1>6 DEF gateReversibility, Policy
  <1>8. confidence >= 85
    BY <1>5, <1>6 DEF gateConfidence, Policy
  <1>9. PICK p : p = Policy(tier)
    BY Zenon
  <1>10. /\ p.block = [EUR |-> 100000, MWh |-> 40, MW |-> 100]
         /\ p.escalation = [EUR |-> 10000, MWh |-> 15, MW |-> 30]
         /\ p.cosign = [EUR |-> 1000, MWh |-> 5, MW |-> 10]
    BY <1>9 DEF Policy
  <1>11. PICK unit \in {"EUR", "MW", "MWh"}, value \in Int :
            unit = ctx.unit /\ value = ctx.value
    BY <1>4
  <1>12. abs(value) \in Int
    BY DEF abs
  <1>13. abs(value) < p.cosign[unit]
    <2>1. PICK size \in Int : size = abs(value)
      BY <1>12
    <2>2. /\ unit \in DOMAIN p.cosign /\ unit \in DOMAIN p.escalation
          /\ unit \in DOMAIN p.block /\ p.cosign[unit] \in Int
          /\ p.cosign[unit] < p.escalation[unit] /\ p.escalation[unit] < p.block[unit]
          /\ p.escalation[unit] \in Int /\ p.block[unit] \in Int
      BY <1>10
    <2>3. ~(size >= p.cosign[unit])
      BY <1>6, <1>9, <1>11, <2>1, <2>2, Zenon DEF gateImpact
    <2>4. QED
      BY <2>1, <2>2, <2>3
  <1>14. \/ ctx.unit = "EUR" /\ abs(ctx.value) < 1000
         \/ ctx.unit = "MW" /\ abs(ctx.value) < 10
         \/ ctx.unit = "MWh" /\ abs(ctx.value) < 5
    <2>1. p.cosign["EUR"] = 1000 /\ p.cosign["MW"] = 10 /\ p.cosign["MWh"] = 5
      BY <1>10
    <2>2. unit = "EUR" \/ unit = "MW" \/ unit = "MWh"
      OBVIOUS
    <2>3. \/ unit = "EUR" /\ abs(value) < 1000
          \/ unit = "MW" /\ abs(value) < 10
          \/ unit = "MWh" /\ abs(value) < 5
      BY <1>13, <2>1, <2>2
    <2>4. QED
      BY <1>11, <2>3, Zenon
  <1>15. QED
    BY <1>5, <1>7, <1>8, <1>11, <1>14, Zenon DEF Small

(* The quality from which on no score of the asset alone is critical.       *)
SoundAsset ==
    /\ Asset.socIntegrity * 40 + Asset.voltage * 30 + Asset.reliability * 30 > 2500
    /\ Asset.reliability > 50

LEMMA NotCritical ==
    ASSUME NEW f \in Int, f < 7500
    PROVE  tierFromScore(f) # "critical"
  BY DEF tierFromScore

LEMMA ExposureOfAllowed ==
    ASSUME SoundAsset, NEW s, NEW action \in DispatchActions, NEW tier, NEW w, NEW t,
           evaluate(dispatchContext(s, action), Policy(tier), w, t) = "allow"
    PROVE  analyzeExposure(dispatchContext(s, action)) \in {"proceed", "proceed-with-controls"}
  <1>1. PICK ctx : ctx = dispatchContext(s, action)
    BY Zenon
  <1>2. PICK unit \in {"EUR", "MW", "MWh"}, value \in Int, confidence \in Int :
           /\ unit = ctx.unit /\ value = ctx.value /\ confidence = ctx.confidence
           /\ ctx.reversible = TRUE /\ confidence >= 85
           /\ \/ unit = "EUR" /\ abs(value) < 1000
              \/ unit = "MW" /\ abs(value) < 10
              \/ unit = "MWh" /\ abs(value) < 5
    <2>1. evaluate(ctx, Policy(tier), w, t) = "allow"
      BY <1>1, Zenon
    <2>2. Small(ctx)
      BY <1>1, <2>1, AllowedIsSmall, Zenon
    <2>3. QED
      BY <2>2 DEF Small
  <1>3. PICK size \in Nat : size = abs(value)
    BY DEF abs
  <1>4. /\ ctx.residency = "eu" /\ ctx.sourceCount = 3 /\ ctx.role = "operator"
        /\ ctx.asset = Asset
    BY <1>1 DEF dispatchContext
  <1>5. PICK soc \in 0 .. 100, volt \in 0 .. 100, reliable \in 0 .. 100 :
           /\ soc = Asset.socIntegrity /\ volt = Asset.voltage
           /\ reliable = Asset.reliability
    BY ScenarioAssumption, Zenon
  <1>6. PICK quality \in Int :
           quality = soc * 40 + volt * 30 + reliable * 30 /\ quality > 2500 /\ reliable > 50
    BY <1>5 DEF SoundAsset
  <1>7. PICK f1 \in Int : f1 = financialExposure(ctx) /\ f1 <= 260
    <2>1. (size * (IF unit = "EUR" THEN 1 ELSE 140)) \div 5 \in Int
          /\ (size * (IF unit = "EUR" THEN 1 ELSE 140)) \div 5 <= 260
      <3>1. CASE unit = "EUR" /\ size < 1000
        BY <3>1
      <3>2. CASE unit # "EUR" /\ size < 10
        BY <3>2
      <3>3. QED
        BY <1>2, <1>3, <3>1, <3>2
    <2>2. financialExposure(ctx) = (size * (IF unit = "EUR" THEN 1 ELSE 140)) \div 5
      BY <1>2, <1>3, <2>1 DEF financialExposure, Clamp
    <2>3. QED
      BY <2>1, <2>2
  <1>8. PICK f2 \in Int : f2 = regulatoryExposure(ctx) /\ f2 <= 5500
    BY DEF regulatoryExposure
  <1>9. PICK f3 \in Int : f3 = operationalExposure(ctx) /\ f3 < 7500
    BY <1>4, <1>5, <1>6 DEF operationalExposure
  <1>10. PICK f4 \in Int : f4 = reputationalExposure(ctx) /\ f4 <= 500
    <2>1. PICK magnitude \in Nat :
             magnitude = (IF unit = "EUR" THEN size ELSE 5000) /\ magnitude <= 5000
      BY <1>2, <1>3
    <2>2. magnitude \div 10 \in Int /\ magnitude \div 10 <= 500
      BY <2>1
    <2>3. reputationalExposure(ctx) = magnitude \div 10
      BY <1>2, <1>3, <2>1, <2>2 DEF reputationalExposure, Clamp
    <2>4. QED
      BY <2>2, <2>3
  <1>11. PICK f5 \in Int : f5 = counterpartyExposure(ctx) /\ f5 < 7500
    BY <1>4, <1>5, <1>6 DEF counterpartyExposure, Clamp
  <1>12. PICK f6 \in Int : f6 = cyberExposure(ctx) /\ f6 = 1500
    BY <1>4 DEF cyberExposure
  <1>13. PICK f7 \in Int : f7 = modelExposure(ctx) /\ f7 <= 2050
    BY <1>2 DEF modelExposure
  <1>14. PICK f8 \in Int : f8 = sovereigntyExposure(ctx) /\ f8 = 1000
    BY <1>4 DEF sovereigntyExposure
  <1>15. PICK F : /\ F = Findings(ctx) /\ DOMAIN F = 1 .. 8
                  /\ F[1] = f1 /\ F[2] = f2 /\ F[3] = f3 /\ F[4] = f4
                  /\ F[5] = f5 /\ F[6] = f6 /\ F[7] = f7 /\ F[8] = f8
    <2>1. /\ DOMAIN Findings(ctx) = 1 .. 8
          /\ Findings(ctx)[1] = financialExposure(ctx)
          /\ Findings(ctx)[2] = regulatoryExposure(ctx)
          /\ Findings(ctx)[3] = operationalExposure(ctx)
          /\ Findings(ctx)[4] = reputationalExposure(ctx)
          /\ Findings(ctx)[5] = counterpartyExposure(ctx)
          /\ Findings(ctx)[6] = cyberExposure(ctx)
          /\ Findings(ctx)[7] = modelExposure(ctx)
          /\ Findings(ctx)[8] = sovereigntyExposure(ctx)
      BY DEF Findings
    <2>2. QED
      BY <1>7, <1>8, <1>9, <1>10, <1>11, <1>12, <1>13, <1>14, <2>1
  <1>16. ~\E f \in Range(F) : tierFromScore(f) = "critical"
    <2>1. ASSUME NEW f \in Int, f < 7500 PROVE tierFromScore(f) # "critical"
      BY <2>1, NotCritical
    <2>2. ASSUME NEW k \in 1 .. 8 PROVE F[k] \in Int /\ F[k] < 7500
      BY <1>7, <1>8, <1>9, <1>10, <1>11, <1>12, <1>13, <1>14, <1>15
    <2>3. \A f \in Range(F) : f \in Int /\ f < 7500
      BY <1>15, <2>2 DEF Range
    <2>4. QED
      BY <2>1, <2>3
  <1>17. aggregate(F) \in Int /\ aggregate(F) < 6500
    <2>1. PICK sum \in Int : sum = f1 * 22 + f2 * 18 + f3 * 14 + f4 * 8 + f5 * 10 + f6 * 10
                                   + f7 * 10 + f8 * 8
      OBVIOUS
    <2>2. sum < 650000
      BY <2>1, <1>7, <1>8, <1>9, <1>10, <1>11, <1>12, <1>13, <1>14
    <2>3. aggregate(F) = sum \div 100
      BY <2>1, <1>15 DEF aggregate, WEIGHTS
    <2>4. QED
      BY <2>2, <2>3
  <1>18. analyzeExposure(ctx) \in {"proceed", "proceed-with-controls"}
    BY <1>15, <1>16, <1>17 DEF analyzeExposure, advisoryFromAggregate
  <1>19. QED
    BY <1>1, <1>18, Zenon

(* A session has one advisory for each verdict, and the two agree.          *)
Advised(x) ==
    /\ x.verdicts \in Seq(Verdict) /\ IsSeq(x.advisories)
    /\ Len(x.advisories) = Len(x.verdicts)
    /\ \A j \in 1 .. Len(x.verdicts) :
          x.verdicts[j] = "allow" => x.advisories[j] \in {"proceed", "proceed-with-controls"}
    /\ x.actions \in Seq(DispatchActions) /\ x.i \in Nat \ {0}
    /\ x.pc = "looping" => x.i <= Len(x.actions)
    /\ x.pc \in {"new", "proposing"} => x.i = 1

LEMMA AdvisedMoves ==
    ASSUME SoundAsset, NEW s, NEW x, NEW y, Advised(x), Moves(s, x, y)
    PROVE  Advised(y)
  <1>1. CASE Stays(x, y)
    BY <1>1, Zenon DEF Stays, Keeps, SameResults, Advised
  <1>2. CASE Starts(x, y)
    BY <1>2, Zenon DEF Starts, SameResults, Advised
  <1>3. CASE Proposes(x, y)
    <2>1. PICK fallback \in BOOLEAN, proposal \in ModelActions :
             /\ y.actions = IF fallback THEN deterministicFallback ELSE proposal
             /\ y.pc = IF y.actions = <<>> THEN "done" ELSE "looping"
      BY <1>3, Zenon DEF Proposes
    <2>2. y.actions \in Seq(DispatchActions)
      BY <2>1, ProposalFollowsDay, ModelActionsAssumption, Zenon
    <2>3. y.i = 1 /\ SameResults(x, y)
      BY <1>3, Zenon DEF Proposes, Advised
    <2>4. y.pc = "looping" => y.i <= Len(y.actions)
      <3>1. PICK acts \in Seq(DispatchActions) : acts = y.actions
        BY <2>2, Zenon
      <3>2. acts # <<>> => 1 <= Len(acts)
        OBVIOUS
      <3>3. y.pc = "looping" => acts # <<>>
        BY <2>1, <3>1
      <3>4. QED
        BY <2>3, <3>1, <3>2, <3>3, Zenon
    <2>5. y.pc \notin {"new", "proposing"} /\ y.i \in Nat \ {0}
      BY <2>1, <2>3
    <2>6. QED
      BY <2>2, <2>3, <2>4, <2>5, Zenon DEF Advised, SameResults
  <1>4. CASE Evaluates(s, x, y)
    <2>1. PICK v, action, tier, w, t :
          /\ action = x.actions[x.i]
          /\ v = evaluate(dispatchContext(s, action), Policy(tier), w, t)
          /\ y.verdicts = Append(x.verdicts, v)
          /\ y.advisories = Append(x.advisories, analyzeExposure(dispatchContext(s, action)))
      BY <1>4, Zenon DEF Evaluates
    <2>2. v \in Verdict
      BY <2>1, VerdictOfGate, Zenon
    <2>3. /\ x.pc = "looping" /\ y.pc = "looping" /\ y.i = x.i /\ y.actions = x.actions
      BY <1>4, Zenon DEF Evaluates, Keeps
    <2>4. PICK verdicts \in Seq(Verdict), i \in Nat \ {0}, acts \in Seq(DispatchActions) :
             verdicts = x.verdicts /\ i = x.i /\ acts = x.actions
      BY Zenon DEF Advised
    <2>5. action \in DispatchActions
      <3>1. i <= Len(acts)
        BY <2>3, <2>4, Zenon DEF Advised
      <3>2. acts[i] \in DispatchActions
        <4>1. PICK A : A = DispatchActions
          BY Zenon
        <4>2. acts \in Seq(A)
          BY <4>1, Zenon
        <4>3. acts[i] \in A
          BY <3>1, <4>2
        <4>4. QED
          BY <4>1, <4>3, Zenon
      <3>3. QED
        BY <2>1, <2>4, <3>2, Zenon
    <2>6. PICK a : a = analyzeExposure(dispatchContext(s, action))
      BY Zenon
    <2>7. v = "allow" => a \in {"proceed", "proceed-with-controls"}
      BY <2>1, <2>5, <2>6, ExposureOfAllowed, Zenon
    <2>8. /\ Append(verdicts, v) \in Seq(Verdict)
          /\ Len(Append(verdicts, v)) = Len(verdicts) + 1
          /\ \A j \in 1 .. Len(verdicts) : Append(verdicts, v)[j] = verdicts[j]
          /\ Append(verdicts, v)[Len(verdicts) + 1] = v
      BY <2>2
    <2>9. PICK notes : notes = x.advisories
      BY Zenon
    <2>10. IsSeq(notes) /\ Len(notes) = Len(verdicts)
      BY <2>4, <2>9, Zenon DEF Advised
    <2>11. /\ IsSeq(Append(notes, a)) /\ Len(Append(notes, a)) = Len(verdicts) + 1
           /\ \A j \in 1 .. Len(verdicts) : Append(notes, a)[j] = notes[j]
           /\ Append(notes, a)[Len(verdicts) + 1] = a
      BY <2>10, AppendedSeq
    <2>12. ASSUME NEW j \in 1 .. Len(verdicts) + 1, Append(verdicts, v)[j] = "allow"
           PROVE  Append(notes, a)[j] \in {"proceed", "proceed-with-controls"}
      <3>1. CASE j = Len(verdicts) + 1
        BY <2>7, <2>8, <2>11, <2>12, <3>1, Zenon
      <3>2. CASE j \in 1 .. Len(verdicts)
        <4>1. verdicts[j] = "allow"
          BY <2>8, <2>12, <3>2, Zenon
        <4>2. notes[j] \in {"proceed", "proceed-with-controls"}
          BY <2>4, <2>9, <3>2, <4>1, Zenon DEF Advised
        <4>3. QED
          BY <2>11, <3>2, <4>2, Zenon
      <3>3. j = Len(verdicts) + 1 \/ j \in 1 .. Len(verdicts)
        OBVIOUS
      <3>4. QED
        BY <3>1, <3>2, <3>3
    <2>13. y.verdicts = Append(verdicts, v) /\ y.advisories = Append(notes, a)
      BY <2>1, <2>4, <2>6, <2>9, Zenon
    <2>14. \A j \in 1 .. Len(y.verdicts) :
              y.verdicts[j] = "allow" => y.advisories[j] \in {"proceed", "proceed-with-controls"}
      BY <2>8, <2>12, <2>13, Zenon
    <2>15. y.pc \notin {"new", "proposing"}
      BY <2>3
    <2>16. QED
      BY <2>3, <2>8, <2>11, <2>13, <2>14, <2>15, Zenon DEF Advised
  <1>5. CASE Appends(x, y)
    <2>1. /\ x.pc = "looping" /\ y.i = x.i + 1 /\ y.actions = x.actions
          /\ y.verdicts = x.verdicts /\ y.advisories = x.advisories
          /\ y.pc = IF x.i = Len(x.actions) THEN "done" ELSE "looping"
      BY <1>5, Zenon DEF Appends, Keeps, SameResults
    <2>2. PICK i \in Nat \ {0}, acts \in Seq(DispatchActions) : i = x.i /\ acts = x.actions
      BY Zenon DEF Advised
    <2>3. i <= Len(acts)
      BY <2>1, <2>2, Zenon DEF Advised
    <2>4. i + 1 \in Nat \ {0} /\ (i # Len(acts) => i + 1 <= Len(acts))
      BY <2>2, <2>3
    <2>5. /\ y.pc = "looping" => y.i <= Len(y.actions)
          /\ y.pc \notin {"new", "proposing"}
      BY <2>1, <2>2, <2>4
    <2>6. y.i \in Nat \ {0}
      BY <2>1, <2>2, <2>4, Zenon
    <2>7. QED
      BY <2>1, <2>5, <2>6, Zenon DEF Advised
  <1>6. QED
    BY <1>1, <1>2, <1>3, <1>4, <1>5, Zenon DEF Moves

Advisories == \A s \in Sessions : Advised(ses[s])

LEMMA InitAdvisories == Init => Advisories
  <1> SUFFICES ASSUME Init, NEW s \in Sessions PROVE Advised(ses[s])
    BY Zenon DEF Advisories
  <1>1. PICK x : x = ses[s]
    BY Zenon
  <1>2. /\ x.i = 1 /\ x.verdicts = <<>> /\ x.advisories = <<>>
        /\ x.actions = <<>> /\ x.pc \in {"new", "done"}
    BY <1>1 DEF Init
  <1>3. /\ x.verdicts \in Seq(Verdict) /\ x.i \in Nat \ {0} /\ Len(x.verdicts) = 0
        /\ x.actions \in Seq(DispatchActions) /\ x.pc # "looping"
        /\ Len(x.advisories) = 0
    BY <1>2
  <1>4. IsSeq(x.advisories)
    <2>1. x.advisories \in Seq({})
      BY <1>2
    <2>2. QED
      BY <2>1, Zenon DEF IsSeq
  <1>5. \A j \in 1 .. Len(x.verdicts) : FALSE
    BY <1>3
  <1>6. QED
    BY <1>1, <1>2, <1>3, <1>4, <1>5, Zenon DEF Advised

(* The two risk opinions agree: an action the gate lets run on its own is   *)
(* one the exposure analysis advises to proceed with, whatever the model    *)
(* proposes and whatever the policy says of unknown domains, for an asset   *)
(* whose quality is above the critical scores.                              *)
THEOREM GateAgreesWithExposure ==
    ASSUME SoundAsset
    PROVE  Spec => []AllowedIsNotRejected
  <1>1. ASSUME Inv, Advisories, [Next]_vars PROVE Advisories'
    <2>1. ASSUME NEW s \in Sessions PROVE Advised(ses'[s])
      BY <1>1, NextMoves, AdvisedMoves, Zenon DEF Advisories
    <2>2. QED
      BY <2>1, Zenon DEF Advisories
  <1>2. ASSUME Advisories PROVE AllowedIsNotRejected
    <2>1. ASSUME NEW s \in Sessions PROVE DOMAIN ses[s].verdicts = 1 .. Len(ses[s].verdicts)
      <3>1. PICK verdicts \in Seq(Verdict) : verdicts = ses[s].verdicts
        BY <1>2, Zenon DEF Advisories, Advised
      <3>2. DOMAIN verdicts = 1 .. Len(verdicts)
        OBVIOUS
      <3>3. QED
        BY <3>1, <3>2, Zenon
    <2>2. QED
      BY <1>2, <2>1, Zenon DEF Advisories, Advised, AllowedIsNotRejected
  <1>3. QED
    BY <1>1, <1>2, InitAdvisories, InvariantHolds, PTL DEF Spec
----------------------------------------------------------------------------
(* The hourly limit.  A replica's window has exactly what it ran since it   *)
(* booted; what counts against an hour that holds the present counted       *)
(* against the limit when the gate looked.                                  *)

InHour(ts, t) == {i \in DOMAIN ts : ts[i] \in t .. t + Hour}

RateOk(ts, w) ==
    /\ ts \in Seq(Int) /\ DOMAIN w = DOMAIN ts /\ IsSeq(w)
    /\ \A i \in DOMAIN ts :
          ts[i] <= now /\ w[i] = [ts |-> ts[i], verdict |-> "allow"]
    /\ \A t \in 0 .. MaxTime : Cardinality(InHour(ts, t)) <= AutonomousPerHour

RateInv ==
    /\ ran \in [Replicas -> Seq(Int)] /\ DOMAIN window = Replicas
    /\ \A p \in Replicas : RateOk(ran[p], window[p])

LEMMA NothingRan == RateOk(<<>>, <<>>)
  <1>1. \A t \in 0 .. MaxTime : InHour(<<>>, t) = {}
    BY DEF InHour
  <1>2. IsSeq(<<>>)
    BY DEF IsSeq
  <1>3. QED
    BY <1>1, <1>2, FS_EmptySet, GateAssumption DEF RateOk

LEMMA AllowedByRate ==
    ASSUME NEW ctx, NEW tier, NEW w, NEW t,
           evaluate(ctx, Policy(tier), w, t) = "allow",
           ctx.taskClass = "operational", ctx.priorApproval = {}
    PROVE  ~(autonomousCount(w, t) >= AutonomousPerHour)
  <1> DEFINE p == Policy(tier)
  <1>1. gateRateLimits(ctx, p, w, t) = "allow"
    BY AllowedByGates
  <1>2. ~hasValidPriorApproval(ctx, t) /\ ctx.taskClass \notin RATE_LIMIT_EXEMPT_CLASSES
    BY DEF hasValidPriorApproval, RATE_LIMIT_EXEMPT_CLASSES
  <1>3. QED
    BY <1>1, <1>2 DEF gateRateLimits

\* One more action now, which the gate let through.
LEMMA RunsOneMore ==
    ASSUME NEW ts, NEW w, RateOk(ts, w), now \in 0 .. MaxTime,
           ~(autonomousCount(w, now) >= AutonomousPerHour)
    PROVE  RateOk(Append(ts, now), Append(w, [ts |-> now, verdict |-> "allow"]))
  <1> DEFINE n == Len(ts) + 1
             ts2 == Append(ts, now)
             w2 == Append(w, [ts |-> now, verdict |-> "allow"])
             counted == {i \in pruneOldDecisions(w, now) : w[i].verdict = "allow"}
  <1>1. /\ ts \in Seq(Int) /\ DOMAIN w = DOMAIN ts /\ IsSeq(w) /\ IsSeq(ts)
        /\ \A i \in DOMAIN ts :
              ts[i] <= now /\ w[i] = [ts |-> ts[i], verdict |-> "allow"]
    BY DEF RateOk, IsSeq
  <1>2. /\ Len(ts) \in Nat /\ DOMAIN ts = 1 .. Len(ts) /\ Len(w) \in Nat
        /\ DOMAIN w = 1 .. Len(w)
    BY <1>1, AppendedSeq
  <1>3. Len(w) = Len(ts)
    BY <1>1, <1>2
  <1>4. /\ ts2 \in Seq(Int) /\ DOMAIN ts2 = 1 .. n /\ ts2[n] = now
        /\ \A i \in 1 .. Len(ts) : ts2[i] = ts[i]
    BY <1>1
  <1>5. /\ IsSeq(w2) /\ DOMAIN w2 = 1 .. n /\ w2[n] = [ts |-> now, verdict |-> "allow"]
        /\ \A i \in 1 .. Len(ts) : w2[i] = w[i]
    BY <1>1, <1>3, AppendedSeq
  <1> HIDE DEF ts2, w2
  <1>6. \A i \in DOMAIN ts2 : ts2[i] <= now /\ w2[i] = [ts |-> ts2[i], verdict |-> "allow"]
    <2>1. ASSUME NEW i \in 1 .. n
          PROVE  ts2[i] <= now /\ w2[i] = [ts |-> ts2[i], verdict |-> "allow"]
      <3>1. CASE i = n
        BY <1>4, <1>5, <3>1
      <3>2. CASE i \in 1 .. Len(ts)
        BY <1>1, <1>2, <1>4, <1>5, <3>2
      <3>3. QED
        BY <1>2, <3>1, <3>2
    <2>2. QED
      BY <1>4, <2>1
  <1>7. IsFiniteSet(counted) /\ Cardinality(counted) < AutonomousPerHour
    <2>1. counted \in SUBSET (1 .. Len(ts))
      BY <1>1, <1>2 DEF pruneOldDecisions
    <2>2. IsFiniteSet(1 .. Len(ts))
      BY <1>2, FS_Interval
    <2>3. IsFiniteSet(counted) /\ Cardinality(counted) \in Nat
      BY <2>1, <2>2, FS_Subset, FS_CardinalityType
    <2>4. ~(Cardinality(counted) >= AutonomousPerHour)
      BY DEF autonomousCount, countOf
    <2>5. QED
      BY <2>3, <2>4, GateAssumption
  <1>8. ASSUME NEW t \in 0 .. MaxTime
        PROVE  Cardinality(InHour(ts2, t)) <= AutonomousPerHour
    <2>1. CASE now \notin t .. t + Hour
      <3>1. InHour(ts2, t) = InHour(ts, t)
        BY <1>2, <1>4, <2>1 DEF InHour
      <3>2. QED
        BY <3>1 DEF RateOk
    <2>2. CASE now \in t .. t + Hour
      <3>1. InHour(ts2, t) \subseteq counted \cup {n}
        <4>1. ASSUME NEW i \in InHour(ts2, t), i # n PROVE i \in counted
          <5>1. i \in 1 .. Len(ts) /\ ts[i] \in t .. t + Hour
            BY <1>2, <1>4, <4>1 DEF InHour
          <5>2. w[i].ts >= now - Hour /\ w[i].verdict = "allow"
            <6>1. i \in DOMAIN ts
              BY <1>2, <5>1
            <6>2. w[i] = [ts |-> ts[i], verdict |-> "allow"] /\ ts[i] \in Int
              BY <1>1, <6>1
            <6>3. now \in Int /\ ts[i] >= now - Hour
              BY <2>2, <5>1, <6>2, GateAssumption
            <6>4. QED
              BY <6>2, <6>3
          <5>3. QED
            BY <1>2, <1>3, <5>1, <5>2 DEF pruneOldDecisions
        <4>2. QED
          BY <4>1
      <3> HIDE DEF counted, n
      <3>2. /\ IsFiniteSet(counted \cup {n})
            /\ Cardinality(counted \cup {n}) <= Cardinality(counted) + 1
        <4>1. Cardinality(counted) \in Nat
          BY <1>7, FS_CardinalityType
        <4>2. /\ IsFiniteSet(counted \cup {n})
              /\ Cardinality(counted \cup {n}) = IF n \in counted THEN Cardinality(counted)
                                                ELSE Cardinality(counted) + 1
          BY <1>7, FS_AddElement
        <4>3. QED
          BY <4>1, <4>2
      <3>3. Cardinality(InHour(ts2, t)) <= Cardinality(counted \cup {n})
        BY <3>1, <3>2, FS_Subset
      <3>4. /\ Cardinality(counted) \in Nat /\ Cardinality(InHour(ts2, t)) \in Nat
            /\ Cardinality(counted \cup {n}) \in Nat
        BY <1>7, <3>1, <3>2, FS_Subset, FS_CardinalityType
      <3>5. QED
        BY <1>7, <3>2, <3>3, <3>4, GateAssumption
    <2>3. QED
      BY <2>1, <2>2
  <1>9. RateOk(ts2, w2)
    BY <1>4, <1>5, <1>6, <1>8 DEF RateOk
  <1>10. QED
    BY <1>9 DEF ts2, w2

LEMMA LoopEvaluateRates ==
    ASSUME Ambient, RateInv, NEW p \in Replicas, LoopEvaluate(p)
    PROVE  RateInv'
  <1>0. PICK action : action = ses[busy[p].id].actions[ses[busy[p].id].i]
    BY Zenon
  <1>1. PICK ctx, verdict :
           /\ ctx = dispatchContext(busy[p].id, action)
           /\ verdict = evaluate(ctx, Policy(env.unknownTier), window[p], now)
           /\ IF verdict = "allow"
              THEN /\ window' = [window EXCEPT
                                   ![p] = recordExecution(@, verdict, ctx.taskClass, now)]
                   /\ ran' = [ran EXCEPT ![p] = Append(@, now)]
              ELSE UNCHANGED <<window, ran>>
    <2>1. PICK ctx : ctx = dispatchContext(busy[p].id, action)
      BY Zenon
    <2>2. PICK verdict : verdict = evaluate(ctx, Policy(env.unknownTier), window[p], now)
      BY Zenon
    <2>3. QED
      BY <1>0, <2>1, <2>2, Zenon DEF LoopEvaluate
  <1>2. now' = now /\ now \in 0 .. MaxTime
    BY Zenon DEF LoopEvaluate, Ambient
  <1>3. CASE verdict # "allow"
    <2>1. window' = window /\ ran' = ran
      BY <1>1, <1>3
    <2>2. ASSUME NEW q \in Replicas PROVE RateOk(ran[q], window[q])'
      <3>1. RateOk(ran[q], window[q])
        BY DEF RateInv
      <3>2. ran'[q] = ran[q] /\ window'[q] = window[q]
        BY <2>1
      <3>3. QED
        BY <1>2, <3>1, <3>2 DEF RateOk
    <2>3. ran' \in [Replicas -> Seq(Int)] /\ DOMAIN window' = Replicas
      BY <2>1 DEF RateInv
    <2>4. QED
      BY <2>2, <2>3 DEF RateInv
  <1>4. CASE verdict = "allow"
    <2>1. ctx.taskClass = "operational" /\ ctx.priorApproval = {}
      BY <1>1 DEF dispatchContext
    <2>2. ~(autonomousCount(window[p], now) >= AutonomousPerHour)
      BY <1>1, <1>4, <2>1, AllowedByRate
    <2>3. recordExecution(window[p], verdict, ctx.taskClass, now)
             = Append(window[p], [ts |-> now, verdict |-> "allow"])
      BY <1>4, <2>1 DEF recordExecution
    <2>4. /\ window' = [window EXCEPT ![p] = Append(window[p], [ts |-> now, verdict |-> "allow"])]
          /\ ran' = [ran EXCEPT ![p] = Append(ran[p], now)]
      BY <1>1, <1>4, <2>3, Zenon
    <2>5. RateOk(Append(ran[p], now), Append(window[p], [ts |-> now, verdict |-> "allow"]))
      BY <1>2, <2>2, RunsOneMore DEF RateInv
    <2>6. ASSUME NEW q \in Replicas PROVE RateOk(ran'[q], window'[q])
      <3>1. CASE q = p
        BY <2>4, <2>5, <3>1 DEF RateInv
      <3>2. CASE q # p
        BY <2>4, <3>2 DEF RateInv
      <3>3. QED
        BY <3>1, <3>2
    <2>7. ran' \in [Replicas -> Seq(Int)] /\ DOMAIN window' = Replicas
      <3>1. Append(ran[p], now) \in Seq(Int)
        BY <1>2 DEF RateInv
      <3>2. QED
        BY <2>4, <3>1 DEF RateInv
    <2>8. QED
      BY <1>2, <2>6, <2>7 DEF RateInv, RateOk, IsSeq, InHour
  <1>5. QED
    BY <1>3, <1>4

LEMMA RatesStay ==
    ASSUME RateInv, UNCHANGED <<window, ran>>, now \in Int, now' \in Int, now' >= now
    PROVE  RateInv'
  <1>1. ASSUME NEW p \in Replicas
        PROVE  \A i \in DOMAIN ran[p] : ran[p][i] <= now'
    <2>1. ran[p] \in Seq(Int) /\ \A i \in DOMAIN ran[p] : ran[p][i] <= now
      BY DEF RateInv, RateOk
    <2>2. \A i \in DOMAIN ran[p] : ran[p][i] \in Int
      BY <2>1
    <2>3. QED
      BY <2>1, <2>2
  <1>2. QED
    BY <1>1 DEF RateInv, RateOk, IsSeq, InHour

LEMMA NextRates ==
    ASSUME Ambient, RateInv, [Next]_vars
    PROVE  RateInv'
  <1>1. now \in Int /\ now >= now
    BY DEF Ambient
  <1>2. CASE UNCHANGED <<now, window, ran>>
    BY <1>1, <1>2, RatesStay
  <1>3. CASE Tick
    BY <1>1, <1>3, RatesStay DEF Tick
  <1>4. ASSUME NEW p \in Replicas, Crash(p)
        PROVE  RateInv'
    <2>1. /\ window' = [window EXCEPT ![p] = <<>>] /\ ran' = [ran EXCEPT ![p] = <<>>]
          /\ now' = now
      BY <1>4, Zenon DEF Crash
    <2>2. \A q \in Replicas : RateOk(ran'[q], window'[q])
      BY <2>1, NothingRan DEF RateInv
    <2>3. QED
      BY <2>1, <2>2 DEF RateInv, RateOk, IsSeq, InHour
  <1>5. ASSUME NEW p \in Replicas,
               \/ Boot(p) \/ Enforce(p) \/ HoldRaises(p)
               \/ CosignAppend(p) \/ CosignAppendRaises(p) \/ CosignMark(p)
               \/ LoopAppend(p) \/ LoopAppendRaises(p)
               \/ QueryAppend(p) \/ recordWork(p) \/ QueryRaises(p)
        PROVE  UNCHANGED <<now, window, ran>>
    BY <1>5, Zenon DEF Boot, Enforce, HoldRaises, CosignAppend, CosignAppendRaises,
                CosignMark, LoopAppend, LoopAppendRaises, QueryAppend, recordWork, QueryRaises
  <1>6. ASSUME NEW p \in Replicas, NEW q \in Queries,
               \/ ExecuteEngine(q, p)
               \/ \E request \in UnifiedRequests : Query(q, p, request)
        PROVE  UNCHANGED <<now, window, ran>>
    BY <1>6, Zenon DEF ExecuteEngine, Query
  <1>7. ASSUME NEW p \in Replicas, NEW r \in Requests,
               \/ Context(r, p)
               \/ \E b \in BOOLEAN : Gateway(r, p, b) \/ Gate(r, p, b)
               \/ \E strategy \in Strategies, calls \in [1 .. 2 -> BOOLEAN],
                     answer \in {"empty", "short", "long"} :
                     ModelFabric(r, p, strategy, calls, answer)
               \/ GateRaises(r, p)
               \/ \E o \in Operators : CosignRead(o, p, r)
        PROVE  UNCHANGED <<now, window, ran>>
    BY <1>7, Zenon DEF Context, Gateway, Gate, ModelFabric, GateRaises, CosignRead
  <1>8. ASSUME NEW p \in Replicas, NEW s \in Sessions,
               \/ \E domain \in DecisionDomains : Decide(s, p, domain)
               \/ \E fallback \in BOOLEAN, proposal \in ModelActions :
                     Propose(s, p, fallback, proposal)
        PROVE  UNCHANGED <<now, window, ran>>
    BY <1>8, Zenon DEF Decide, Propose
  <1>9. CASE UNCHANGED vars
    BY <1>2, <1>9 DEF vars
  <1>10. QED
    BY <1>2, <1>3, <1>4, <1>5, <1>6, <1>7, <1>8, <1>9, LoopEvaluateRates, Zenon DEF Next

(* No replica executes more than the hourly number of autonomous actions in *)
(* any window of an hour since it booted, whatever sessions share it        *)
(* (mi9-gate.ts, the rate limits that evaluate() reads and                  *)
(* recordExecution() charges).                                              *)
THEOREM HourlyLimitHolds == Spec => []AutonomousWithinLimit
  <1>1. Init => RateInv
    <2> SUFFICES ASSUME Init PROVE RateInv
      OBVIOUS
    <2>1. window = [p \in Replicas |-> <<>>] /\ ran = [p \in Replicas |-> <<>>]
      BY DEF Init
    <2>2. QED
      BY <2>1, NothingRan DEF RateInv
  <1>2. RateInv => AutonomousWithinLimit
    BY DEF RateInv, RateOk, InHour, AutonomousWithinLimit
  <1>3. QED
    BY <1>1, <1>2, InitAmbient, NextAmbient, NextRates, PTL DEF Spec
============================================================================
