----------------------------- MODULE AuditMirror -----------------------------
(***************************************************************************)
(* The audit hash chain (audit/hash-chain.ts), its mirror in the relational*)
(* register (persistence/audit-mirror.ts over memory-manager.ts and        *)
(* supabase-adapter.ts) and the health report about both.                  *)
(*                                                                         *)
(* Runtime replicas share the chain's database.  append() reads the head   *)
(* in one statement and inserts in another; mirroring is started and never *)
(* awaited, so answers of the register arrive late, out of order or not at *)
(* all.  A hash is modelled by the payloads it commits to, as SHA-256 is   *)
(* taken to have no collisions.                                            *)
(***************************************************************************)
EXTENDS Naturals, Sequences, FiniteSets, SequencesExt

CONSTANTS
  Replicas,   \* processes over one audit.db
  Polled,     \* the replicas whose health is asked for
  Payloads,   \* decisions to be recorded
  MaxLinks,   \* bound on the length of the chain
  MaxProbes   \* bound on the probes of a process that are out at once

\* The families of decision_type, and the verdicts of the gate.
Tipuri == {"appeal.opened", "appeal.approved", "appeal.rejected", "appeal.expired",
           "governance.block", "runtime.query", "agent", "mission", "knowledge",
           "system.boot", "system.shutdown", "other"}
Verdicts == {"allow", "escalate", "deny", "block"}

ASSUME PayloadsAssumption == Payloads \subseteq [tip: Tipuri, verdict: Verdicts] /\ Payloads # {}
ASSUME PolledAssumption == Polled \subseteq Replicas
ASSUME BoundsAssumption == MaxLinks \in Nat /\ MaxProbes \in Nat

VARIABLES
  rows,      \* audit_chain, ordered by seq
  wire,      \* inserts on their way to the register, heard of or not
  register,  \* register[s]: how many rows of audit_events carry link s
  proc,      \* proc[p]: the memory of replica p
  raced      \* history: some append did not see the head it follows

vars == <<rows, wire, register, proc, raced>>

Links == 1 .. MaxLinks
GENESIS_HASH == <<>>
None == 0

AuditRecord == [payload: Payloads, prevHash: Seq(Payloads), chainHash: Seq(Payloads)]

\* A replica: its append (`head` is what it has read), the counters of its
\* mirror, the links whose write it awaits, the memo of the probe (`memo`: a
\* contact in the last 5 s, `confirmed`: in the last 60 s), the probes that are
\* out, and the last health request: the chain's length and the holes when it
\* came, and whether it reported no degradation.  History: the first link seen, the links confirmed.
Memory ==
  [up: BOOLEAN, configured: BOOLEAN,
   pc: {"idle", "insert"}, head: Seq(Payloads), payload: Payloads,
   seq_baza: Nat, seq_oglindite: SUBSET Links, writes: SUBSET Links,
   memo: BOOLEAN, confirmed: BOOLEAN, probes: Nat,
   waiting: BOOLEAN, asked: Nat, holes: Nat, healthy: BOOLEAN,
   first: Nat, acked: SUBSET Links]

TypeOK ==
  /\ rows \in Seq(AuditRecord) /\ Len(rows) <= MaxLinks
  /\ wire \subseteq Links
  /\ register \in [Links -> Nat]
  /\ proc \in [Replicas -> Memory]
  /\ raced \in BOOLEAN

\* A process that has just started: it has seen no link and contacted nobody.
Fresh(configured) ==
  [up |-> TRUE, configured |-> configured,
   pc |-> "idle", head |-> GENESIS_HASH, payload |-> CHOOSE d \in Payloads : TRUE,
   seq_baza |-> None, seq_oglindite |-> {}, writes |-> {},
   memo |-> FALSE, confirmed |-> FALSE, probes |-> 0,
   waiting |-> FALSE, asked |-> 0, holes |-> 0, healthy |-> FALSE,
   first |-> None, acked |-> {}]

Init ==
  /\ rows = <<>> /\ wire = {}
  /\ register = [s \in Links |-> 0]
  /\ \E c \in BOOLEAN : proc = [p \in Replicas |-> Fresh(c)]
  /\ raced = FALSE

-----------------------------------------------------------------------------
(***************************************************************************)
(* The chain.                                                              *)
(***************************************************************************)
getHeadHash == IF rows = <<>> THEN GENESIS_HASH ELSE Last(rows).chainHash

countRecords == Len(rows)

\* sha256(payloadHash + prevHash)
chainHash(payload, prev) == Append(prev, payload)

\* Mutant: the link is hashed without its predecessor.
linkOf_Alone(payload, prev) ==
  [payload |-> payload, prevHash |-> prev, chainHash |-> chainHash(payload, GENESIS_HASH)]

linkOf(payload, prev) ==
  [payload |-> payload, prevHash |-> prev, chainHash |-> chainHash(payload, prev)]

\* The walk of verifyChain(): every link names its predecessor's hash, and its
\* own hash is that of its payload and its predecessor's.
verifyChain ==
  \A s \in DOMAIN rows :
    /\ rows[s].prevHash = IF s = 1 THEN GENESIS_HASH ELSE rows[s - 1].chainHash
    /\ rows[s].chainHash = chainHash(rows[s].payload, rows[s].prevHash)

-----------------------------------------------------------------------------
(***************************************************************************)
(* The counters of the mirror.                                             *)
(***************************************************************************)
\* The window opens at the first link this process sees.
noteazaSeqLocal(m, s) ==
  [m EXCEPT !.seq_baza = IF @ = None THEN s ELSE @, !.first = IF @ = None THEN s ELSE @]

\* The end of the contiguous run of links of the set that starts at `from`.
compactedBase(from, set) ==
  CHOOSE n \in from .. from + Cardinality(set) :
    n \notin set /\ \A s \in from .. n - 1 : s \in set

\* Remember a confirmed link, then compact the confirmed prefix.
noteazaSeqOglindit(m, s) ==
  LET set == m.seq_oglindite \cup {s}
      base == compactedBase(m.seq_baza, set)
  IN IF s < m.seq_baza THEN m
     ELSE [m EXCEPT !.seq_baza = base, !.seq_oglindite = {x \in set : x >= base}]

\* Mutant: the retired distance between two high-water marks.
numaraVerigiNeoglindite_Distance(m) ==
  Cardinality({s \in 1 .. countRecords : \A x \in m.acked : x < s})

\* The links in [seq_baza .. count] that were never confirmed; zero where the
\* code has null (no link seen yet).
numaraVerigiNeoglindite(m) ==
  IF m.seq_baza = None THEN 0
  ELSE Cardinality((m.seq_baza .. countRecords) \ m.seq_oglindite)

-----------------------------------------------------------------------------
(***************************************************************************)
(* The row of a link.                                                      *)
(***************************************************************************)
TIPURI_EVENIMENT_PERMISE ==
  {"query", "mission_dispatch", "cosign_requested", "cosign_approved", "cosign_rejected",
   "cosign_expired", "governance_block", "knowledge_ingest", "agent_dispatch",
   "system_boot", "system_shutdown"}

\* The appeal's life-cycle first, then refusals, then the families, else a query.
traduTipEveniment(tip, verdict) ==
  CASE tip = "appeal.opened" -> "cosign_requested"
    [] tip = "appeal.approved" -> "cosign_approved"
    [] tip = "appeal.rejected" -> "cosign_rejected"
    [] tip = "appeal.expired" -> "cosign_expired"
    [] tip = "governance.block" \/ (verdict \in {"deny", "block"} /\ tip \notin
         {"appeal.opened", "appeal.approved", "appeal.rejected", "appeal.expired"}) -> "governance_block"
    [] OTHER -> CASE tip = "agent" -> "agent_dispatch"
                  [] tip = "mission" -> "mission_dispatch"
                  [] tip = "knowledge" -> "knowledge_ingest"
                  [] tip = "system.boot" -> "system_boot"
                  [] tip = "system.shutdown" -> "system_shutdown"
                  [] OTHER -> "query"

\* The original type has to be carried in the payload.
traducereaEsteImplicita(tip, verdict) ==
  traduTipEveniment(tip, verdict) = "query" /\ tip # "runtime.query"

necesitaCosemnaturaUmana(verdict, fromGate) == verdict \in {"escalate", "deny", "block"} \/ fromGate

\* What construiesteRandAudit() derives; the hash and the payload are copied.
construiesteRandAudit(d) ==
  [event_type |-> traduTipEveniment(d.tip, d.verdict),
   original |-> traducereaEsteImplicita(d.tip, d.verdict),
   human_cosign_required |-> necesitaCosemnaturaUmana(d.verdict, FALSE)]

\* audit_events_event_type_check admits the row of every decision.
ASSUME EveryRowIsAdmitted ==
  \A d \in [tip: Tipuri, verdict: Verdicts] :
    construiesteRandAudit(d).event_type \in TIPURI_EVENIMENT_PERMISE

-----------------------------------------------------------------------------
(***************************************************************************)
(* append() and the mirror.                                                *)
(***************************************************************************)
Set(p, m) == proc' = [proc EXCEPT ![p] = m]

\* append(): the head is read ...
ReadHead(p) ==
  /\ proc[p].up /\ proc[p].pc = "idle"
  /\ Len(rows) < MaxLinks
  /\ \E d \in Payloads :
       Set(p, [proc[p] EXCEPT !.pc = "insert", !.head = getHeadHash, !.payload = d])
  /\ UNCHANGED <<rows, wire, register, raced>>

\* ... and the link inserted; programeazaOglindire() starts its write and does
\* not wait for it.
Insert(p) ==
  /\ proc[p].up /\ proc[p].pc = "insert"
  /\ Len(rows) < MaxLinks
  /\ LET m == proc[p]
         s == Len(rows) + 1
         sent == IF m.configured THEN {s} ELSE {}
         done == [m EXCEPT !.pc = "idle", !.head = GENESIS_HASH, !.writes = @ \cup sent]
     IN /\ rows' = Append(rows, linkOf(m.payload, m.head))
        /\ raced' = (raced \/ m.head # getHeadHash)
        /\ wire' = wire \cup sent
        /\ Set(p, noteazaSeqLocal(done, s))
  /\ UNCHANGED register

\* External: the register stores a row its constraint admits, or the request is
\* lost or refused.
RowLands(s) ==
  /\ s \in wire
  /\ construiesteRandAudit(rows[s].payload).event_type \in TIPURI_EVENIMENT_PERMISE
  /\ wire' = wire \ {s}
  /\ register' = [register EXCEPT ![s] = @ + 1]
  /\ UNCHANGED <<rows, proc, raced>>

RowLost(s) ==
  /\ s \in wire
  /\ wire' = wire \ {s}
  /\ UNCHANGED <<rows, register, proc, raced>>

\* Mutant: any answer is taken for a confirmation, as reachability once was.
confirmat_AnyAnswer(s) == s \notin wire

\* noteazaStatus(): a 2xx, which the register sends when the row is stored.
confirmat(s) == register[s] > 0

\* oglindesteVeriga() after its await.
WriteConfirmed(p, s) ==
  /\ proc[p].up /\ s \in proc[p].writes
  /\ confirmat(s)
  /\ Set(p, [noteazaSeqOglindit(proc[p], s) EXCEPT !.writes = @ \ {s}, !.acked = @ \cup {s}])
  /\ UNCHANGED <<rows, wire, register, raced>>

\* Mutant: a failed write is sent again.
WriteFails_Retries(p, s) ==
  /\ proc[p].up /\ s \in proc[p].writes
  /\ wire' = wire \cup {s}
  /\ UNCHANGED <<rows, register, proc, raced>>

\* Refused, failed or timed out: counted by inregistreazaEsec() and not retried.
\* A request that timed out may still reach the register.
WriteFails(p, s) ==
  /\ proc[p].up /\ s \in proc[p].writes
  /\ Set(p, [proc[p] EXCEPT !.writes = @ \ {s}])
  /\ UNCHANGED <<rows, wire, register, raced>>

-----------------------------------------------------------------------------
(***************************************************************************)
(* The health report.                                                      *)
(***************************************************************************)
\* What raporteazaPersistenta() answers once it knows about reachability.
answered(m, accesibil) ==
  LET healthy == m.configured /\ accesibil /\ m.holes = 0
  IN [m EXCEPT !.waiting = FALSE, !.healthy = healthy, !.holes = 0,
               !.asked = IF healthy THEN @ ELSE 0]

\* The counters are read, then the register is probed unless the memo is fresh.
HealthRequest(p) ==
  /\ p \in Polled /\ proc[p].up /\ ~proc[p].waiting /\ proc[p].probes < MaxProbes
  /\ LET m == [proc[p] EXCEPT !.asked = countRecords, !.healthy = FALSE,
                              !.holes = numaraVerigiNeoglindite(proc[p])]
     IN Set(p, IF ~m.configured \/ m.memo THEN answered(m, m.memo)
               ELSE [m EXCEPT !.waiting = TRUE, !.probes = @ + 1])
  /\ UNCHANGED <<rows, wire, register, raced>>

\* ping() resolves; `own` if the request still waits for this very probe.
ProbeAnswers(p, ok, own) ==
  /\ proc[p].up /\ proc[p].probes > (IF proc[p].waiting /\ ~own THEN 1 ELSE 0)
  /\ own => proc[p].waiting
  /\ LET m == [proc[p] EXCEPT !.probes = @ - 1, !.memo = ok, !.confirmed = @ \/ ok]
     IN Set(p, IF own THEN answered(m, ok) ELSE m)
  /\ UNCHANGED <<rows, wire, register, raced>>

\* Mutant: an inconclusive probe counts as reachable.
standsIn_Always(m) == TRUE

\* A contact within FERESTRA_CONFIRMARE_MS stands in for a slow probe.
standsIn(m) == m.confirmed

\* LIMITA_INTEROGARE_MS passes; the probe goes on without the request.
ProbeTooSlow(p) ==
  /\ proc[p].up /\ proc[p].waiting
  /\ Set(p, answered(proc[p], standsIn(proc[p])))
  /\ UNCHANGED <<rows, wire, register, raced>>

\* TTL_MEMO_REUSITA_MS, then FERESTRA_CONFIRMARE_MS.
MemoExpires(p) ==
  /\ proc[p].memo
  /\ Set(p, [proc[p] EXCEPT !.memo = FALSE])
  /\ UNCHANGED <<rows, wire, register, raced>>

ConfirmationExpires(p) ==
  /\ proc[p].confirmed /\ ~proc[p].memo
  /\ Set(p, [proc[p] EXCEPT !.confirmed = FALSE])
  /\ UNCHANGED <<rows, wire, register, raced>>

-----------------------------------------------------------------------------
\* A process dies with its counters; requests on the wire go on.
Crash(p) ==
  /\ proc[p].up
  /\ Set(p, [Fresh(proc[p].configured) EXCEPT !.up = FALSE])
  /\ UNCHANGED <<rows, wire, register, raced>>

Restart(p) ==
  /\ ~proc[p].up
  /\ \E c \in BOOLEAN : Set(p, Fresh(c))
  /\ UNCHANGED <<rows, wire, register, raced>>

Health(p) == HealthRequest(p) \/ ProbeTooSlow(p) \/ MemoExpires(p) \/ ConfirmationExpires(p)
             \/ \E ok, own \in BOOLEAN : ProbeAnswers(p, ok, own)

Mirror(p, s) == WriteConfirmed(p, s) \/ WriteFails(p, s)

Next ==
  \/ \E p \in Replicas :
       \/ ReadHead(p) \/ Insert(p) \/ Health(p) \/ Crash(p) \/ Restart(p)
       \/ \E s \in Links : Mirror(p, s)
  \/ \E s \in Links : RowLands(s) \/ RowLost(s)

Spec == Init /\ [][Next]_vars

-----------------------------------------------------------------------------
(***************************************************************************)
(* Properties.                                                             *)
(***************************************************************************)
\* verifyChain() succeeds unless two replicas appended to one head.
ChainVerifies == ~raced => verifyChain

\* A report without degradation means that every link the process has seen up
\* to the request is stored in the register, whatever order the answers came in.
NoFalseGreen ==
  \A p \in Replicas : proc[p].healthy =>
    \A s \in Links : proc[p].first # None /\ s >= proc[p].first /\ s <= proc[p].asked
                       => register[s] > 0

\* A report without degradation is backed by a contact that the register
\* confirmed within the last minute.
GreenIsRecent ==
  [][\A p \in Replicas :
       ~proc[p].healthy /\ proc'[p].healthy => proc'[p].confirmed]_vars

\* The chain and its mirror are a log with copies.
Abstract == INSTANCE AuditLog WITH
  log <- [s \in DOMAIN rows |-> rows[s].payload],
  copies <- [s \in DOMAIN rows |-> register[s]]

\* Nothing recorded is changed, reordered or lost, and no link gets a second
\* row in the register, or one before it is recorded: not after a crash, a
\* timeout or a race of replicas.
ImplementsLog == Abstract!Spec
=============================================================================
