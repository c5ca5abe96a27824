------------------------------- MODULE Executor -------------------------------
(***************************************************************************)
(* The mandated executor: src/runtime/executor/{executor,journal,runner,   *)
(* approval,cli}.ts.                                                       *)
(*                                                                         *)
(* Every `ronor-executor execute` is an operating-system process of its    *)
(* own; the processes share the SQLite journal and PID 1 (systemd), and    *)
(* nothing else.  A request r of this module is one such process.  A step  *)
(* is what one process does between two points where another process can   *)
(* see or change the journal in a way that matters to it.  The console     *)
(* commands (stop, clear-stop, revoke-*, status) are further processes     *)
(* that open the journal, write one fact and exit.                         *)
(***************************************************************************)
EXTENDS Naturals, FiniteSets

CONSTANTS
  Requests,   \* the execute processes
  Resources,  \* leased resources: the units of the host catalogue
  Owners,     \* who asks
  NoOwner,    \* the owner of no lease row
  Mandates,   \* mandate_ids
  Keys,       \* approval_ids and the idempotency keys of observations
  Hashes,     \* action hashes
  Scenarios,  \* which input each process may have been started with
  Revocable,  \* the mandates and approvals the console may revoke
  Lapsing,    \* the mandates and approvals whose window may end
  Overtime    \* TRUE: halting a unit may outlast the 30 s margin of the lease

Types == {"ops.observe", "ops.actuate"}

(***************************************************************************)
(* What a process is asked.  "static" is the verdict of the gates that     *)
(* read no state: the shape of the request, the mandate's signature and    *)
(* delegation, the catalogue.  "authentic", "origin" and "approved" are    *)
(* the signed content of the approval: approved is the hash it names.      *)
(***************************************************************************)
Inputs == [type: Types, resource: Resources, owner: Owners, mandate: Mandates,
           key: Keys, hash: Hashes, static: BOOLEAN,
           authentic: BOOLEAN, origin: {"operator", "memory"}, approved: Hashes]

ASSUME ScenariosAssumption == Scenarios \subseteq [Requests -> Inputs]
\* An approval_id is a nonce: whoever signs does not reuse it for another action.
ASSUME NonceAssumption ==
  \A f \in Scenarios : \A r, s \in Requests :
    /\ f[r].type = "ops.actuate" /\ f[s].type = "ops.actuate"
    /\ f[r].authentic /\ f[s].authentic /\ f[r].key = f[s].key
    => f[r].approved = f[s].approved
ASSUME RequestsAssumption == IsFiniteSet(Requests)
ASSUME DocumentsAssumption == Revocable \cup Lapsing \subseteq Mandates \cup Keys
ASSUME OvertimeAssumption == Overtime \in BOOLEAN

ASSUME NoOwnerAssumption == NoOwner \notin Owners

VARIABLES
  req,      \* req[r]: the input of process r; never changes
  pc,       \* pc[r]: where process r is in execute()
  reply,    \* reply[r]: the outcome execute() returned
  rec,      \* rec[r]: the state column of the row r admitted; "none": no row
  lease,    \* lease[u]: the row of table leases; depth 0: no row
  stop,     \* stopReason(): STOP is in force, in the journal or by its file
  revoked,  \* the revoked mandates and approvals
  lapsed,   \* the mandates and approvals whose time window has ended
  client,   \* client[r]: the process the runner spawned
  why,      \* why[r]: the runner's `reason`
  halt,     \* halt[r]: progress of haltUnit
  aborted,  \* aborted[r]: controller.signal.aborted
  job,      \* job[r]: the systemd job submitted by the client of r
  unit      \* unit[u]: what the unit settles to when no job runs on it

journalVars == <<rec, lease, stop, revoked>>
runnerVars  == <<client, why, halt, aborted>>
systemdVars == <<job, unit>>
vars == <<req, pc, reply, journalVars, lapsed, runnerVars, systemdVars>>

Open  == {"admitted", "started"}
Final == {"done", "failed", "interrupted", "interrupt_unconfirmed"}
Exited == {"exit0", "exit1"}  \* exit1: any other code, or a signal

Actuates(r) == req[r].type = "ops.actuate"

LeaseRows == [owner: Owners \cup {NoOwner}, depth: Nat, expired: BOOLEAN]

TypeOK ==
  /\ req \in Scenarios
  /\ pc \in [Requests -> {"idle", "gates", "lookup", "lease", "unit", "admit",
                          "late", "run", "release", "end", "crashed"}]
  /\ reply \in [Requests -> {"none", "refused"} \cup Final]
  /\ rec \in [Requests -> {"none"} \cup Open \cup Final]
  /\ lease \in [Resources -> LeaseRows]
  /\ stop \in BOOLEAN
  /\ revoked \subseteq Mandates \cup Keys
  /\ lapsed \subseteq Mandates \cup Keys
  /\ client \in [Requests -> {"none", "spawned", "waiting"} \cup Exited]
  /\ why \in [Requests -> {"none", "aborted", "timed_out"}]
  /\ halt \in [Requests -> {"none", "stopping", "reading", "confirmed", "unconfirmed"}]
  /\ aborted \in [Requests -> BOOLEAN]
  /\ job \in [Requests -> {"none", "running", "done", "failed", "halted"}]
  /\ unit \in [Resources -> {"active", "inactive"}]

NoRow == [owner |-> NoOwner, depth |-> 0, expired |-> FALSE]

Init ==
  /\ req \in Scenarios
  /\ pc = [r \in Requests |-> "idle"]
  /\ reply = [r \in Requests |-> "none"]
  /\ rec = [r \in Requests |-> "none"]
  /\ lease = [u \in Resources |-> NoRow]
  /\ stop = FALSE /\ revoked = {} /\ lapsed = {}
  /\ client = [r \in Requests |-> "none"]
  /\ why = [r \in Requests |-> "none"]
  /\ halt = [r \in Requests |-> "none"]
  /\ aborted = [r \in Requests |-> FALSE]
  /\ job = [r \in Requests |-> "none"]
  /\ unit = [u \in Resources |-> "active"]

-----------------------------------------------------------------------------
(***************************************************************************)
(* The journal.                                                            *)
(***************************************************************************)
processGone(r) == pc[r] = "crashed"

orphanState(r) == IF Actuates(r) THEN "interrupt_unconfirmed" ELSE "interrupted"

\* The constructor: rows left open by a process that is gone are closed.
openJournal ==
  rec' = [r \in Requests |->
            IF rec[r] \in Open /\ processGone(r) THEN orphanState(r) ELSE rec[r]]

\* Observation keys and approvals live in disjoint key spaces.
SameKey(r, s) == req[r].type = req[s].type /\ req[r].key = req[s].key

\* The rows findByApproval / findByIdempotencyKey return (at most one).
Previous(r) == {s \in Requests : rec[s] # "none" /\ SameKey(r, s)}

inFlightOn(u) == \E s \in Requests : Actuates(s) /\ rec[s] \in Open /\ req[s].resource = u

claimedRow(row, o) ==
  [owner |-> o, depth |-> IF row.expired THEN 1 ELSE row.depth + 1, expired |-> FALSE]

\* Mutant: the holder of a lease in force is not looked at.
leaseBusy_Never(row, o) == FALSE

leaseBusy(row, o) == row.depth > 0 /\ ~row.expired /\ row.owner # o

releasedRow(row, o) ==
  IF row.depth = 0 \/ row.owner # o THEN row
  ELSE IF row.depth > 1 THEN [row EXCEPT !.depth = @ - 1]
  ELSE NoRow

claimLease(r) ==
  lease' = [lease EXCEPT ![req[r].resource] = claimedRow(@, req[r].owner)]

releaseLease(r) ==
  lease' = [lease EXCEPT ![req[r].resource] = releasedRow(@, req[r].owner)]

-----------------------------------------------------------------------------
(***************************************************************************)
(* execute(): the gates.                                                   *)
(***************************************************************************)
Goto(r, label) == pc' = [pc EXCEPT ![r] = label]

Return(r, outcome) == Goto(r, "end") /\ reply' = [reply EXCEPT ![r] = outcome]

\* replay(): an open row is reported as in progress, a closed one as recorded.
Replay(r, s) == Return(r, IF rec[s] \in Open THEN "refused" ELSE rec[s])

\* The process starts: main() opens the journal before it calls execute().
Start(r) ==
  /\ pc[r] = "idle"
  /\ openJournal
  /\ Goto(r, "gates")
  /\ UNCHANGED <<req, reply, lease, stop, revoked, lapsed, runnerVars, systemdVars>>

\* Gates 1 to 5: STOP, the request and its mandate, the action, the catalogue.
Barred(r) ==
  \/ stop
  \/ ~req[r].static
  \/ req[r].mandate \in lapsed
  \/ req[r].mandate \in revoked

Authorize(r) ==
  /\ pc[r] = "gates"
  /\ IF Barred(r) THEN Return(r, "refused") ELSE Goto(r, "lookup") /\ UNCHANGED reply
  /\ UNCHANGED <<req, journalVars, lapsed, runnerVars, systemdVars>>

\* Mutant: the action of the row is not compared with the one asked for.
AnswerFromJournal_AnyAction(r) ==
  /\ pc[r] = "lookup"
  /\ \E s \in Previous(r) : Replay(r, s)
  /\ UNCHANGED <<req, journalVars, lapsed, runnerVars, systemdVars>>

\* Gates 6 and 7: a key already in the journal is answered from its row, even
\* when the approval has lapsed since.
AnswerFromJournal(r) ==
  /\ pc[r] = "lookup"
  /\ \E s \in Previous(r) :
       IF Actuates(r) /\ req[s].hash # req[r].hash
         THEN Return(r, "refused")
         ELSE Replay(r, s)
  /\ UNCHANGED <<req, journalVars, lapsed, runnerVars, systemdVars>>

verifyActuationApproval(r) ==
  /\ req[r].authentic
  /\ req[r].origin = "operator"
  /\ req[r].approved = req[r].hash
  /\ req[r].key \notin lapsed

\* An authentic approval that did not come from the operator is burnt.
CheckApproval(r) ==
  /\ pc[r] = "lookup"
  /\ Previous(r) = {}
  /\ IF Actuates(r) /\ (~verifyActuationApproval(r) \/ req[r].key \in revoked)
       THEN /\ Return(r, "refused")
            /\ revoked' = revoked \cup
                 {k \in {req[r].key} : req[r].authentic /\ req[r].origin # "operator"}
       ELSE Goto(r, "lease") /\ UNCHANGED <<reply, revoked>>
  /\ UNCHANGED <<req, rec, lease, stop, lapsed, runnerVars, systemdVars>>

\* Gate 8: no open actuation on the resource, then the lease.
Contradicted(r) == Actuates(r) /\ inFlightOn(req[r].resource)

ClaimLease(r) ==
  /\ pc[r] = "lease"
  /\ IF Contradicted(r) \/ leaseBusy(lease[req[r].resource], req[r].owner)
       THEN Return(r, "refused") /\ UNCHANGED lease
       ELSE /\ claimLease(r)
            /\ Goto(r, IF Actuates(r) THEN "unit" ELSE "admit")
            /\ UNCHANGED reply
  /\ UNCHANGED <<req, rec, stop, revoked, lapsed, runnerVars, systemdVars>>

\* Gate 9: `systemctl show`, awaited.  The reading may fail, and a job of
\* somebody else may be running on the unit: a refusal is always possible.
RunningOn(u) == {s \in Requests : job[s] = "running" /\ req[s].resource = u}

UnitReadable(r) ==
  /\ pc[r] = "unit"
  /\ RunningOn(req[r].resource) = {}
  /\ Goto(r, "admit")
  /\ UNCHANGED <<req, reply, journalVars, lapsed, runnerVars, systemdVars>>

UnitRefuses(r) ==
  /\ pc[r] = "unit"
  /\ releaseLease(r)
  /\ Return(r, "refused")
  /\ UNCHANGED <<req, rec, stop, revoked, lapsed, runnerVars, systemdVars>>

-----------------------------------------------------------------------------
(***************************************************************************)
(* execute(): admission and start.                                         *)
(***************************************************************************)
\* Mutant: the constraint UNIQUE on approval_id and idempotency_key is missing.
uniqueConflict_Never(r) == FALSE

uniqueConflict(r) == Previous(r) # {}

\* STOP is read again after the await, for an actuation; nothing else is.
StoppedBeforeAdmission(r) ==
  /\ pc[r] = "admit" /\ Actuates(r) /\ stop
  /\ releaseLease(r)
  /\ Return(r, "refused")
  /\ UNCHANGED <<req, rec, stop, revoked, lapsed, runnerVars, systemdVars>>

\* journal.admit() inserts the row: here the approval is consumed.
Admit(r) ==
  /\ pc[r] = "admit" /\ ~(Actuates(r) /\ stop)
  /\ ~uniqueConflict(r)
  /\ rec' = [rec EXCEPT ![r] = "admitted"]
  /\ Goto(r, "late")
  /\ UNCHANGED <<req, reply, lease, stop, revoked, lapsed, runnerVars, systemdVars>>

\* The insert fails: it lost a race on the key, and the winner's row is the
\* answer, or the journal cannot be written.
AdmitFails(r) ==
  /\ pc[r] = "admit" /\ ~(Actuates(r) /\ stop)
  /\ releaseLease(r)
  /\ IF Previous(r) = {} THEN Return(r, "refused") ELSE \E s \in Previous(r) : Replay(r, s)
  /\ UNCHANGED <<req, rec, stop, revoked, lapsed, runnerVars, systemdVars>>

\* A STOP between admission and start wins.
LateStop(r) ==
  /\ pc[r] = "late" /\ stop
  /\ rec' = [rec EXCEPT ![r] = "interrupted"]
  /\ reply' = [reply EXCEPT ![r] = "interrupted"]
  /\ Goto(r, "release")
  /\ UNCHANGED <<req, lease, stop, revoked, lapsed, runnerVars, systemdVars>>

MarkStarted(r) ==
  /\ pc[r] = "late" /\ ~stop
  /\ rec' = [rec EXCEPT ![r] = "started"]
  /\ client' = [client EXCEPT ![r] = "spawned"]
  /\ Goto(r, "run")
  /\ UNCHANGED <<req, reply, lease, stop, revoked, lapsed, why, halt, aborted, systemdVars>>

-----------------------------------------------------------------------------
(***************************************************************************)
(* The spawned client and systemd.  They are not the executor: they go on  *)
(* when its process dies (the client is spawned detached).                 *)
(***************************************************************************)
\* The systemctl client hands its job to PID 1.
ClientSubmits(r) ==
  /\ client[r] = "spawned" /\ Actuates(r)
  /\ client' = [client EXCEPT ![r] = "waiting"]
  /\ job' = [job EXCEPT ![r] = "running"]
  /\ UNCHANGED <<req, pc, reply, journalVars, lapsed, why, halt, aborted, unit>>

\* An observation answers, or the client fails before it has any effect.
ClientAnswers(r) ==
  /\ client[r] = "spawned"
  /\ \E code \in {"exit0", "exit1"} :
       /\ code = "exit0" => ~Actuates(r)
       /\ client' = [client EXCEPT ![r] = code]
  /\ UNCHANGED <<req, pc, reply, journalVars, lapsed, why, halt, aborted, systemdVars>>

\* Clients that still wait for the jobs of S return this code.
Notify(S, code) ==
  client' = [r \in Requests |-> IF r \in S /\ client[r] = "waiting" THEN code ELSE client[r]]

JobEnds(r) ==
  /\ job[r] = "running"
  /\ \/ /\ job' = [job EXCEPT ![r] = "done"]
        /\ Notify({r}, "exit0")
        /\ \E s \in {"active", "inactive"} : unit' = [unit EXCEPT ![req[r].resource] = s]
     \/ /\ job' = [job EXCEPT ![r] = "failed"]
        /\ Notify({r}, "exit1")
        /\ unit' = [unit EXCEPT ![req[r].resource] = "inactive"]
  /\ UNCHANGED <<req, pc, reply, journalVars, lapsed, why, halt, aborted>>

-----------------------------------------------------------------------------
(***************************************************************************)
(* The runner: terminate(), haltUnit(), and the end of the run.            *)
(***************************************************************************)
\* terminate(): once; the client is killed, and for an actuation the unit is
\* halted in parallel.
terminate(r, reason) ==
  /\ why' = [why EXCEPT ![r] = reason]
  /\ halt' = [halt EXCEPT ![r] = IF Actuates(r) THEN "stopping" ELSE "none"]
  /\ client' = [client EXCEPT ![r] = IF @ \in Exited THEN @ ELSE "exit1"]

\* The poll (every stopPollMs): STOP and the revocations abort the run.
Poll(r) ==
  /\ pc[r] = "run" /\ ~aborted[r]
  /\ stop \/ req[r].mandate \in revoked \/ (Actuates(r) /\ req[r].key \in revoked)
  /\ aborted' = [aborted EXCEPT ![r] = TRUE]
  /\ IF why[r] = "none" THEN terminate(r, "aborted") ELSE UNCHANGED <<why, halt, client>>
  /\ UNCHANGED <<req, pc, reply, journalVars, lapsed, systemdVars>>

TimeOut(r) ==
  /\ pc[r] = "run" /\ why[r] = "none"
  /\ terminate(r, "timed_out")
  /\ UNCHANGED <<req, pc, reply, journalVars, lapsed, aborted, systemdVars>>

\* `systemctl stop`, then `systemctl kill`: they end every job on the unit, or
\* have no effect (no right, no answer in time).
HaltCommand(r) ==
  /\ pc[r] = "run" /\ halt[r] = "stopping"
  /\ halt' = [halt EXCEPT ![r] = "reading"]
  /\ LET hit == RunningOn(req[r].resource)
     IN \/ /\ job' = [s \in Requests |-> IF s \in hit THEN "halted" ELSE job[s]]
           /\ Notify(hit, "exit1")
           /\ unit' = [unit EXCEPT ![req[r].resource] = "inactive"]
        \/ UNCHANGED <<job, client, unit>>
  /\ UNCHANGED <<req, pc, reply, journalVars, lapsed, why, aborted>>

UnitHalted(u) == unit[u] = "inactive" /\ RunningOn(u) = {}

\* The reading confirms the halt, or the confirmation window runs out.
HaltRead(r) ==
  /\ pc[r] = "run" /\ halt[r] = "reading"
  /\ \E verdict \in {"confirmed", "unconfirmed"} :
       /\ verdict = "confirmed" => UnitHalted(req[r].resource)
       /\ halt' = [halt EXCEPT ![r] = verdict]
  /\ UNCHANGED <<req, pc, reply, journalVars, lapsed, client, why, aborted, systemdVars>>

\* Mutant: the end of a run waits for a halt that was never begun.
RunnerResolved_AwaitsHalt(r) ==
  /\ client[r] \in Exited
  /\ why[r] = "none" \/ halt[r] \in {"confirmed", "unconfirmed"}

\* The promise of the runner is resolved: the client is closed and a halt that
\* was begun has reported.
RunnerResolved(r) ==
  /\ client[r] \in Exited
  /\ why[r] = "none" \/ ~Actuates(r) \/ halt[r] \in {"confirmed", "unconfirmed"}

\* Mutant: `interrupted` is written without a confirmed halt.
Outcome_Trusting(r) ==
  IF aborted[r] \/ why[r] = "aborted" THEN "interrupted"
  ELSE IF why[r] = "none" /\ client[r] = "exit0" THEN "done" ELSE "failed"

\* Mutant: the exit code is not looked at.
Outcome_AlwaysDone(r) ==
  IF aborted[r] \/ why[r] = "aborted"
    THEN IF Actuates(r) /\ halt[r] # "confirmed" THEN "interrupt_unconfirmed" ELSE "interrupted"
  ELSE IF why[r] = "timed_out" /\ Actuates(r) /\ halt[r] # "confirmed" THEN "interrupt_unconfirmed"
  ELSE "done"

\* The state finish() writes; "done" and "failed" carry a signed receipt.
Outcome(r) ==
  LET unconfirmed == Actuates(r) /\ halt[r] # "confirmed"
  IN IF aborted[r] \/ why[r] = "aborted"
       THEN IF unconfirmed THEN "interrupt_unconfirmed" ELSE "interrupted"
     ELSE IF why[r] = "timed_out" /\ unconfirmed THEN "interrupt_unconfirmed"
     ELSE IF why[r] = "none" /\ client[r] = "exit0" THEN "done"
     ELSE "failed"

\* The memory of the run: closed by `finally`, lost in a crash.
forget(r) ==
  /\ why' = [why EXCEPT ![r] = "none"]
  /\ halt' = [halt EXCEPT ![r] = "none"]
  /\ aborted' = [aborted EXCEPT ![r] = FALSE]

\* finish() only updates an open row and throws otherwise; the `finally` block
\* releases the lease in both cases.
Finish(r) ==
  /\ pc[r] = "run" /\ RunnerResolved(r)
  /\ Goto(r, "release")
  /\ IF rec[r] \in Open
       THEN /\ rec' = [rec EXCEPT ![r] = Outcome(r)]
            /\ reply' = [reply EXCEPT ![r] = Outcome(r)]
       ELSE UNCHANGED <<rec, reply>>
  /\ forget(r)
  /\ UNCHANGED <<req, lease, stop, revoked, lapsed, client, systemdVars>>

Release(r) ==
  /\ pc[r] = "release"
  /\ releaseLease(r)
  /\ Goto(r, "end")
  /\ UNCHANGED <<req, reply, rec, stop, revoked, lapsed, runnerVars, systemdVars>>

-----------------------------------------------------------------------------
(***************************************************************************)
(* The environment: crashes, time and the console.                         *)
(***************************************************************************)
Crash(r) ==
  /\ pc[r] \notin {"idle", "end", "crashed"}
  /\ Goto(r, "crashed")
  /\ forget(r)
  /\ UNCHANGED <<req, reply, journalVars, lapsed, client, systemdVars>>

\* The processes between their claim and their release.
Holding(r) == pc[r] \in {"unit", "admit", "late", "run", "release"}

Holders(u) == {r \in Requests : Holding(r) /\ req[r].resource = u}

\* Mutant: a lease row is in force until it is released.
ExpireLease_Never(u) == FALSE /\ UNCHANGED vars

(***************************************************************************)
(* A lease lasts the plan's timeout plus 30 s.  The steps up to the start  *)
(* (a bounded `systemctl show`) and the run itself fit in it; only halting *)
(* a unit (up to 90 s) may not, and the lease of a dead process has nobody *)
(* left to release it.                                                     *)
(***************************************************************************)
ExpireLease(u) ==
  /\ lease[u].depth > 0 /\ ~lease[u].expired
  /\ \A r \in Holders(u) : Overtime /\ halt[r] # "none"
  /\ lease' = [lease EXCEPT ![u].expired = TRUE]
  /\ UNCHANGED <<req, pc, reply, rec, stop, revoked, lapsed, runnerVars, systemdVars>>

Lapse(x) ==
  /\ x \notin lapsed
  /\ lapsed' = lapsed \cup {x}
  /\ UNCHANGED <<req, pc, reply, journalVars, runnerVars, systemdVars>>

Revoke(x) ==
  /\ openJournal
  /\ x \notin revoked
  /\ revoked' = revoked \cup {x}
  /\ UNCHANGED <<req, pc, reply, lease, stop, lapsed, runnerVars, systemdVars>>

SetStop ==
  /\ openJournal
  /\ stop' \in BOOLEAN
  /\ UNCHANGED <<req, pc, reply, lease, revoked, lapsed, runnerVars, systemdVars>>

\* The STOP file is created and removed without the executor.
SetStopFile ==
  /\ stop' \in BOOLEAN
  /\ UNCHANGED <<req, pc, reply, rec, lease, revoked, lapsed, runnerVars, systemdVars>>

\* `status` and every other command open the journal.
Status ==
  /\ openJournal
  /\ UNCHANGED <<req, pc, reply, lease, stop, revoked, lapsed, runnerVars, systemdVars>>

Process(r) ==
  \/ Start(r) \/ Authorize(r) \/ AnswerFromJournal(r) \/ CheckApproval(r)
  \/ ClaimLease(r) \/ UnitReadable(r) \/ UnitRefuses(r)
  \/ StoppedBeforeAdmission(r) \/ Admit(r) \/ AdmitFails(r)
  \/ LateStop(r) \/ MarkStarted(r) \/ Poll(r) \/ TimeOut(r)
  \/ HaltCommand(r) \/ HaltRead(r) \/ Finish(r) \/ Release(r)

System(r) == ClientSubmits(r) \/ ClientAnswers(r) \/ JobEnds(r)

Console ==
  \/ \E x \in Lapsing : Lapse(x)
  \/ \E x \in Revocable : Revoke(x)
  \/ SetStop \/ SetStopFile \/ Status

Next ==
  \/ \E r \in Requests : Process(r) \/ System(r) \/ Crash(r)
  \/ \E u \in Resources : ExpireLease(u)
  \/ Console

Spec == Init /\ [][Next]_vars

(***************************************************************************)
(* A process that has started goes on (Node's event loop, its timers and   *)
(* the bounded commands of the runner), and time passes for the leases.    *)
(* Nothing is assumed of the console, of systemd or of the callers.        *)
(***************************************************************************)
Fairness ==
  /\ \A r \in Requests : WF_vars(pc[r] # "idle" /\ Process(r))
  /\ \A u \in Resources : WF_vars(ExpireLease(u))

FairSpec == Spec /\ Fairness

-----------------------------------------------------------------------------
(***************************************************************************)
(* Properties.                                                             *)
(***************************************************************************)
\* One key, one execution (F09): whatever is retried, raced or crashed, an
\* approval or an idempotency key never has two spawned clients.
KeySingleUse ==
  \A r, s \in Requests :
    r # s /\ SameKey(r, s) => client[r] = "none" \/ client[s] = "none"

\* No fictitious execution (F07): a row says `done` only when the systemd job
\* of that very request ended well.
DoneIsReal == \A r \in Requests : Actuates(r) /\ rec[r] = "done" => job[r] = "done"

\* `interrupted` is a promise (D1): the job of the actuation does not run and
\* no client is left that could still submit it.
InterruptedIsQuiet ==
  \A r \in Requests :
    Actuates(r) /\ rec[r] = "interrupted" =>
      job[r] # "running" /\ client[r] \notin {"spawned", "waiting"}

\* Every outcome told to a caller, replays included, is the recorded outcome
\* of an execution of the same action under the same key.
ReplyIsRecorded ==
  \A r \in Requests :
    reply[r] \in Final =>
      \E s \in Requests :
        /\ SameKey(r, s) /\ rec[s] = reply[r]
        /\ Actuates(r) => req[s].hash = req[r].hash

\* The row of a live process is open until that process closes it: whoever
\* opens the journal meanwhile leaves it alone, so markStarted() and finish()
\* always find their row.
LiveRowIsOpen ==
  \A r \in Requests :
    /\ pc[r] = "late" => rec[r] = "admitted"
    /\ pc[r] = "run" => rec[r] = "started"

\* A recorded outcome never changes.
OutcomeIsFinal == [][\A r \in Requests : rec[r] \in Final => rec'[r] = rec[r]]_vars

\* While processes hold a resource its lease row is in force, names their
\* common owner and counts at least all of them.
LeaseCountsHolders ==
  \A u \in Resources : Holders(u) # {} =>
    /\ ~lease[u].expired
    /\ lease[u].depth >= Cardinality(Holders(u))
    /\ \A r \in Holders(u) : req[r].owner = lease[u].owner

\* Two actuations that are open on one unit have the same owner, a crashed
\* process whose row is still open included.
ExclusiveAcrossOwners ==
  \A r, s \in Requests :
    /\ Actuates(r) /\ rec[r] \in Open
    /\ Actuates(s) /\ rec[s] \in Open
    /\ req[r].resource = req[s].resource
    => req[r].owner = req[s].owner

\* A process that has started gives an answer, unless it dies.
EveryProcessEnds ==
  \A r \in Requests : pc[r] = "gates" ~> pc[r] \in {"end", "crashed"}

\* No resource is leased for ever, whoever died holding it.
LeaseIsFreed ==
  \A u \in Resources : []<>(lease[u].depth = 0 \/ lease[u].expired)

\* Gate 8 as executor.ts words it: while an actuation is in flight on a unit a
\* second one is refused, whoever owns it.
SingleActuationPerUnit ==
  \A r, s \in Requests :
    /\ Actuates(r) /\ rec[r] \in Open
    /\ Actuates(s) /\ rec[s] \in Open
    /\ req[r].resource = req[s].resource
    => r = s

\* Gates 3 and 6 as executor.ts words them: nothing is admitted under a mandate
\* or an approval that has been revoked.
NeverAdmitsRevoked ==
  [][\A r \in Requests :
       rec[r] = "none" /\ rec'[r] = "admitted" =>
         req[r].mandate \notin revoked /\ (Actuates(r) => req[r].key \notin revoked)]_vars
=============================================================================
