------------------- MODULE VerificationAndKnowledgeProofs --------------------
(***************************************************************************)
(* Proofs about two services of the runtime, CommitVerification and        *)
(* Knowledge; their states are separate.                                   *)
(*                                                                         *)
(* The barrier of the development worktree covers what may be running, for *)
(* any number of verifications, authoring requests and crashes.  A proof   *)
(* of quiet is gathered over two awaits and used after them.  The          *)
(* invariant therefore says what an attempt has already excluded (Proof),  *)
(* which in turn needs to know which service may be at work in which phase *)
(* (Phase) and what the ledger tells of the model's call (Budget).         *)
(*                                                                         *)
(* The knowledge plane holds what it acknowledged and cites what the       *)
(* request is cleared for, for any documents, batches and queries in any   *)
(* interleaving.  KnowledgeInv says that no document is held in part, what *)
(* every outcome already reported promises, what a document that passed    *)
(* the screening cannot be, and of what an answer is made.                 *)
(***************************************************************************)
EXTENDS CommitVerification, Knowledge, TLAPS

-----------------------------------------------------------------------------
(***************************************************************************)
(* Type correctness.                                                       *)
(***************************************************************************)
\* The stored row, the execution in memory and the attempt to prove quiet.
Statuses == ACTIVE \cup {"none", "verified", "failed", "cancelled", "interrupted"}
Rows == [status: Statuses, reached: BOOLEAN, cost: {"number", "null"}, receipt: BOOLEAN,
         accepted: BOOLEAN, observed: BOOLEAN]
Executions == [at: ACTIVE \cup {"none"}, aborted: BOOLEAN]
Attempts == [at: {"none", "ledger", "runner"}, reached: BOOLEAN]

\* The type invariant, by the names above.
Typed ==
  /\ row \in [Ids -> Rows]
  /\ gate \in Ids \cup Admissions \cup {Nobody}
  /\ lapsed \subseteq Ids
  /\ proc \in {"up", "stopped", "down"}
  /\ exec \in [Ids -> Executions]
  /\ quiet \in [Ids -> Attempts]
  /\ asking \in [Ids -> {"no", "alone", "chained"}]
  /\ remote \in [Ids -> Working \cup {"none", "tests-sent", "passed"}]
  /\ ledger \in [Ids -> {"unknown", "pending", "settled"}]
  /\ author \in [Admissions -> {"none", "admitting", "accepted", "running", "stuck"}]
  /\ late \subseteq Ids
  /\ crashes \in 0 .. MaxCrashes

\* Typed is the type invariant of CommitVerification.
LEMMA TypeIs == TypeOK <=> Typed
BY DEF TypeOK, Typed, Rows, Statuses, Executions, Attempts

\* attemptQuietRelease() leaves well-formed attempts behind.
LEMMA AttemptedType ==
  ASSUME Typed, row' \in [Ids -> Rows], NEW S, NEW holder
  PROVE  attempted(S, holder) \in [Ids -> Attempts]
<1>1. ASSUME NEW r \in Rows PROVE [at |-> "ledger", reached |-> reachedModel(r)] \in Attempts
  BY <1>1 DEF Attempts, Rows, reachedModel
<1>. QED  BY <1>1 DEF attempted, Typed

\* The writes of execute() to a row keep it well formed.
LEMMA RowType ==
  ASSUME NEW r \in Rows, NEW s \in Statuses, NEW c \in {"number", "null"}, NEW b \in BOOLEAN
  PROVE  /\ [r EXCEPT !.status = s, !.reached = b, !.cost = c] \in Rows
         /\ [r EXCEPT !.status = s, !.receipt = b, !.cost = c] \in Rows
         /\ [r EXCEPT !.status = s, !.cost = c] \in Rows
BY DEF Rows

\* So does aborting an execution.
LEMMA AbortedType ==
  ASSUME NEW e \in Executions, NEW b \in BOOLEAN
  PROVE  [e EXCEPT !.aborted = b] \in Executions
BY DEF Executions

\* A request nobody waits for is dropped, delivered, or was answered.
LEMMA AbandonedType ==
  ASSUME Typed, NEW v \in Ids, NEW delivered \in BOOLEAN
  PROVE  /\ abandoned(v, delivered) \in Working \cup {"none", "tests-sent", "passed"}
         /\ abandoned(v, delivered) \in {"none", remote[v]}
BY DEF Typed, abandoned

\* status() leaves a row as it was, or takes back its verdict.
LEMMA StatusRow ==
  ASSUME Typed, NEW v \in Ids, status(v), NEW w \in Ids
  PROVE  \/ row'[w] = row[w]
         \/ /\ row[w].status = "verified"
            /\ row'[w] = [row[w] EXCEPT !.status = "failed", !.accepted = FALSE]
<1>1. \/ row' = row
      \/ /\ row[v].status = "verified"
         /\ row' = [row EXCEPT ![v] = [row[v] EXCEPT !.status = "failed", !.accepted = FALSE]]
  BY DEF status
<1>2. DOMAIN row = Ids
  BY DEF Typed
<1>. QED  BY <1>1, <1>2

\* Every step keeps the types.
LEMMA TypeStep == ASSUME Typed, [Next]_vars PROVE Typed'
<1>1. ASSUME NEW v \in Ids, Start(v) PROVE Typed'
  <2>1. row' \in [Ids -> Rows]
    BY <1>1 DEF Typed, Start, Rows, Statuses, Queued, NoRecord, ACTIVE
  <2>2. exec' \in [Ids -> Executions]
    BY <1>1 DEF Typed, Start, Executions, ACTIVE
  <2>3. quiet' \in [Ids -> Attempts]
    BY <1>1, <2>1, AttemptedType DEF Start
  <2>. QED  BY <1>1, <2>1, <2>2, <2>3 DEF Typed, Start, services
<1>2. ASSUME NEW v \in Ids, StartRefused(v) PROVE Typed'
  <2>1. row' \in [Ids -> Rows]
    BY <1>2 DEF Typed, StartRefused
  <2>2. quiet' \in [Ids -> Attempts]
    BY <1>2, <2>1, AttemptedType DEF StartRefused
  <2>. QED  BY <1>2, <2>1, <2>2 DEF Typed, StartRefused, services
<1>3. ASSUME NEW v \in Ids, status(v) PROVE Typed'
  <2>1. row' \in [Ids -> Rows]
    <3>1. row' = [w \in Ids |-> row'[w]]
      BY <1>3 DEF Typed, status
    <3>2. \A w \in Ids : row[w] \in Rows
      BY DEF Typed
    <3>3. \A w \in Ids : [row[w] EXCEPT !.status = "failed", !.accepted = FALSE] \in Rows
      BY <3>2 DEF Rows, Statuses
    <3>4. \A w \in Ids : row'[w] \in Rows
      BY <1>3, <3>2, <3>3, StatusRow
    <3>. QED  BY <3>1, <3>4
  <2>2. quiet' \in [Ids -> Attempts]
    BY <1>3, <2>1, AttemptedType DEF status
  <2>. QED  BY <1>3, <2>1, <2>2 DEF Typed, status, services
<1>4. ASSUME NEW v \in Ids, cancel(v) PROVE Typed'
  <2>1. row' \in [Ids -> Rows]
    BY <1>4 DEF Typed, cancel, Rows, Statuses
  <2>2. (exec[v].at # "none") \in BOOLEAN
    OBVIOUS
  <2>3. exec' = [exec EXCEPT ![v] = [exec[v] EXCEPT !.aborted = exec[v].at # "none"]]
    BY <1>4 DEF cancel
  <2>4. [exec[v] EXCEPT !.aborted = exec[v].at # "none"] \in Executions
    BY <2>2, AbortedType DEF Typed
  <2>5. exec' \in [Ids -> Executions]
    BY <2>3, <2>4 DEF Typed
  <2>6. quiet' \in [Ids -> Attempts]
    BY <1>4, <2>1, AttemptedType DEF cancel
  <2>. QED  BY <1>4, <2>1, <2>2, <2>3, <2>4, <2>5, <2>6 DEF Typed, cancel, services
<1>5. ASSUME NEW v \in Ids, Attested(v) PROVE Typed'
  <2>1. row \in [Ids -> Rows]
    BY DEF Typed
  <2>2. row' = [row EXCEPT ![v].status = "evidence"]
    BY <1>5 DEF Attested
  <2>3. row' \in [Ids -> Rows]
    BY <2>1, <2>2 DEF Rows, Statuses, ACTIVE
  <2>4. exec' \in [Ids -> Executions]
    BY <1>5 DEF Typed, Attested, Executions, ACTIVE
  <2>. QED  BY <1>5, <2>1, <2>2, <2>3, <2>4 DEF Typed, Attested
<1>6. ASSUME NEW v \in Ids, EvidenceRead(v) PROVE Typed'
  <2>1. row[v] \in Rows
    BY DEF Typed
  <2>2. row' = [row EXCEPT ![v] = [row[v] EXCEPT
             !.status = "codex", !.reached = TRUE, !.cost = "null"]]
    BY <1>6 DEF EvidenceRead
  <2>3. row' \in [Ids -> Rows]
    BY <2>1, <2>2, RowType DEF Typed, Statuses, ACTIVE
  <2>4. exec' \in [Ids -> Executions]
    BY <1>6 DEF Typed, EvidenceRead, Executions, ACTIVE
  <2>. QED  BY <1>6, <2>1, <2>2, <2>3, <2>4 DEF Typed, EvidenceRead, Working
<1>7. ASSUME NEW v \in Ids, CodexRead(v) PROVE Typed'
  <2>1. row[v] \in Rows
    BY DEF Typed
  <2>2. row' = [row EXCEPT ![v] = [row[v] EXCEPT
             !.status = "victoria", !.receipt = TRUE, !.cost = "number"]]
    BY <1>7 DEF CodexRead
  <2>3. row' \in [Ids -> Rows]
    BY <2>1, <2>2, RowType DEF Typed, Statuses, ACTIVE
  <2>4. exec' \in [Ids -> Executions]
    BY <1>7 DEF Typed, CodexRead, Executions, ACTIVE
  <2>. QED  BY <1>7, <2>1, <2>2, <2>3, <2>4 DEF Typed, CodexRead
<1>8. ASSUME NEW v \in Ids, Accepted(v) PROVE Typed'
  <2>1. row \in [Ids -> Rows]
    BY DEF Typed
  <2>2. row' = [row EXCEPT ![v] = [row[v] EXCEPT !.status = "verified", !.accepted = TRUE]]
    BY <1>8 DEF Accepted
  <2>3. row' \in [Ids -> Rows]
    <3>1. [row[v] EXCEPT !.status = "verified", !.accepted = TRUE] \in Rows
      BY <2>1 DEF Rows, Statuses
    <3>. QED  BY <2>1, <2>2, <3>1
  <2>4. exec' \in [Ids -> Executions]
    BY <1>8 DEF Typed, Accepted, ends, NoExecution, Executions
  <2>5. quiet' \in [Ids -> Attempts]
    BY <1>8, <2>3, AttemptedType DEF Typed, Accepted, ends
  <2>6. asking' \in [Ids -> {"no", "alone", "chained"}]
    BY <1>8 DEF Typed, Accepted, ends
  <2>. QED  BY <1>8, <2>1, <2>2, <2>3, <2>4, <2>5, <2>6 DEF Typed, Accepted, services,
     ends, release
<1>9. ASSUME NEW v \in Ids, Fails(v) PROVE Typed'
  <2>1. row[v] \in Rows
    BY DEF Typed
  <2>2. PICK cost \in {"number", "null"} :
          row' = IF ~active(v) THEN row
                 ELSE [row EXCEPT ![v] = [row[v] EXCEPT !.status = "failed",
                                            !.cost = IF exec[v].at = "codex" THEN cost ELSE @]]
    BY <1>9 DEF Fails
  <2>3. (IF exec[v].at = "codex" THEN cost ELSE row[v].cost) \in {"number", "null"}
    BY <2>1, <2>2 DEF Rows
  <2>4. row' \in [Ids -> Rows]
    BY <2>1, <2>2, <2>3, RowType DEF Typed, Statuses
  <2>5. exec' \in [Ids -> Executions]
    BY <1>9 DEF Typed, Fails, ends, NoExecution, Executions
  <2>6. quiet' \in [Ids -> Attempts]
    BY <1>9, <2>4, AttemptedType DEF Typed, Fails, ends
  <2>7. asking' \in [Ids -> {"no", "alone", "chained"}]
    BY <1>9 DEF Typed, Fails, ends
  <2>8. remote' \in [Ids -> Working \cup {"none", "tests-sent", "passed"}]
    BY <1>9, AbandonedType DEF Typed, Fails
  <2>. QED  BY <1>9, <2>1, <2>2, <2>3, <2>4, <2>5, <2>6, <2>7, <2>8 DEF Typed, Fails,
     ends, release
<1>10. ASSUME NEW v \in Ids, DeadlineExceeded(v) PROVE Typed'
  <2>1. row' \in [Ids -> Rows]
    BY <1>10 DEF Typed, DeadlineExceeded, Rows, Statuses
  <2>2. exec' \in [Ids -> Executions]
    BY <1>10 DEF Typed, DeadlineExceeded, Executions
  <2>. QED  BY <1>10, <2>1, <2>2 DEF Typed, DeadlineExceeded, services
<1>11. ASSUME NEW v \in Ids, Lapse(v) PROVE Typed'
  BY <1>11 DEF Typed, Lapse, store, memory, services
<1>12. ASSUME NEW v \in Ids, Reconciled(v) PROVE Typed'
  <2>1. row \in [Ids -> Rows]
    BY DEF Typed
  <2>2. row' = row \/ row' = [row EXCEPT ![v].observed = TRUE]
    BY <1>12 DEF Reconciled
  <2>3. row' \in [Ids -> Rows]
    <3>1. row[v] \in Rows /\ [row[v] EXCEPT !.observed = TRUE] \in Rows
      BY <2>1 DEF Rows
    <3>. QED  BY <2>1, <2>2, <3>1
  <2>4. quiet' \in [Ids -> Attempts]
    BY <1>12, <2>3, AttemptedType DEF Typed, Reconciled
  <2>. QED  BY <1>12, <2>1, <2>2, <2>3, <2>4 DEF Typed, Reconciled, services
<1>13. ASSUME NEW v \in Ids, LedgerProves(v) PROVE Typed'
  <2>1. quiet' \in [Ids -> Attempts]
    BY <1>13 DEF Typed, LedgerProves, Attempts
  <2>. QED  BY <1>13, <2>1 DEF Typed, LedgerProves, store, services
<1>14. ASSUME NEW v \in Ids, Doubt(v) PROVE Typed'
  <2>1. quiet' \in [Ids -> Attempts]
    BY <1>14 DEF Typed, Doubt, Attempts, NoAttempt
  <2>. QED  BY <1>14, <2>1 DEF Typed, Doubt, store, services
<1>15. ASSUME NEW v \in Ids, QuietRelease(v) PROVE Typed'
  <2>1. quiet' \in [Ids -> Attempts]
    BY <1>15 DEF Typed, QuietRelease, Attempts, NoAttempt
  <2>. QED  BY <1>15, <2>1 DEF Typed, QuietRelease, services, release
<1>16. ASSUME NEW v \in Ids, TestsBegin(v) PROVE Typed'
  BY <1>16 DEF Typed, TestsBegin, store, memory, Working
<1>17. ASSUME NEW v \in Ids, TestsRefused(v) PROVE Typed'
  <2>1. remote' \in [Ids -> Working \cup {"none", "tests-sent", "passed"}]
    BY <1>17 DEF Typed, TestsRefused, respond
  <2>. QED  BY <1>17, <2>1 DEF Typed, TestsRefused, store, memory
<1>18. ASSUME NEW v \in Ids, TestsEnd(v) PROVE Typed'
  <2>1. remote' \in [Ids -> Working \cup {"none", "tests-sent", "passed"}]
    BY <1>18 DEF Typed, TestsEnd, respond
  <2>. QED  BY <1>18, <2>1 DEF Typed, TestsEnd, store, memory
<1>19. ASSUME NEW v \in Ids, CodexDeclines(v) PROVE Typed'
  <2>1. remote' \in [Ids -> Working \cup {"none", "tests-sent", "passed"}]
    BY <1>19 DEF Typed, CodexDeclines, respond
  <2>. QED  BY <1>19, <2>1 DEF Typed, CodexDeclines, store, memory
<1>20. ASSUME NEW v \in Ids, CodexDispatches(v) PROVE Typed'
  BY <1>20 DEF Typed, CodexDispatches, store, memory, Working
<1>21. ASSUME NEW v \in Ids, DispatchEnds(v) PROVE Typed'
  <2>1. remote' \in [Ids -> Working \cup {"none", "tests-sent", "passed"}]
    BY <1>21 DEF Typed, DispatchEnds, respond
  <2>. QED  BY <1>21, <2>1 DEF Typed, DispatchEnds, store, memory
<1>22. ASSUME NEW d \in Admissions, beginDevelopmentAdmission(d) PROVE Typed'
  <2>1. row' \in [Ids -> Rows]
    BY <1>22 DEF Typed, beginDevelopmentAdmission
  <2>2. quiet' \in [Ids -> Attempts]
    BY <1>22, <2>1, AttemptedType DEF beginDevelopmentAdmission
  <2>. QED  BY <1>22, <2>1, <2>2 DEF Typed, beginDevelopmentAdmission, services
<1>23. ASSUME NEW d \in Admissions, RunAccepted(d) PROVE Typed'
  BY <1>23 DEF Typed, RunAccepted, store, memory, services
<1>24. ASSUME NEW d \in Admissions, ResponseFinishes(d) PROVE Typed'
  BY <1>24 DEF Typed, ResponseFinishes, memory, services, release
<1>25. ASSUME NEW d \in Admissions, CallerDisconnects(d) PROVE Typed'
  BY <1>25 DEF Typed, CallerDisconnects, store, memory, services
<1>26. ASSUME NEW d \in Admissions, RunEnds(d) PROVE Typed'
  BY <1>26 DEF Typed, RunEnds, store, memory, services
<1>27. CASE ClaimRefused
  <2>1. row' \in [Ids -> Rows]
    BY <1>27 DEF Typed, ClaimRefused, store
  <2>2. quiet' \in [Ids -> Attempts]
    BY <1>27, <2>1, AttemptedType DEF ClaimRefused
  <2>. QED  BY <1>27, <2>1, <2>2 DEF Typed, ClaimRefused, store, services
<1>28. CASE stop
  <2>1. \A v \in Ids : row'[v] \in Rows
    <3>1. ASSUME NEW v \in Ids PROVE row[v] \in Rows
      BY DEF Typed
    <3>2. ASSUME NEW v \in Ids PROVE row'[v] \in {row[v], [row[v] EXCEPT !.status = "interrupted"]}
      BY <1>28 DEF stop
    <3>. QED  BY <3>1, <3>2 DEF Rows, Statuses
  <2>2. row' \in [Ids -> Rows]
    BY <1>28, <2>1 DEF stop
  <2>3. \A v \in Ids : (exec[v].at # "none") \in BOOLEAN
    OBVIOUS
  <2>4. \A v \in Ids : [exec[v] EXCEPT !.aborted = exec[v].at # "none"] \in Executions
    BY <2>3, AbortedType DEF Typed
  <2>5. exec' \in [Ids -> Executions]
    BY <1>28, <2>4 DEF stop
  <2>. QED  BY <1>28, <2>1, <2>2, <2>3, <2>4, <2>5, CrashesAssumption DEF Typed, stop,
     services
<1>29. CASE Crash
  <2>1. exec' \in [Ids -> Executions]
    BY <1>29 DEF Crash, dies, NoExecution, Executions
  <2>2. quiet' \in [Ids -> Attempts]
    BY <1>29 DEF Crash, dies, NoAttempt, Attempts
  <2>3. remote' \in [Ids -> Working \cup {"none", "tests-sent", "passed"}]
    BY <1>29, AbandonedType DEF Crash, dies
  <2>. QED  BY <1>29, <2>1, <2>2, <2>3, CrashesAssumption DEF Typed, Crash, dies
<1>30. CASE Exit
  <2>1. exec' \in [Ids -> Executions]
    BY <1>30 DEF Exit, dies, NoExecution, Executions
  <2>2. quiet' \in [Ids -> Attempts]
    BY <1>30 DEF Exit, dies, NoAttempt, Attempts
  <2>3. remote' \in [Ids -> Working \cup {"none", "tests-sent", "passed"}]
    BY <1>30, AbandonedType DEF Exit, dies
  <2>. QED  BY <1>30, <2>1, <2>2, <2>3 DEF Typed, Exit, dies
<1>31. CASE Restart
  <2>1. \A v \in Ids : row'[v] \in Rows
    <3>1. ASSUME NEW v \in Ids PROVE row[v] \in Rows
      BY DEF Typed
    <3>2. ASSUME NEW v \in Ids PROVE row'[v] \in {row[v], [row[v] EXCEPT !.status = "interrupted"]}
      BY <1>31 DEF Restart
    <3>. QED  BY <3>1, <3>2 DEF Rows, Statuses
  <2>2. row' \in [Ids -> Rows]
    BY <1>31, <2>1 DEF Restart
  <2>3. quiet' \in [Ids -> Attempts]
    BY <1>31, <2>2, AttemptedType DEF Restart
  <2>. QED  BY <1>31, <2>1, <2>2, <2>3 DEF Typed, Restart, services, unreported
<1>32. CASE UNCHANGED vars
  BY <1>32 DEF Typed, store, memory, services, vars
<1>. QED
  BY <1>1, <1>2, <1>3, <1>4, <1>5, <1>6, <1>7, <1>8, <1>9, <1>10, <1>11, <1>12, <1>13,
     <1>14, <1>15, <1>16, <1>17, <1>18, <1>19, <1>20, <1>21, <1>22, <1>23, <1>24, <1>25,
     <1>26, <1>27, <1>28, <1>29, <1>30, <1>31, <1>32 DEF Next

-----------------------------------------------------------------------------
(***************************************************************************)
(* The inductive invariant.                                                *)
(***************************************************************************)
\* While it is active, executed or followed by work, v has the barrier.
Covered(v) ==
  /\ active(v) => gate = v
  /\ exec[v].at # "none" /\ v \notin lapsed => gate = v
  /\ remote[v] \in Working /\ v \notin lapsed \cup late => gate = v

\* What may be out in each phase of an execution.
Phase(v) ==
  /\ row[v].status = "none" => remote[v] = "none" /\ ~row[v].reached /\ exec[v].at = "none"
  /\ exec[v].at # "none" => row[v].status \notin {"none", "verified"}
  /\ exec[v].at = "queued" => remote[v] = "none" /\ ~row[v].reached
  /\ exec[v].at = "evidence" => ~row[v].reached
  /\ exec[v].at = "victoria" => remote[v] = "none"
  /\ remote[v] = "tests-sent" => exec[v].at = "evidence" \/ v \in late

\* What the ledger knows of the model's call.
Budget(v) ==
  /\ remote[v] \in {"model-sent", "dispatched"} => row[v].reached
  /\ ledger[v] # "unknown" => row[v].reached
  /\ remote[v] = "model-sent" => ledger[v] = "unknown"
  /\ remote[v] = "dispatched" => ledger[v] = "pending"

\* What an attempt to prove v quiet has excluded.
Proof(v) ==
  quiet[v].at # "none" =>
    /\ exec[v].at = "none"
    /\ row[v].status \notin ACTIVE \cup {"none"}
    /\ row[v].reached => quiet[v].reached
    /\ quiet[v].at = "runner" => remote[v] \notin {"model-sent", "dispatched"}

\* All that is known of one verification.
Good(v) == Covered(v) /\ Phase(v) /\ Budget(v) /\ Proof(v)

\* The inductive invariant.
Inv == TypeOK /\ \A v \in Ids : Good(v)

-----------------------------------------------------------------------------
(***************************************************************************)
(* Every step keeps the invariant.                                         *)
(***************************************************************************)
\* attempted() keeps an attempt, or begins one for a verification that is over.
LEMMA AttemptedIs ==
  ASSUME NEW S, NEW holder, NEW w \in Ids
  PROVE  \/ attempted(S, holder)[w] = quiet[w]
         \/ /\ attempted(S, holder)[w] = [at |-> "ledger", reached |-> reachedModel(row'[w])]
            /\ exec'[w].at = "none"
            /\ row'[w].status \notin ACTIVE \cup {"none"}
BY DEF attempted

\* An attempt that begins has excluded nothing yet, one that goes on nothing less.
LEMMA AttemptedProof ==
  ASSUME Typed, Typed', NEW S, NEW holder, NEW w \in Ids, Good(w),
         quiet'[w] \in {quiet[w], attempted(S, holder)[w]},
         remote'[w] \in {remote[w], "none", "passed"},
         quiet[w].at # "none" =>
            /\ exec'[w].at = "none"
            /\ row'[w].status \notin ACTIVE \cup {"none"}
            /\ row'[w].reached => row[w].reached
  PROVE  Proof(w)'
<1>1. CASE quiet'[w] = quiet[w]
  BY <1>1 DEF Good, Proof
<1>2. CASE /\ quiet'[w] = [at |-> "ledger", reached |-> reachedModel(row'[w])]
           /\ exec'[w].at = "none"
           /\ row'[w].status \notin ACTIVE \cup {"none"}
  <2>1. quiet'[w].at = "ledger" /\ quiet'[w].reached = reachedModel(row'[w])
    BY <1>2
  <2>2. row'[w].reached => reachedModel(row'[w])
    BY DEF reachedModel
  <2>3. row'[w].reached => quiet'[w].reached
    BY <2>1, <2>2, Zenon
  <2>. QED  BY <1>2, <2>1, <2>3 DEF Proof
<1>. QED  BY <1>1, <1>2, AttemptedIs

\* Every step keeps what is known of each verification.
LEMMA GoodStep ==
  ASSUME Typed, \A v \in Ids : Good(v), [Next]_vars
  PROVE  \A v \in Ids : Good(v)'
<1>t. Typed'
  BY TypeStep
<1>1. ASSUME NEW v \in Ids, Start(v) PROVE \A w \in Ids : Good(w)'
  <2>. SUFFICES ASSUME NEW w \in Ids PROVE Good(w)'
    OBVIOUS
  <2>. Good(w) /\ Good(v)
    OBVIOUS
  <2>1. Covered(w)'
    BY <1>1, <1>t, OwnersAssumption DEF Good, Covered, Start, claimable, outlived,
       services, active
  <2>2. Phase(w)'
    BY <1>1 DEF Good, Phase, Typed, Start, services, Queued, NoRecord
  <2>3. Budget(w)'
    BY <1>1 DEF Good, Budget, Phase, Start, services
  <2>4. Proof(w)'
    <3>1. quiet'[w] \in {quiet[w], attempted({gate}, gate)[w]}
      BY <1>1 DEF Start
    <3>2. remote'[w] \in {remote[w], "none", "passed"}
      BY <1>1 DEF Start, services
    <3>3. quiet[w].at # "none" =>
            /\ exec'[w].at = "none"
            /\ row'[w].status \notin ACTIVE \cup {"none"}
            /\ row'[w].reached => row[w].reached
      BY <1>1 DEF Good, Proof, Start
    <3>. QED  BY <1>t, <3>1, <3>2, <3>3, AttemptedProof
  <2>. QED  BY <2>1, <2>2, <2>3, <2>4 DEF Good
<1>2. ASSUME NEW v \in Ids, StartRefused(v) PROVE \A w \in Ids : Good(w)'
  <2>. SUFFICES ASSUME NEW w \in Ids PROVE Good(w)'
    OBVIOUS
  <2>. Good(w) /\ Good(v)
    OBVIOUS
  <2>1. Phase(w)' /\ Budget(w)'
    BY <1>2 DEF Good, Phase, Budget, StartRefused, services
  <2>2. Covered(w)'
    BY <1>2, <1>t, OwnersAssumption DEF Good, Covered, StartRefused, claimable, outlived,
       services, active
  <2>3. Proof(w)'
    <3>1. quiet'[w] \in {quiet[w], attempted({gate}, gate)[w]}
      BY <1>2 DEF StartRefused
    <3>2. remote'[w] \in {remote[w], "none", "passed"}
      BY <1>2 DEF StartRefused, services
    <3>3. quiet[w].at # "none" =>
            /\ exec'[w].at = "none"
            /\ row'[w].status \notin ACTIVE \cup {"none"}
            /\ row'[w].reached => row[w].reached
      BY <1>2 DEF Good, Proof, StartRefused
    <3>. QED  BY <1>t, <3>1, <3>2, <3>3, AttemptedProof
  <2>. QED  BY <2>1, <2>2, <2>3 DEF Good
<1>3. ASSUME NEW v \in Ids, status(v) PROVE \A w \in Ids : Good(w)'
  <2>. SUFFICES ASSUME NEW w \in Ids PROVE Good(w)'
    OBVIOUS
  <2>. Good(w) /\ Good(v)
    OBVIOUS
  <2>1. Covered(w)'
    <3>1. active(w)' => active(w)
      <4>1. [row[w] EXCEPT !.status = "failed", !.accepted = FALSE].status = "failed"
        BY DEF Typed, Rows
      <4>. QED  BY <1>3, <4>1, StatusRow DEF active, ACTIVE
    <3>2. UNCHANGED <<gate, exec, lapsed, remote, late>>
      BY <1>3 DEF status, services
    <3>. QED  BY <3>1, <3>2 DEF Good, Covered
  <2>2. Phase(w)'
    BY <1>3 DEF Good, Phase, Typed, status, Rows, services
  <2>3. Budget(w)'
    BY <1>3 DEF Good, Budget, Typed, status, Rows, services
  <2>4. Proof(w)'
    <3>1. quiet'[w] \in {quiet[w], attempted({v}, gate)[w]}
      BY <1>3 DEF status
    <3>2. remote'[w] \in {remote[w], "none", "passed"}
      BY <1>3 DEF status, services
    <3>3. quiet[w].at # "none" =>
            /\ exec'[w].at = "none"
            /\ row'[w].status \notin ACTIVE \cup {"none"}
            /\ row'[w].reached => row[w].reached
      BY <1>3, <1>t DEF Good, Proof, Typed, status, Rows, ACTIVE
    <3>. QED  BY <1>t, <3>1, <3>2, <3>3, AttemptedProof
  <2>. QED  BY <2>1, <2>2, <2>3, <2>4 DEF Good
<1>4. ASSUME NEW v \in Ids, cancel(v) PROVE \A w \in Ids : Good(w)'
  <2>. SUFFICES ASSUME NEW w \in Ids PROVE Good(w)'
    OBVIOUS
  <2>. Good(w) /\ Good(v)
    OBVIOUS
  <2>1. Covered(w)'
    BY <1>4 DEF Good, Covered, cancel, services, active
  <2>2. Phase(w)'
    BY <1>4 DEF Good, Phase, cancel, services
  <2>3. Budget(w)'
    BY <1>4 DEF Good, Budget, cancel, services
  <2>4. Proof(w)'
    <3>1. quiet'[w] \in {quiet[w], attempted({v}, gate)[w]}
      BY <1>4 DEF cancel
    <3>2. remote'[w] \in {remote[w], "none", "passed"}
      BY <1>4 DEF cancel, services
    <3>3. quiet[w].at # "none" =>
            /\ exec'[w].at = "none"
            /\ row'[w].status \notin ACTIVE \cup {"none"}
            /\ row'[w].reached => row[w].reached
      BY <1>4 DEF Good, Proof, cancel, ACTIVE
    <3>. QED  BY <1>t, <3>1, <3>2, <3>3, AttemptedProof
  <2>. QED  BY <2>1, <2>2, <2>3, <2>4 DEF Good
<1>5. ASSUME NEW v \in Ids, Attested(v) PROVE \A w \in Ids : Good(w)'
  <2>. SUFFICES ASSUME NEW w \in Ids PROVE Good(w)'
    OBVIOUS
  <2>. Good(w) /\ Good(v)
    OBVIOUS
  <2>1. Covered(w)'
    BY <1>5 DEF Good, Covered, Attested, guard, active
  <2>2. Phase(w)'
    BY <1>5 DEF Good, Phase, Typed, Attested
  <2>3. Budget(w)'
    BY <1>5 DEF Good, Budget, Attested
  <2>4. Proof(w)'
    BY <1>5 DEF Good, Proof, Attested
  <2>. QED  BY <2>1, <2>2, <2>3, <2>4 DEF Good
<1>6. ASSUME NEW v \in Ids, EvidenceRead(v) PROVE \A w \in Ids : Good(w)'
  <2>. SUFFICES ASSUME NEW w \in Ids PROVE Good(w)'
    OBVIOUS
  <2>. Good(w) /\ Good(v)
    OBVIOUS
  <2>1. Covered(w)'
    BY <1>6 DEF Good, Covered, Typed, EvidenceRead, guard, active
  <2>2. Phase(w)'
    BY <1>6 DEF Good, Phase, Typed, EvidenceRead
  <2>3. Budget(w)'
    BY <1>6 DEF Good, Budget, Phase, Typed, EvidenceRead
  <2>4. Proof(w)'
    BY <1>6 DEF Good, Proof, Typed, EvidenceRead
  <2>. QED  BY <2>1, <2>2, <2>3, <2>4 DEF Good
<1>7. ASSUME NEW v \in Ids, CodexRead(v) PROVE \A w \in Ids : Good(w)'
  <2>. SUFFICES ASSUME NEW w \in Ids PROVE Good(w)'
    OBVIOUS
  <2>. Good(w) /\ Good(v)
    OBVIOUS
  <2>1. Covered(w)'
    BY <1>7 DEF Good, Covered, Typed, CodexRead, guard, active
  <2>2. Phase(w)'
    BY <1>7 DEF Good, Phase, Typed, CodexRead
  <2>3. Budget(w)'
    BY <1>7 DEF Good, Budget, Typed, CodexRead
  <2>4. Proof(w)'
    BY <1>7 DEF Good, Proof, Typed, CodexRead
  <2>. QED  BY <2>1, <2>2, <2>3, <2>4 DEF Good
<1>8. ASSUME NEW v \in Ids, Accepted(v) PROVE \A w \in Ids : Good(w)'
  <2>. SUFFICES ASSUME NEW w \in Ids PROVE Good(w)'
    OBVIOUS
  <2>. Good(w) /\ Good(v)
    OBVIOUS
  <2>1. Covered(w)'
    BY <1>8, <1>t, OwnersAssumption DEF Good, Covered, Phase, Typed, Accepted, guard,
       ends, services, NoExecution, active, ACTIVE, Working
  <2>2. Phase(w)'
    BY <1>8 DEF Good, Phase, Typed, Accepted, ends, services, NoExecution
  <2>3. Budget(w)'
    BY <1>8 DEF Good, Budget, Typed, Accepted, services
  <2>4. Proof(w)'
    <3>1. quiet'[w] \in {quiet[w], attempted({v}, gate')[w]}
      BY <1>8 DEF Accepted, ends
    <3>2. remote'[w] \in {remote[w], "none", "passed"}
      BY <1>8 DEF Accepted, services
    <3>3. quiet[w].at # "none" =>
            /\ exec'[w].at = "none"
            /\ row'[w].status \notin ACTIVE \cup {"none"}
            /\ row'[w].reached => row[w].reached
      BY <1>8 DEF Good, Proof, Typed, Accepted, ends
    <3>. QED  BY <1>t, <3>1, <3>2, <3>3, AttemptedProof
  <2>. QED  BY <2>1, <2>2, <2>3, <2>4 DEF Good
<1>9. ASSUME NEW v \in Ids, Fails(v) PROVE \A w \in Ids : Good(w)'
  <2>. SUFFICES ASSUME NEW w \in Ids PROVE Good(w)'
    OBVIOUS
  <2>. Good(w) /\ Good(v)
    OBVIOUS
  <2>1. Covered(w)'
    BY <1>9, <1>t, OwnersAssumption DEF Good, Covered, Phase, Typed, Fails, release, ends,
       abandoned, NoExecution, active, ACTIVE, Working
  <2>2. Phase(w)'
    BY <1>9 DEF Good, Phase, Typed, Fails, ends, NoExecution
  <2>3. Budget(w)'
    BY <1>9 DEF Good, Budget, Typed, Fails, abandoned
  <2>4. Proof(w)'
    <3>1. quiet'[w] \in {quiet[w], attempted({v}, gate')[w]}
      BY <1>9 DEF Fails, ends
    <3>2. remote'[w] \in {remote[w], "none", "passed"}
      BY <1>9 DEF Fails, abandoned
    <3>3. quiet[w].at # "none" =>
            /\ exec'[w].at = "none"
            /\ row'[w].status \notin ACTIVE \cup {"none"}
            /\ row'[w].reached => row[w].reached
      BY <1>9 DEF Good, Proof, Typed, Fails, ends
    <3>. QED  BY <1>t, <3>1, <3>2, <3>3, AttemptedProof
  <2>. QED  BY <2>1, <2>2, <2>3, <2>4 DEF Good
<1>10. ASSUME NEW v \in Ids, DeadlineExceeded(v) PROVE \A w \in Ids : Good(w)'
  <2>. SUFFICES ASSUME NEW w \in Ids PROVE Good(w)'
    OBVIOUS
  <2>. Good(w) /\ Good(v)
    OBVIOUS
  <2>1. Covered(w)'
    BY <1>10 DEF Good, Covered, DeadlineExceeded, services, active
  <2>2. Phase(w)'
    BY <1>10 DEF Good, Phase, DeadlineExceeded, services
  <2>3. Budget(w)'
    BY <1>10 DEF Good, Budget, DeadlineExceeded, services
  <2>4. Proof(w)'
    BY <1>10 DEF Good, Proof, DeadlineExceeded, services
  <2>. QED  BY <2>1, <2>2, <2>3, <2>4 DEF Good
<1>11. ASSUME NEW v \in Ids, Lapse(v) PROVE \A w \in Ids : Good(w)'
  <2>. SUFFICES ASSUME NEW w \in Ids PROVE Good(w)'
    OBVIOUS
  <2>. Good(w) /\ Good(v)
    OBVIOUS
  <2>1. Phase(w)' /\ Budget(w)' /\ Proof(w)'
    BY <1>11 DEF Good, Phase, Budget, Proof, Lapse, store, memory, services
  <2>2. Covered(w)'
    BY <1>11 DEF Good, Covered, Lapse, store, memory, services, active
  <2>. QED  BY <2>1, <2>2 DEF Good
<1>12. ASSUME NEW v \in Ids, Reconciled(v) PROVE \A w \in Ids : Good(w)'
  <2>. SUFFICES ASSUME NEW w \in Ids PROVE Good(w)'
    OBVIOUS
  <2>. Good(w) /\ Good(v)
    OBVIOUS
  <2>1. Covered(w)'
    <3>1. row'[w].status = row[w].status
      BY <1>12 DEF Typed, Reconciled, Rows
    <3>2. UNCHANGED <<gate, exec, lapsed, remote, late>>
      BY <1>12 DEF Reconciled, services
    <3>. QED  BY <3>1, <3>2 DEF Good, Covered, active
  <2>2. Phase(w)'
    BY <1>12 DEF Good, Phase, Typed, Reconciled, Rows, services
  <2>3. Budget(w)'
    BY <1>12 DEF Good, Budget, Typed, Reconciled, Rows, services
  <2>4. Proof(w)'
    <3>1. quiet'[w] \in {quiet[w], attempted({v}, gate)[w]}
      BY <1>12 DEF Reconciled
    <3>2. remote'[w] \in {remote[w], "none", "passed"}
      BY <1>12 DEF Reconciled, services
    <3>3. quiet[w].at # "none" =>
            /\ exec'[w].at = "none"
            /\ row'[w].status \notin ACTIVE \cup {"none"}
            /\ row'[w].reached => row[w].reached
      BY <1>12 DEF Good, Proof, Typed, Reconciled, Rows, ACTIVE
    <3>. QED  BY <1>t, <3>1, <3>2, <3>3, AttemptedProof
  <2>. QED  BY <2>1, <2>2, <2>3, <2>4 DEF Good
<1>13. ASSUME NEW v \in Ids, LedgerProves(v) PROVE \A w \in Ids : Good(w)'
  <2>. SUFFICES ASSUME NEW w \in Ids PROVE Good(w)'
    OBVIOUS
  <2>. Good(w) /\ Good(v)
    OBVIOUS
  <2>1. Covered(w)' /\ Phase(w)' /\ Budget(w)'
    BY <1>13 DEF Good, Covered, Phase, Budget, active, LedgerProves, store, services
  <2>2. Proof(w)'
    BY <1>13 DEF Good, Proof, Budget, LedgerProves, store, services, modelQuiet
  <2>. QED  BY <2>1, <2>2 DEF Good
<1>14. ASSUME NEW v \in Ids, Doubt(v) PROVE \A w \in Ids : Good(w)'
  <2>. SUFFICES ASSUME NEW w \in Ids PROVE Good(w)'
    OBVIOUS
  <2>. Good(w) /\ Good(v)
    OBVIOUS
  <2>1. Covered(w)' /\ Phase(w)' /\ Budget(w)'
    BY <1>14 DEF Good, Covered, Phase, Budget, active, Doubt, store, services
  <2>2. Proof(w)'
    BY <1>14 DEF Good, Proof, Doubt, store, services, NoAttempt
  <2>. QED  BY <2>1, <2>2 DEF Good
<1>15. ASSUME NEW v \in Ids, QuietRelease(v) PROVE \A w \in Ids : Good(w)'
  <2>. SUFFICES ASSUME NEW w \in Ids PROVE Good(w)'
    OBVIOUS
  <2>. Good(w) /\ Good(v)
    OBVIOUS
  <2>1. Phase(w)' /\ Budget(w)'
    BY <1>15 DEF Good, Phase, Budget, QuietRelease, services
  <2>2. Covered(w)'
    BY <1>15, <1>t, OwnersAssumption DEF Good, Covered, Proof, QuietRelease, release,
       services, active, Working
  <2>3. Proof(w)'
    BY <1>15 DEF Good, Proof, QuietRelease, services, NoAttempt
  <2>. QED  BY <2>1, <2>2, <2>3 DEF Good
<1>16. ASSUME NEW v \in Ids, TestsBegin(v) PROVE \A w \in Ids : Good(w)'
  <2>. SUFFICES ASSUME NEW w \in Ids PROVE Good(w)'
    OBVIOUS
  <2>. Good(w) /\ Good(v)
    OBVIOUS
  <2>1. Covered(w)'
    BY <1>16 DEF Good, Covered, Phase, TestsBegin, store, memory, active
  <2>2. Phase(w)'
    BY <1>16 DEF Good, Phase, TestsBegin, store, memory
  <2>3. Budget(w)'
    BY <1>16 DEF Good, Budget, TestsBegin, store
  <2>4. Proof(w)'
    BY <1>16 DEF Good, Proof, TestsBegin, store, memory
  <2>. QED  BY <2>1, <2>2, <2>3, <2>4 DEF Good
<1>17. ASSUME NEW v \in Ids, TestsRefused(v) PROVE \A w \in Ids : Good(w)'
  <2>. SUFFICES ASSUME NEW w \in Ids PROVE Good(w)'
    OBVIOUS
  <2>. Good(w) /\ Good(v)
    OBVIOUS
  <2>1. Covered(w)'
    BY <1>17 DEF Good, Covered, TestsRefused, respond, store, memory, active, Working
  <2>2. Phase(w)'
    BY <1>17 DEF Good, Phase, TestsRefused, respond, store, memory
  <2>3. Budget(w)'
    BY <1>17 DEF Good, Budget, TestsRefused, respond, store
  <2>4. Proof(w)'
    BY <1>17 DEF Good, Proof, TestsRefused, respond, store, memory
  <2>. QED  BY <2>1, <2>2, <2>3, <2>4 DEF Good
<1>18. ASSUME NEW v \in Ids, TestsEnd(v) PROVE \A w \in Ids : Good(w)'
  <2>. SUFFICES ASSUME NEW w \in Ids PROVE Good(w)'
    OBVIOUS
  <2>. Good(w) /\ Good(v)
    OBVIOUS
  <2>1. Covered(w)'
    BY <1>18 DEF Good, Covered, TestsEnd, respond, store, memory, active, Working
  <2>2. Phase(w)'
    BY <1>18 DEF Good, Phase, TestsEnd, respond, store, memory
  <2>3. Budget(w)'
    BY <1>18 DEF Good, Budget, TestsEnd, respond, store
  <2>4. Proof(w)'
    BY <1>18 DEF Good, Proof, TestsEnd, respond, store, memory
  <2>. QED  BY <2>1, <2>2, <2>3, <2>4 DEF Good
<1>19. ASSUME NEW v \in Ids, CodexDeclines(v) PROVE \A w \in Ids : Good(w)'
  <2>. SUFFICES ASSUME NEW w \in Ids PROVE Good(w)'
    OBVIOUS
  <2>. Good(w) /\ Good(v)
    OBVIOUS
  <2>1. Covered(w)'
    BY <1>19 DEF Good, Covered, CodexDeclines, respond, store, memory, active, Working
  <2>2. Phase(w)'
    BY <1>19 DEF Good, Phase, CodexDeclines, respond, store, memory
  <2>3. Budget(w)'
    BY <1>19 DEF Good, Budget, CodexDeclines, respond, store
  <2>4. Proof(w)'
    BY <1>19 DEF Good, Proof, CodexDeclines, respond, store, memory
  <2>. QED  BY <2>1, <2>2, <2>3, <2>4 DEF Good
<1>20. ASSUME NEW v \in Ids, CodexDispatches(v) PROVE \A w \in Ids : Good(w)'
  <2>. SUFFICES ASSUME NEW w \in Ids PROVE Good(w)'
    OBVIOUS
  <2>. Good(w) /\ Good(v)
    OBVIOUS
  <2>1. Covered(w)'
    BY <1>20 DEF Good, Covered, CodexDispatches, store, memory, active, Working
  <2>2. Phase(w)'
    BY <1>20 DEF Good, Phase, CodexDispatches, store, memory
  <2>3. Budget(w)'
    BY <1>20 DEF Good, Budget, Typed, CodexDispatches, store
  <2>4. Proof(w)'
    BY <1>20 DEF Good, Proof, CodexDispatches, store, memory
  <2>. QED  BY <2>1, <2>2, <2>3, <2>4 DEF Good
<1>21. ASSUME NEW v \in Ids, DispatchEnds(v) PROVE \A w \in Ids : Good(w)'
  <2>. SUFFICES ASSUME NEW w \in Ids PROVE Good(w)'
    OBVIOUS
  <2>. Good(w) /\ Good(v)
    OBVIOUS
  <2>1. Covered(w)'
    BY <1>21 DEF Good, Covered, Typed, DispatchEnds, respond, store, memory, active
  <2>2. Phase(w)'
    BY <1>21 DEF Good, Phase, Typed, DispatchEnds, respond, store, memory
  <2>3. Budget(w)'
    BY <1>21 DEF Good, Budget, Typed, DispatchEnds, respond, store
  <2>4. Proof(w)'
    BY <1>21 DEF Good, Proof, Typed, DispatchEnds, respond, store, memory
  <2>. QED  BY <2>1, <2>2, <2>3, <2>4 DEF Good
<1>22. ASSUME NEW d \in Admissions, beginDevelopmentAdmission(d) PROVE \A w \in Ids : Good(w)'
  <2>. SUFFICES ASSUME NEW w \in Ids PROVE Good(w)'
    OBVIOUS
  <2>. Good(w)
    OBVIOUS
  <2>1. Phase(w)' /\ Budget(w)'
    BY <1>22 DEF Good, Phase, Budget, beginDevelopmentAdmission, services
  <2>2. Covered(w)'
    BY <1>22, <1>t, OwnersAssumption DEF Good, Covered, beginDevelopmentAdmission,
       claimable, outlived, services, active
  <2>3. Proof(w)'
    <3>1. quiet'[w] \in {quiet[w], attempted({gate}, gate)[w]}
      BY <1>22 DEF beginDevelopmentAdmission
    <3>2. remote'[w] \in {remote[w], "none", "passed"}
      BY <1>22 DEF beginDevelopmentAdmission, services
    <3>3. quiet[w].at # "none" =>
            /\ exec'[w].at = "none"
            /\ row'[w].status \notin ACTIVE \cup {"none"}
            /\ row'[w].reached => row[w].reached
      BY <1>22 DEF Good, Proof, beginDevelopmentAdmission
    <3>. QED  BY <1>t, <3>1, <3>2, <3>3, AttemptedProof
  <2>. QED  BY <2>1, <2>2, <2>3 DEF Good
<1>23. ASSUME NEW d \in Admissions, RunAccepted(d) PROVE \A w \in Ids : Good(w)'
  BY <1>23 DEF Good, Covered, Phase, Budget, Proof, active, RunAccepted, store, memory,
     services
<1>24. ASSUME NEW d \in Admissions, ResponseFinishes(d) PROVE \A w \in Ids : Good(w)'
  <2>. SUFFICES ASSUME NEW w \in Ids PROVE Good(w)'
    OBVIOUS
  <2>. Good(w)
    OBVIOUS
  <2>1. Phase(w)' /\ Budget(w)' /\ Proof(w)'
    BY <1>24 DEF Good, Phase, Budget, Proof, ResponseFinishes, memory, services
  <2>2. Covered(w)'
    BY <1>24, <1>t, OwnersAssumption DEF Good, Covered, ResponseFinishes, release, memory,
       services, active
  <2>. QED  BY <2>1, <2>2 DEF Good
<1>25. ASSUME NEW d \in Admissions, CallerDisconnects(d) PROVE \A w \in Ids : Good(w)'
  BY <1>25 DEF Good, Covered, Phase, Budget, Proof, active, CallerDisconnects, store,
     memory, services
<1>26. ASSUME NEW d \in Admissions, RunEnds(d) PROVE \A w \in Ids : Good(w)'
  BY <1>26 DEF Good, Covered, Phase, Budget, Proof, active, RunEnds, store, memory, services
<1>27. ASSUME ClaimRefused PROVE \A w \in Ids : Good(w)'
  <2>. SUFFICES ASSUME NEW w \in Ids PROVE Good(w)'
    OBVIOUS
  <2>. Good(w)
    OBVIOUS
  <2>1. Covered(w)' /\ Phase(w)' /\ Budget(w)'
    BY <1>27 DEF Good, Covered, Phase, Budget, active, ClaimRefused, store, services
  <2>2. Proof(w)'
    <3>1. quiet'[w] \in {quiet[w], attempted({gate}, gate)[w]}
      BY <1>27 DEF ClaimRefused
    <3>2. remote'[w] \in {remote[w], "none", "passed"}
      BY <1>27 DEF ClaimRefused, services
    <3>3. quiet[w].at # "none" =>
            /\ exec'[w].at = "none"
            /\ row'[w].status \notin ACTIVE \cup {"none"}
            /\ row'[w].reached => row[w].reached
      BY <1>27 DEF Good, Proof, ClaimRefused, store
    <3>. QED  BY <1>t, <3>1, <3>2, <3>3, AttemptedProof
  <2>. QED  BY <2>1, <2>2 DEF Good
<1>28. ASSUME stop PROVE \A w \in Ids : Good(w)'
  <2>. SUFFICES ASSUME NEW w \in Ids PROVE Good(w)'
    OBVIOUS
  <2>. Good(w)
    OBVIOUS
  <2>1. Covered(w)'
    BY <1>28 DEF Good, Covered, Typed, stop, Executions, services, active
  <2>2. Phase(w)'
    BY <1>28 DEF Good, Phase, Typed, stop, Executions, services
  <2>3. Budget(w)'
    BY <1>28 DEF Good, Budget, stop, services
  <2>4. Proof(w)'
    BY <1>28 DEF Good, Proof, Typed, stop, Executions, services
  <2>. QED  BY <2>1, <2>2, <2>3, <2>4 DEF Good
<1>29. ASSUME Crash PROVE \A w \in Ids : Good(w)'
  <2>. SUFFICES ASSUME NEW w \in Ids PROVE Good(w)'
    OBVIOUS
  <2>. Good(w)
    OBVIOUS
  <2>1. Covered(w)'
    BY <1>29 DEF Good, Covered, Crash, abandoned, dies, NoExecution, active, Working
  <2>2. Phase(w)'
    BY <1>29 DEF Good, Phase, Crash, abandoned, dies, NoExecution
  <2>3. Budget(w)'
    BY <1>29 DEF Good, Budget, Crash, abandoned, dies
  <2>4. Proof(w)'
    BY <1>29 DEF Good, Proof, Crash, dies, NoAttempt
  <2>. QED  BY <2>1, <2>2, <2>3, <2>4 DEF Good
<1>30. ASSUME Exit PROVE \A w \in Ids : Good(w)'
  <2>. SUFFICES ASSUME NEW w \in Ids PROVE Good(w)'
    OBVIOUS
  <2>. Good(w)
    OBVIOUS
  <2>1. Covered(w)'
    BY <1>30 DEF Good, Covered, Exit, abandoned, dies, NoExecution, active, Working
  <2>2. Phase(w)'
    BY <1>30 DEF Good, Phase, Exit, abandoned, dies, NoExecution
  <2>3. Budget(w)'
    BY <1>30 DEF Good, Budget, Exit, abandoned, dies
  <2>4. Proof(w)'
    BY <1>30 DEF Good, Proof, Exit, dies, NoAttempt
  <2>. QED  BY <2>1, <2>2, <2>3, <2>4 DEF Good
<1>31. ASSUME Restart PROVE \A w \in Ids : Good(w)'
  <2>. SUFFICES ASSUME NEW w \in Ids PROVE Good(w)'
    OBVIOUS
  <2>. Good(w)
    OBVIOUS
  <2>1. Covered(w)'
    BY <1>31 DEF Good, Covered, Restart, services, active
  <2>2. Phase(w)'
    BY <1>31 DEF Good, Phase, Restart, services
  <2>3. Budget(w)'
    BY <1>31 DEF Good, Budget, Restart, services
  <2>4. Proof(w)'
    <3>1. quiet'[w] \in {quiet[w], attempted(Ids, gate)[w]}
      BY <1>31 DEF Restart
    <3>2. remote'[w] \in {remote[w], "none", "passed"}
      BY <1>31 DEF Restart, services
    <3>3. quiet[w].at # "none" =>
            /\ exec'[w].at = "none"
            /\ row'[w].status \notin ACTIVE \cup {"none"}
            /\ row'[w].reached => row[w].reached
      BY <1>31 DEF Good, Proof, Restart, ACTIVE
    <3>. QED  BY <1>t, <3>1, <3>2, <3>3, AttemptedProof
  <2>. QED  BY <2>1, <2>2, <2>3, <2>4 DEF Good
<1>32. CASE UNCHANGED vars
  BY <1>32 DEF Good, Covered, Phase, Budget, Proof, active, vars, store, memory, services
<1>. QED
  BY <1>1, <1>2, <1>3, <1>4, <1>5, <1>6, <1>7, <1>8, <1>9, <1>10, <1>11, <1>12, <1>13,
     <1>14, <1>15, <1>16, <1>17, <1>18, <1>19, <1>20, <1>21, <1>22, <1>23, <1>24, <1>25,
     <1>26, <1>27, <1>28, <1>29, <1>30, <1>31, <1>32 DEF Next

\* The invariant holds in every reachable state.
LEMMA InvariantHolds == Spec => []Inv
<1>1. Init => Inv
  <2>. SUFFICES ASSUME Init PROVE Inv
    OBVIOUS
  <2>1. Typed
    BY CrashesAssumption DEF Init, Typed, Rows, Statuses, Executions, Attempts, NoRecord,
       NoExecution, NoAttempt
  <2>2. \A v \in Ids : Good(v)
    BY DEF Init, Good, Covered, Phase, Budget, Proof, active, ACTIVE, Working, NoRecord,
       NoExecution, NoAttempt
  <2>. QED  BY <2>1, <2>2, TypeIs DEF Inv
<1>2. Inv /\ [Next]_vars => Inv'
  <2>. SUFFICES ASSUME Inv, [Next]_vars PROVE Inv'
    OBVIOUS
  <2>1. Typed /\ \A v \in Ids : Good(v)
    BY TypeIs DEF Inv
  <2>2. Typed'
    BY <2>1, TypeStep
  <2>3. \A v \in Ids : Good(v)'
    BY <2>1, GoodStep
  <2>4. TypeOK'
    BY <2>2 DEF TypeOK, Typed, Rows, Statuses, Executions, Attempts
  <2>. QED  BY <2>3, <2>4 DEF Inv
<1>. QED  BY <1>1, <1>2, PTL DEF Spec

-----------------------------------------------------------------------------
(***************************************************************************)
(* The theorems.                                                           *)
(***************************************************************************)
\* Type correctness of existing-commit-verification.ts and the services.
THEOREM TypeCorrect == Spec => []TypeOK
<1>1. Inv => TypeOK
  BY DEF Inv
<1>. QED  BY <1>1, InvariantHolds, PTL

\* Until its deadline the worktree is reserved for a verification that is active
\* or whose tests or model call may still be running: release(), claim() and
\* attemptQuietRelease() never give it away under them.
THEOREM BarrierCovers == Spec => []BarrierCoversWork
<1>1. Inv => BarrierCoversWork
  BY DEF Inv, Good, Covered, BarrierCoversWork
<1>. QED  BY <1>1, InvariantHolds, PTL

\* What VerdictIsFinal says of one verification.
Final(v) ==
  row[v].status \in {"verified", "failed", "cancelled", "interrupted"} =>
    row'[v].status = row[v].status
    \/ (row[v].status = "verified" /\ row'[v].status = "failed")

\* A late answer never turns a verification that is over into a verified one:
\* guard() reads the row after every await.
THEOREM VerdictsAreFinal == Spec => VerdictIsFinal
<1>1. ASSUME TypeOK, [Next]_vars
      PROVE  \A w \in Ids : Final(w)
  <2>. Typed /\ Typed'
    BY <1>1, TypeIs, TypeStep
  <2>1. ASSUME NEW v \in Ids, Start(v) PROVE \A w \in Ids : Final(w)
    BY <2>1 DEF Final, Start
  <2>2. ASSUME NEW v \in Ids, status(v) PROVE \A w \in Ids : Final(w)
    <3>1. \A w \in Ids :
            [row[w] EXCEPT !.status = "failed", !.accepted = FALSE].status = "failed"
      BY DEF Typed, Rows
    <3>. QED  BY <2>2, <3>1, StatusRow DEF Final
  <2>3. ASSUME NEW v \in Ids, cancel(v) PROVE \A w \in Ids : Final(w)
    BY <2>3 DEF Final, cancel, active, ACTIVE
  <2>4. ASSUME NEW v \in Ids, Attested(v) PROVE \A w \in Ids : Final(w)
    BY <2>4 DEF Final, Attested, guard, active, ACTIVE
  <2>5. ASSUME NEW v \in Ids, EvidenceRead(v) PROVE \A w \in Ids : Final(w)
    BY <2>5 DEF Final, Typed, EvidenceRead, guard, active, ACTIVE
  <2>6. ASSUME NEW v \in Ids, CodexRead(v) PROVE \A w \in Ids : Final(w)
    BY <2>6 DEF Final, Typed, CodexRead, guard, active, ACTIVE
  <2>7. ASSUME NEW v \in Ids, Accepted(v) PROVE \A w \in Ids : Final(w)
    BY <2>7 DEF Final, Typed, Accepted, guard, active, ACTIVE
  <2>8. ASSUME NEW v \in Ids, Fails(v) PROVE \A w \in Ids : Final(w)
    BY <2>8 DEF Final, Typed, Fails, active, ACTIVE
  <2>9. ASSUME NEW v \in Ids, DeadlineExceeded(v) PROVE \A w \in Ids : Final(w)
    BY <2>9 DEF Final, DeadlineExceeded, active, ACTIVE
  <2>10. ASSUME NEW v \in Ids, Reconciled(v) PROVE \A w \in Ids : Final(w)
    BY <2>10 DEF Final, Typed, Reconciled, Rows
  <2>11. CASE stop
    BY <2>11 DEF Final, stop, active, ACTIVE
  <2>12. CASE Restart
    BY <2>12 DEF Final, Restart, active, ACTIVE
  <2>13. CASE UNCHANGED row
    BY <2>13 DEF Final
  <2>. QED
    BY <1>1, <2>1, <2>2, <2>3, <2>4, <2>5, <2>6, <2>7, <2>8, <2>9, <2>10, <2>11, <2>12,
       <2>13 DEF Next, StartRefused, Lapse, LedgerProves, Doubt, QuietRelease, TestsBegin,
       TestsRefused, TestsEnd, CodexDeclines, CodexDispatches, DispatchEnds,
       beginDevelopmentAdmission, RunAccepted, ResponseFinishes, CallerDisconnects,
       RunEnds, ClaimRefused, Crash, Exit, dies, vars, store
<1>2. TypeOK /\ [Next]_vars =>
        [\A v \in Ids :
           row[v].status \in {"verified", "failed", "cancelled", "interrupted"} =>
             row'[v].status = row[v].status
             \/ (row[v].status = "verified" /\ row'[v].status = "failed")]_vars
  BY <1>1 DEF Final
<1>. QED  BY <1>2, TypeCorrect, PTL DEF VerdictIsFinal, Spec

----------------------------------------------------------------------------
(***************************************************************************)
(* The knowledge plane: what is held, what is acknowledged, what is cited. *)
(***************************************************************************)

Contents(R) == {r.content : r \in R}

\* A row is a chunk of a document that may be held.
RowOk(r) ==
  /\ r.document \in Documents /\ r.document.form = "ok"
  /\ r.chunk \in DOMAIN r.document.chunks /\ r.content = r.document.chunks[r.chunk]
  /\ r.classification \in DOMAIN CLASSIFICATION_RANK
  /\ within(r.classification, storeCeiling)

\* No document is held in part.
RowsOk(R) == \A r \in R : RowOk(r) /\ Range(r.document.chunks) \subseteq Contents(R)

\* What an acknowledgement of d promises of the contents C.
Acked(d, outcome, C) ==
  /\ outcome = "ingested" => Range(d.chunks) \subseteq C
  /\ outcome = "duplicate" =>
        /\ Head(d.chunks) \in C
        /\ \/ Range(d.chunks) \subseteq C
           \/ \E e \in Documents \ {d} : Head(d.chunks) \in Range(e.chunks)

AllAcked(documents, out, C) == \A i \in DOMAIN out : Acked(documents[i], out[i], C)

Screened(d) == d.form \in {"ok", "blank_chunk"}

Outcomes == {"ingested", "duplicate", "refused", "quarantined", "degraded"}

\* An ingestion at place pc of the documents, so far with the outcomes out.
IngestOk(pc, documents, out, C) ==
  /\ pc \in {"init", "store", "embedder", "next", "embed", "done"}
  /\ documents \in Seq(Documents) /\ out \in Seq(Outcomes)
  /\ AllAcked(documents, out, C)
  /\ Len(out) <= Len(documents)
  /\ pc # "done" => Len(out) < Len(documents)
  /\ pc = "embed" => Screened(documents[Len(out) + 1])

\* A row that an answer of plane p may cite at this confidentiality.
Citable(r, p, confidentiality) ==
  /\ r.document.form = "ok"
  /\ r.classification \in DOMAIN CLASSIFICATION_RANK
  /\ within(r.classification, storeCeiling)
  /\ p = "bridge" => within(r.classification, classificationCeilingFor(confidentiality))

QueryOk(pc, p, q, out) ==
  /\ pc \in {"init", "store", "embedder", "query", "search", "hydrate", "done"}
  /\ q \in Queries
  /\ pc = "done" => \A r \in out.results : Citable(r, p, q.confidentiality)

StatusOk(pc) == pc \in {"init", "store", "embedder", "status", "done"}

Fields == {"pc", "plane", "req", "reachable", "writable", "level", "out", "hits", "origin",
           "operational"}

JobOk(jb, C) ==
  \/ jb.pc = "idle"
  \/ /\ jb.pc # "idle" /\ DOMAIN jb = Fields
     /\ \/ jb.req.kind = "ingest" /\ IngestOk(jb.pc, jb.req.documents, jb.out, C)
        \/ jb.req.kind = "query" /\ QueryOk(jb.pc, jb.plane, jb.req.query, jb.out)
        \/ jb.req.kind = "status" /\ StatusOk(jb.pc)

KnowledgeInv ==
  /\ RowsOk(rows)
  /\ DOMAIN job = Jobs
  /\ \A j \in Jobs : JobOk(job[j], Contents(rows))

LEMMA Ranked ==
  /\ DOMAIN CLASSIFICATION_RANK = {"PUBLIC", "INTERNAL", "CONFIDENTIAL", "RESTRICTED"}
  /\ CLASSIFICATION_RANK["PUBLIC"] = 1 /\ CLASSIFICATION_RANK["INTERNAL"] = 2
  /\ CLASSIFICATION_RANK["CONFIDENTIAL"] = 3 /\ CLASSIFICATION_RANK["RESTRICTED"] = 4
<1>1. /\ Classifications[1] = "PUBLIC" /\ Classifications[2] = "INTERNAL"
      /\ Classifications[3] = "CONFIDENTIAL" /\ Classifications[4] = "RESTRICTED"
  BY DEF Classifications
<1>2. ASSUME NEW c \in {"PUBLIC", "INTERNAL", "CONFIDENTIAL", "RESTRICTED"}
      PROVE  \E i \in 1 .. 4 : Classifications[i] = c
  BY <1>1
<1>3. ASSUME NEW c \in {"PUBLIC", "INTERNAL", "CONFIDENTIAL", "RESTRICTED"}
      PROVE  \E i \in 1 .. 4 : Classifications[i] = c /\ CLASSIFICATION_RANK[c] = i
  BY <1>2 DEF CLASSIFICATION_RANK
<1>4. DOMAIN CLASSIFICATION_RANK = {"PUBLIC", "INTERNAL", "CONFIDENTIAL", "RESTRICTED"}
  BY DEF CLASSIFICATION_RANK
<1>5. QED  BY <1>1, <1>3, <1>4

\* The bridge's ceiling admits what the confidentiality is cleared for.
LEMMA WithinIsCleared ==
  ASSUME NEW c \in DOMAIN CLASSIFICATION_RANK,
         NEW q \in {"public", "internal", "restricted", "sovereign"},
         within(c, classificationCeilingFor(q))
  PROVE  c \in cleared[q]
BY Ranked DEF within, classificationCeilingFor, cleared

\* What is promised stays kept as long as the contents do.
LEMMA AckedStays ==
  ASSUME NEW C, NEW D, C \subseteq D, NEW documents, NEW out, AllAcked(documents, out, C)
  PROVE  AllAcked(documents, out, D)
BY DEF AllAcked, Acked

LEMMA JobStays ==
  ASSUME NEW C, NEW D, C \subseteq D, NEW jb, JobOk(jb, C)
  PROVE  JobOk(jb, D)
BY AckedStays DEF JobOk, IngestOk

\* A request's next state.
LEMMA JobStep ==
  ASSUME KnowledgeInv, NEW j \in Jobs, NEW jb, job' = [job EXCEPT ![j] = jb],
         Contents(rows) \subseteq Contents(rows'), RowsOk(rows'), JobOk(jb, Contents(rows'))
  PROVE  KnowledgeInv'
<1>1. DOMAIN job' = Jobs /\ job'[j] = jb /\ \A i \in Jobs \ {j} : job'[i] = job[i]
  BY DEF KnowledgeInv
<1>2. \A i \in Jobs : JobOk(job'[i], Contents(rows'))
  BY <1>1, JobStays DEF KnowledgeInv
<1>3. (RowsOk(rows))' /\ (DOMAIN job = Jobs)' /\ (\A i \in Jobs : JobOk(job[i], Contents(rows)))'
  BY <1>1, <1>2
<1>4. QED  BY <1>3 DEF KnowledgeInv

LEMMA OtherStep ==
  ASSUME KnowledgeInv, UNCHANGED job, Contents(rows) \subseteq Contents(rows'), RowsOk(rows')
  PROVE  KnowledgeInv'
<1>1. \A i \in Jobs : JobOk(job'[i], Contents(rows'))
  BY JobStays DEF KnowledgeInv
<1>2. (RowsOk(rows))' /\ (DOMAIN job = Jobs)' /\ (\A i \in Jobs : JobOk(job[i], Contents(rows)))'
  BY <1>1 DEF KnowledgeInv
<1>3. QED  BY <1>2 DEF KnowledgeInv

\* The level a request remembers is not what its promises depend on.
LEMMA LevelKept ==
  ASSUME NEW C, NEW jb, JobOk(jb, C), NEW level
  PROVE  JobOk([jb EXCEPT !.level = level], C)
<1> DEFINE nb == [jb EXCEPT !.level = level]
<1>1. CASE jb.pc = "idle"
  <2>1. nb.pc = "idle"  BY <1>1
  <2>2. QED  BY <2>1 DEF JobOk
<1>2. CASE jb.pc # "idle"
  <2>1. DOMAIN jb = Fields /\ jb.pc # "idle"  BY <1>2 DEF JobOk
  <2>2. /\ DOMAIN nb = Fields /\ nb.pc = jb.pc /\ nb.req = jb.req /\ nb.out = jb.out
        /\ nb.plane = jb.plane
    BY <2>1 DEF Fields
  <2> HIDE DEF nb
  <2>3. JobOk(nb, C)  BY <1>2, <2>2 DEF JobOk
  <2>4. QED  BY <2>3 DEF nb
<1>3. QED  BY <1>1, <1>2

LEMMA AppendAcked ==
  ASSUME NEW C, NEW documents \in Seq(Documents), NEW out \in Seq(Outcomes),
         Len(out) < Len(documents), AllAcked(documents, out, C),
         NEW outcome \in Outcomes, Acked(documents[Len(out) + 1], outcome, C)
  PROVE  /\ Append(out, outcome) \in Seq(Outcomes) /\ Len(Append(out, outcome)) = Len(out) + 1
         /\ AllAcked(documents, Append(out, outcome), C)
<1>1. PICK new : new = Append(out, outcome)  OBVIOUS
<1>2. new \in Seq(Outcomes) /\ Len(new) = Len(out) + 1
  BY <1>1
<1>3. /\ \A i \in 1 .. Len(out) : new[i] = out[i]
      /\ new[Len(out) + 1] = outcome
  BY <1>1
<1>4. DOMAIN new = 1 .. Len(out) + 1 /\ DOMAIN out = 1 .. Len(out) /\ Len(out) \in Nat
  BY <1>2
<1>5. ASSUME NEW i \in DOMAIN new PROVE Acked(documents[i], new[i], C)
  <2>1. CASE i \in 1 .. Len(out)
    BY <1>3, <1>4, <2>1 DEF AllAcked
  <2>2. CASE i = Len(out) + 1
    BY <1>3, <2>2
  <2>3. QED  BY <1>4, <2>1, <2>2
<1>6. QED  BY <1>1, <1>2, <1>5 DEF AllAcked

LEMMA ConcatenatedSeq ==
  ASSUME NEW S, NEW s \in Seq(S), NEW t \in Seq(S)
  PROVE  s \o t \in Seq(S) /\ Len(s \o t) = Len(s) + Len(t)
OBVIOUS

\* The documents after a stop are reported refused: that acknowledges nothing.
LEMMA PaddedAcked ==
  ASSUME NEW C, NEW documents, NEW out \in Seq(Outcomes), AllAcked(documents, out, C), NEW n \in Nat
  PROVE  /\ out \o [i \in 1 .. n |-> "refused"] \in Seq(Outcomes)
         /\ Len(out \o [i \in 1 .. n |-> "refused"]) = Len(out) + n
         /\ AllAcked(documents, out \o [i \in 1 .. n |-> "refused"], C)
<1>1. PICK rest : rest = [i \in 1 .. n |-> "refused"]  OBVIOUS
<1>2. "refused" \in Outcomes  BY DEF Outcomes
<1>3. rest \in [1 .. n -> Outcomes]  BY <1>1, <1>2
<1>4. rest \in Seq(Outcomes) /\ Len(rest) = n  BY <1>3
<1>5. rest \in Seq(Outcomes) /\ Len(rest) = n /\ \A i \in 1 .. n : rest[i] = "refused"
  BY <1>1, <1>4
<1>6. PICK new : new = out \o rest  OBVIOUS
<1>7. new \in Seq(Outcomes) /\ Len(new) = Len(out) + Len(rest)
  BY <1>4, <1>6, ConcatenatedSeq
<1>8. Len(out) \in Nat  OBVIOUS
<1>9. new \in Seq(Outcomes) /\ Len(new) = Len(out) + n /\ Len(out) \in Nat
  BY <1>7, <1>8, <1>4
<1>10. /\ DOMAIN new = 1 .. Len(out) + n /\ DOMAIN out = 1 .. Len(out)
       /\ \A i \in 1 .. Len(out) : new[i] = out[i]
  BY <1>4, <1>6, <1>9
<1>11. \A i \in 1 .. Len(out) + n : i > Len(out) => new[i] = rest[i - Len(out)]
  BY <1>4, <1>6, <1>9
<1>12. /\ new \in Seq(Outcomes) /\ Len(new) = Len(out) + n
       /\ DOMAIN new = 1 .. Len(out) + n /\ DOMAIN out = 1 .. Len(out)
       /\ \A i \in 1 .. Len(out) : new[i] = out[i]
       /\ \A i \in 1 .. Len(out) + n : i > Len(out) => new[i] = rest[i - Len(out)]
  BY <1>9, <1>10, <1>11
<1>13. ASSUME NEW i \in DOMAIN new PROVE Acked(documents[i], new[i], C)
  <2>1. CASE i \in 1 .. Len(out)
    BY <1>12, <2>1 DEF AllAcked
  <2>2. CASE i \notin 1 .. Len(out)
    <3>1. i > Len(out) /\ i - Len(out) \in 1 .. n  BY <1>12, <2>2
    <3>2. new[i] = "refused"  BY <1>5, <1>12, <3>1
    <3>3. QED  BY <3>2 DEF Acked
  <2>3. QED  BY <2>1, <2>2
<1>14. QED  BY <1>1, <1>6, <1>12, <1>13 DEF AllAcked

\* A request that starts or ends at place pc, with the answer out.
LEMMA StartedIs ==
  ASSUME NEW p, NEW req, NEW pc \in STRING, pc # "idle", NEW out
  PROVE  LET nb == [Started(p, req, pc) EXCEPT !.out = out]
         IN  /\ DOMAIN nb = Fields /\ nb.pc = pc /\ nb.plane = p /\ nb.req = req /\ nb.out = out
             /\ DOMAIN Started(p, req, pc) = Fields /\ Started(p, req, pc).pc = pc
             /\ Started(p, req, pc).plane = p /\ Started(p, req, pc).req = req
             /\ req.kind = "ingest" => Started(p, req, pc).out = <<>>
BY DEF Started, Fields

LEMMA RecordedOk ==
  ASSUME NEW C, NEW j \in Jobs, JobOk(job[j], C), job[j].pc \in {"next", "embed"},
         NEW outcome \in Outcomes,
         Acked(job[j].req.documents[Len(job[j].out) + 1], outcome, C)
  PROVE  JobOk(Recorded(j, outcome), C)
<1>1. PICK jb, req : jb = job[j] /\ req = jb.req  OBVIOUS
<1>2. PICK docs, old : docs = req.documents /\ old = jb.out  OBVIOUS
<1>3. req.kind = "ingest" /\ IngestOk(jb.pc, docs, old, C) /\ DOMAIN jb = Fields
  BY <1>1, <1>2 DEF JobOk, QueryOk, StatusOk
<1>4. PICK out : out = Append(old, outcome)  OBVIOUS
<1>5. docs \in Seq(Documents) /\ old \in Seq(Outcomes) /\ Len(old) < Len(docs) /\ AllAcked(docs, old, C)
  BY <1>1, <1>3 DEF IngestOk
<1>6. out \in Seq(Outcomes) /\ Len(out) = Len(old) + 1 /\ AllAcked(docs, out, C)
  BY <1>1, <1>2, <1>4, <1>5, AppendAcked
<1>7. Len(docs) \in Nat /\ Len(old) \in Nat /\ Len(out) <= Len(docs)
  BY <1>5, <1>6
<1>8. Len(docs) - Len(out) \in Nat
  BY <1>6, <1>7
<1>9. PICK n \in Nat : n = Len(docs) - Len(out) /\ Len(docs) \in Nat
  BY <1>7, <1>8
<1>10. PICK all : all = out \o [i \in 1 .. n |-> "refused"]  OBVIOUS
<1>11. all \in Seq(Outcomes) /\ Len(all) = Len(docs) /\ AllAcked(docs, all, C)
  <2>1. all \in Seq(Outcomes) /\ Len(all) = Len(out) + n /\ AllAcked(docs, all, C)
    BY <1>6, <1>10, PaddedAcked
  <2>2. QED  BY <1>6, <1>9, <2>1
<1>12. PICK stops : stops = (req.stop /\ outcome \notin {"ingested", "duplicate"})  OBVIOUS
<1>13. Recorded(j, outcome) =
         IF stops \/ Len(out) = Len(docs)
         THEN [Started(jb.plane, req, "done") EXCEPT !.out = IF stops THEN all ELSE out]
         ELSE [jb EXCEPT !.out = out, !.pc = "next"]
  BY <1>1, <1>2, <1>4, <1>9, <1>10, <1>12 DEF Recorded
<1>14. CASE stops \/ Len(out) = Len(docs)
  <2>1. PICK said : said = IF stops THEN all ELSE out  OBVIOUS
  <2>2. PICK nb : nb = [Started(jb.plane, req, "done") EXCEPT !.out = said]  OBVIOUS
  <2>3. DOMAIN nb = Fields /\ nb.pc = "done" /\ nb.req = req /\ nb.out = said
    BY <2>2 DEF Started, Fields
  <2>4. said \in Seq(Outcomes) /\ Len(said) <= Len(docs) /\ AllAcked(docs, said, C)
    BY <1>6, <1>9, <1>11, <2>1
  <2>5. IngestOk("done", docs, said, C)  BY <1>5, <2>4 DEF IngestOk
  <2>6. JobOk(nb, C)  BY <1>2, <1>3, <2>3, <2>5 DEF JobOk
  <2>7. QED  BY <1>13, <1>14, <2>1, <2>2, <2>6
<1>15. CASE ~(stops \/ Len(out) = Len(docs))
  <2>1. PICK nb : nb = [jb EXCEPT !.out = out, !.pc = "next"]  OBVIOUS
  <2>2. DOMAIN nb = Fields /\ nb.pc = "next" /\ nb.req = req /\ nb.out = out
    BY <1>1, <1>3, <2>1 DEF Fields
  <2>3. Len(out) < Len(docs) /\ Len(out) <= Len(docs)  BY <1>5, <1>6, <1>15
  <2>4. IngestOk("next", docs, out, C)  BY <1>5, <1>6, <2>3 DEF IngestOk
  <2>5. JobOk(nb, C)  BY <1>2, <1>3, <2>2, <2>4 DEF JobOk
  <2>6. QED  BY <1>13, <1>15, <2>1, <2>5
<1>16. QED  BY <1>14, <1>15

\* A step of a request that leaves its answer alone and moves it to place pc.
LEMMA MovedOk ==
  ASSUME NEW C, NEW jb, JobOk(jb, C), jb.pc # "idle",
         NEW nb, DOMAIN nb = DOMAIN jb, nb.req = jb.req, nb.plane = jb.plane, nb.out = jb.out,
         nb.pc # "idle", nb.pc # "embed", nb.pc # "done", jb.pc # "done",
         jb.req.kind = "ingest" => nb.pc \in {"init", "store", "embedder", "next"},
         jb.req.kind = "query" => nb.pc \in {"init", "store", "embedder", "query", "search", "hydrate"},
         jb.req.kind = "status" => nb.pc \in {"init", "store", "embedder", "status"}
  PROVE  JobOk(nb, C)
<1>1. CASE jb.req.kind = "ingest"
  <2>1. IngestOk(jb.pc, jb.req.documents, jb.out, C)  BY <1>1 DEF JobOk
  <2>2. IngestOk(nb.pc, jb.req.documents, jb.out, C)  BY <1>1, <2>1 DEF IngestOk
  <2>3. QED  BY <1>1, <2>2 DEF JobOk
<1>2. CASE jb.req.kind = "query"
  BY <1>2 DEF JobOk, QueryOk
<1>3. CASE jb.req.kind = "status"
  BY <1>3 DEF JobOk, StatusOk
<1>4. QED  BY <1>1, <1>2, <1>3 DEF JobOk

ReqOk(req) ==
  \/ req.kind = "ingest" /\ req.documents \in Seq(Documents) \ {<<>>}
  \/ req.kind = "query" /\ req.query \in Queries
  \/ req.kind = "status"

LEMMA RequestsOk ==
  ASSUME NEW req \in Requests
  PROVE  ReqOk(req) /\ (req.kind = "ingest" => ReqOk([req EXCEPT !.stop = FALSE]))
<1>1. CASE req \in {[kind |-> "ingest", documents |-> b.documents, stop |-> b.stop] : b \in Batches}
  <2>1. PICK b \in Batches : req = [kind |-> "ingest", documents |-> b.documents, stop |-> b.stop]
    BY <1>1
  <2>2. b.documents \in Seq(Documents) \ {<<>>}  BY KnowledgeAssumption
  <2>3. PICK nb : nb = [req EXCEPT !.stop = FALSE]  OBVIOUS
  <2>4. nb.kind = "ingest" /\ nb.documents = b.documents /\ req.kind = "ingest" /\ req.documents = b.documents
    BY <2>1, <2>3
  <2>5. ReqOk(nb) /\ ReqOk(req)  BY <2>2, <2>4 DEF ReqOk
  <2>6. QED  BY <2>3, <2>5
<1>2. CASE req \in [kind : {"query"}, query : Queries]
  BY <1>2 DEF ReqOk
<1>3. CASE req \in [kind : {"status"}]
  BY <1>3 DEF ReqOk
<1>4. QED  BY <1>1, <1>2, <1>3 DEF Requests

\* Nothing is acknowledged when a request starts.
LEMMA StartedOk ==
  ASSUME NEW C, NEW p, NEW req, ReqOk(req), NEW pc \in {"init", "store"}
  PROVE  JobOk(Started(p, req, pc), C)
<1>1. PICK nb : nb = Started(p, req, pc)  OBVIOUS
<1>2. /\ DOMAIN nb = Fields /\ nb.pc = pc /\ nb.plane = p /\ nb.req = req
      /\ req.kind = "ingest" => nb.out = <<>>
  BY <1>1 DEF Started, Fields
<1>3. ASSUME req.kind = "ingest" PROVE IngestOk(pc, req.documents, <<>>, C)
  <2>1. PICK documents : documents = req.documents  OBVIOUS
  <2>2. documents \in Seq(Documents) /\ documents # <<>>  BY <1>3, <2>1 DEF ReqOk
  <2>3. <<>> \in Seq(Outcomes) /\ Len(<<>>) = 0 /\ DOMAIN <<>> = {}  OBVIOUS
  <2>4. Len(documents) \in Nat /\ Len(documents) # 0  BY <2>2
  <2>5. Len(<<>>) < Len(documents) /\ Len(<<>>) <= Len(documents)  BY <2>3, <2>4
  <2>6. AllAcked(documents, <<>>, C)  BY <2>3 DEF AllAcked
  <2>7. IngestOk(pc, documents, <<>>, C)  BY <2>2, <2>3, <2>5, <2>6 DEF IngestOk
  <2>8. QED  BY <2>1, <2>7
<1>4. JobOk(nb, C)
  <2>1. CASE req.kind = "ingest"  BY <1>2, <1>3, <2>1 DEF JobOk
  <2>2. CASE req.kind = "query"  BY <1>2, <2>2 DEF JobOk, QueryOk, ReqOk
  <2>3. CASE req.kind = "status"  BY <1>2, <2>3 DEF JobOk, StatusOk
  <2>4. QED  BY <2>1, <2>2, <2>3 DEF ReqOk
<1>5. QED  BY <1>1, <1>4

\* Nor when the bridge answers without a plane.
LEMMA UnavailableOk ==
  ASSUME NEW C, NEW p, NEW req, ReqOk(req), NEW why
  PROVE  JobOk([Started(p, req, "done") EXCEPT !.out = Unavailable(req, why)], C)
<1>1. PICK out : out = Unavailable(req, why)  OBVIOUS
<1>2. PICK nb : nb = [Started(p, req, "done") EXCEPT !.out = out]  OBVIOUS
<1>3. DOMAIN nb = Fields /\ nb.pc = "done" /\ nb.plane = p /\ nb.req = req /\ nb.out = out
  BY <1>2 DEF Started, Fields
<1>4. ASSUME req.kind = "ingest" PROVE IngestOk("done", req.documents, out, C)
  <2>1. PICK documents : documents = req.documents  OBVIOUS
  <2>2. documents \in Seq(Documents)  BY <1>4, <2>1 DEF ReqOk
  <2>3. PICK n \in Nat : n = Len(documents)  BY <2>2
  <2>4. out = [j \in 1 .. n |-> "refused"]  BY <1>1, <1>4, <2>1, <2>3 DEF Unavailable
  <2>5. out \in [1 .. n -> Outcomes]  BY <2>4 DEF Outcomes
  <2>6. out \in Seq(Outcomes) /\ Len(out) = n /\ DOMAIN out = 1 .. n  BY <2>5
  <2>7. AllAcked(documents, out, C)  BY <2>4, <2>6 DEF AllAcked, Acked
  <2>8. Len(out) <= Len(documents)  BY <2>3, <2>6
  <2>9. IngestOk("done", documents, out, C)  BY <2>2, <2>6, <2>7, <2>8 DEF IngestOk
  <2>10. QED  BY <2>1, <2>9
<1>5. ASSUME req.kind = "query" PROVE QueryOk("done", p, req.query, out)
  BY <1>1, <1>5 DEF QueryOk, Unavailable, ReqOk
<1>6. JobOk(nb, C)
  <2>1. CASE req.kind = "ingest"  BY <1>3, <1>4, <2>1 DEF JobOk
  <2>2. CASE req.kind = "query"  BY <1>3, <1>5, <2>2 DEF JobOk
  <2>3. CASE req.kind = "status"  BY <1>3, <2>3 DEF JobOk, StatusOk
  <2>4. QED  BY <2>1, <2>2, <2>3 DEF ReqOk
<1>7. QED  BY <1>1, <1>2, <1>6

\* An answer to a query that cites what may be cited.
LEMMA AnsweredOk ==
  ASSUME NEW C, NEW j \in Jobs, job[j].req.kind = "query", job[j].req.query \in Queries,
         NEW why, NEW results, NEW composed,
         \A r \in results : Citable(r, job[j].plane, job[j].req.query.confidentiality)
  PROVE  JobOk(Answered(j, why, results, composed), C)
<1>1. PICK nb : nb = Answered(j, why, results, composed)  OBVIOUS
<1>2. /\ DOMAIN nb = Fields /\ nb.pc = "done" /\ nb.plane = job[j].plane /\ nb.req = job[j].req
      /\ nb.out.results = results
  BY <1>1 DEF Answered, Started, Fields
<1>3. QueryOk(nb.pc, nb.plane, nb.req.query, nb.out)  BY <1>2 DEF QueryOk
<1>4. JobOk(nb, C)  BY <1>2, <1>3 DEF JobOk
<1>5. QED  BY <1>1, <1>4

LEMMA SameRows ==
  ASSUME KnowledgeInv, UNCHANGED rows
  PROVE  Contents(rows) \subseteq Contents(rows') /\ RowsOk(rows')
BY DEF KnowledgeInv

LEMMA RequestStep ==
  ASSUME KnowledgeInv, NEW j \in Jobs, NEW req \in Requests,
         RequestMain(j, req) \/ RequestBridge(j, req)
  PROVE  KnowledgeInv'
<1>1. UNCHANGED rows  BY DEF RequestMain, RequestBridge
<1>2. ASSUME NEW nb, job' = [job EXCEPT ![j] = nb], JobOk(nb, Contents(rows')) PROVE KnowledgeInv'
  BY <1>1, <1>2, SameRows, JobStep
<1>3. CASE RequestMain(j, req)
  <2>1. job' = [job EXCEPT ![j] = Started("main", req, "store")]  BY <1>3 DEF RequestMain
  <2>2. JobOk(Started("main", req, "store"), Contents(rows'))  BY RequestsOk, StartedOk
  <2>3. QED  BY <1>2, <2>1, <2>2
<1>4. CASE RequestBridge(j, req)
  <2>1. PICK asked : asked = IF req.kind = "ingest" THEN [req EXCEPT !.stop = FALSE] ELSE req  OBVIOUS
  <2>2. ReqOk(asked)  BY <2>1, RequestsOk
  <2>3. PICK why : why = IF config.enabled THEN "KNOWLEDGE_UNAVAILABLE" ELSE "KNOWLEDGE_DISABLED"
    OBVIOUS
  <2>4. job' = [job EXCEPT ![j] =
                  IF plane["bridge"].status = "ready" THEN Started("bridge", asked, "store")
                  ELSE IF plane["bridge"].status = "fresh" /\ config.enabled
                       THEN Started("bridge", asked, "init")
                  ELSE [Started("bridge", asked, "done") EXCEPT !.out = Unavailable(asked, why)]]
    BY <1>4, <2>1, <2>3 DEF RequestBridge
  <2>5. PICK nb : nb = job'[j]  OBVIOUS
  <2>6. /\ job' = [job EXCEPT ![j] = nb]
        /\ \/ nb = Started("bridge", asked, "store")
           \/ nb = Started("bridge", asked, "init")
           \/ nb = [Started("bridge", asked, "done") EXCEPT !.out = Unavailable(asked, why)]
    BY <2>4, <2>5 DEF KnowledgeInv
  <2>7. JobOk(nb, Contents(rows'))  BY <2>2, <2>6, StartedOk, UnavailableOk
  <2>8. QED  BY <1>2, <2>6, <2>7
<1>5. QED  BY <1>3, <1>4

LEMMA ProbeStep ==
  ASSUME KnowledgeInv, NEW j \in Jobs, NEW fails \in BOOLEAN,
         InitBridge(j, fails) \/ ProbeStore(j, fails) \/ ProbeEmbedder(j)
  PROVE  KnowledgeInv'
<1>1. UNCHANGED rows  BY DEF InitBridge, ProbeStore, ProbeEmbedder
<1>2. ASSUME NEW nb, job' = [job EXCEPT ![j] = nb], JobOk(nb, Contents(rows')) PROVE KnowledgeInv'
  BY <1>1, <1>2, SameRows, JobStep
<1>3. PICK jb : jb = job[j]  OBVIOUS
<1>4. JobOk(jb, Contents(rows')) /\ jb.pc \in {"init", "store", "embedder"}
  BY <1>1, <1>3 DEF KnowledgeInv, InitBridge, ProbeStore, ProbeEmbedder
<1>5. DOMAIN jb = Fields /\ jb.req.kind \in {"ingest", "query", "status"}
  BY <1>4 DEF JobOk
<1>6. CASE InitBridge(j, fails)
  <2>1. PICK nb : nb = [jb EXCEPT !.pc = "store"]  OBVIOUS
  <2>2. job' = [job EXCEPT ![j] = nb]  BY <1>3, <1>6, <2>1 DEF InitBridge
  <2>3. /\ DOMAIN nb = Fields /\ nb.pc = "store" /\ nb.req = jb.req /\ nb.plane = jb.plane
        /\ nb.out = jb.out
    BY <1>5, <2>1 DEF Fields
  <2>4. JobOk(nb, Contents(rows'))  BY <1>4, <1>5, <2>3, MovedOk
  <2>5. QED  BY <1>2, <2>2, <2>4
<1>7. CASE ProbeStore(j, fails)
  <2>1. PICK a, b : /\ a = (plane[jb.plane].open /\ ~fails)
                    /\ b = ~plane[jb.plane].writeRefused
    OBVIOUS
  <2>2. PICK nb : nb = [jb EXCEPT !.pc = "embedder", !.reachable = a, !.writable = b]  OBVIOUS
  <2>3. job' = [job EXCEPT ![j] = nb]  BY <1>3, <1>7, <2>1, <2>2 DEF ProbeStore
  <2>4. /\ DOMAIN nb = Fields /\ nb.pc = "embedder" /\ nb.req = jb.req /\ nb.plane = jb.plane
        /\ nb.out = jb.out
    BY <1>5, <2>2 DEF Fields
  <2>5. JobOk(nb, Contents(rows'))  BY <1>4, <1>5, <2>4, MovedOk
  <2>6. QED  BY <1>2, <2>3, <2>5
<1>8. CASE ProbeEmbedder(j)
  <2>1. PICK pc : pc = IF jb.req.kind = "ingest" THEN "next" ELSE jb.req.kind  OBVIOUS
  <2>2. PICK nb : nb = [jb EXCEPT !.pc = pc, !.writable = FALSE]  OBVIOUS
  <2>3. job' = [job EXCEPT ![j] = nb]  BY <1>3, <1>8, <2>1, <2>2 DEF ProbeEmbedder
  <2>4. /\ DOMAIN nb = Fields /\ nb.pc = pc /\ nb.req = jb.req /\ nb.plane = jb.plane
        /\ nb.out = jb.out
    BY <1>5, <2>2 DEF Fields
  <2>5. JobOk(nb, Contents(rows'))  BY <1>4, <1>5, <2>1, <2>4, MovedOk
  <2>6. QED  BY <1>2, <2>3, <2>5
<1>9. QED  BY <1>6, <1>7, <1>8

\* What passed the screening has no form that the screening refuses.
LEMMA ScreenedIs ==
  ASSUME NEW d \in Documents, screen(d) = ""
  PROVE  Screened(d)
<1>1. d.form \in {"ok", "malformed", "too_large", "hostile", "empty", "blank_chunk"}
  BY KnowledgeAssumption
<1>2. d.form \notin {"malformed", "too_large", "hostile", "empty"}
  BY DEF screen, wellFormed, screenForInjection
<1>3. QED  BY <1>1, <1>2 DEF Screened

LEMMA ScreenOutcome ==
  ASSUME NEW d
  PROVE  screen(d) = "" \/ screen(d) \in {"refused", "quarantined"}
BY DEF screen

\* A row with the text of the first chunk warrants "duplicate".
LEMMA DuplicateIsHeld ==
  ASSUME RowsOk(rows), NEW d \in Documents, NEW held \in getByHash(d), held
  PROVE  Acked(d, "duplicate", Contents(rows))
<1>1. PICK r \in rows : r.content = Head(d.chunks)
  BY DEF getByHash
<1>2. PICK e : e = r.document  OBVIOUS
<1>3. /\ e \in Documents /\ r.chunk \in DOMAIN e.chunks /\ r.content = e.chunks[r.chunk]
      /\ Range(e.chunks) \subseteq Contents(rows)
  BY <1>1, <1>2 DEF RowsOk, RowOk
<1>4. Head(d.chunks) \in Contents(rows)  BY <1>1 DEF Contents
<1>5. Head(d.chunks) \in Range(e.chunks)  BY <1>1, <1>3 DEF Range
<1>6. e = d \/ e \in Documents \ {d}  BY <1>3
<1>7. QED  BY <1>3, <1>4, <1>5, <1>6 DEF Acked

LEMMA ScreenStep ==
  ASSUME KnowledgeInv, NEW j \in Jobs, NEW fails \in BOOLEAN, Screen(j, fails)
  PROVE  KnowledgeInv'
<1>1. UNCHANGED rows /\ job[j].pc = "next"  BY DEF Screen
<1>2. PICK C : C = Contents(rows)  OBVIOUS
<1>3. JobOk(job[j], C)  BY <1>2 DEF KnowledgeInv
<1>4. PICK jb : jb = job[j]  OBVIOUS
<1>5. jb.req.kind = "ingest" /\ IngestOk("next", jb.req.documents, jb.out, C) /\ DOMAIN jb = Fields
  BY <1>1, <1>3, <1>4 DEF JobOk, QueryOk, StatusOk
<1>6. PICK documents, out : documents = jb.req.documents /\ out = jb.out  OBVIOUS
<1>7. documents \in Seq(Documents) /\ out \in Seq(Outcomes) /\ Len(out) < Len(documents)
  BY <1>5, <1>6 DEF IngestOk
<1>8. Len(out) + 1 \in 1 .. Len(documents)
  <2>1. Len(out) \in Nat /\ Len(documents) \in Nat  BY <1>7
  <2>2. QED  BY <1>7, <2>1
<1>9. PICK d \in Documents : d = documents[Len(out) + 1]
  BY <1>7, <1>8
<1>10. PICK outcome : outcome = screen(d)  OBVIOUS
<1>11. PICK snap : snap = IF out = <<>> THEN plane[jb.plane].degradation ELSE jb.level  OBVIOUS
<1>12. PICK held \in getByHash(d) :
           LET next == IF outcome # "" THEN Recorded(j, outcome)
                       ELSE IF plane[jb.plane].open /\ ~fails /\ held
                            THEN Recorded(j, "duplicate")
                       ELSE [jb EXCEPT !.pc = "embed"]
           IN  job' = [job EXCEPT ![j] = IF next.pc = "done" THEN next
                                         ELSE [next EXCEPT !.level = snap]]
  BY <1>4, <1>6, <1>9, <1>10, <1>11 DEF Screen
<1>13. PICK next :
         /\ next = IF outcome # "" THEN Recorded(j, outcome)
                   ELSE IF plane[jb.plane].open /\ ~fails /\ held
                        THEN Recorded(j, "duplicate")
                   ELSE [jb EXCEPT !.pc = "embed"]
         /\ job' = [job EXCEPT ![j] = IF next.pc = "done" THEN next ELSE [next EXCEPT !.level = snap]]
  BY <1>12
<1>14. JobOk(next, C)
  <2>1. CASE outcome # ""
    <3>1. outcome \in Outcomes /\ Acked(d, outcome, C)
      BY <1>10, <2>1, ScreenOutcome DEF Outcomes, Acked
    <3>2. JobOk(Recorded(j, outcome), C)
      BY <1>1, <1>3, <1>4, <1>6, <1>9, <3>1, RecordedOk
    <3>3. QED  BY <1>13, <2>1, <3>2
  <2>2. CASE outcome = "" /\ plane[jb.plane].open /\ ~fails /\ held
    <3>1. "duplicate" \in Outcomes  BY DEF Outcomes
    <3>2. RowsOk(rows)  BY DEF KnowledgeInv
    <3>3. Acked(d, "duplicate", C)  BY <1>2, <1>12, <2>2, <3>2, DuplicateIsHeld
    <3>4. JobOk(Recorded(j, "duplicate"), C)
      BY <1>1, <1>3, <1>4, <1>6, <1>9, <3>1, <3>3, RecordedOk
    <3>5. QED  BY <1>13, <2>2, <3>4
  <2>3. CASE outcome = "" /\ ~(plane[jb.plane].open /\ ~fails /\ held)
    <3>1. PICK nb : nb = [jb EXCEPT !.pc = "embed"]  OBVIOUS
    <3>2. DOMAIN nb = Fields /\ nb.pc = "embed" /\ nb.req = jb.req /\ nb.out = out
      BY <1>5, <1>6, <3>1 DEF Fields
    <3>3. Screened(d)  BY <1>10, <2>3, ScreenedIs
    <3>4. IngestOk("embed", documents, out, C)  BY <1>5, <1>6, <1>9, <3>3 DEF IngestOk
    <3>5. JobOk(nb, C)  BY <1>5, <1>6, <3>2, <3>4 DEF JobOk
    <3>6. next = nb  BY <1>13, <2>3, <3>1
    <3>7. QED  BY <3>5, <3>6
  <2>4. QED  BY <2>1, <2>2, <2>3
<1>15. PICK nb : nb = IF next.pc = "done" THEN next ELSE [next EXCEPT !.level = snap]  OBVIOUS
<1>16. JobOk(nb, C)  BY <1>14, <1>15, LevelKept
<1>17. JobOk(nb, Contents(rows'))  BY <1>1, <1>2, <1>16
<1>18. job' = [job EXCEPT ![j] = nb]  BY <1>13, <1>15
<1>19. Contents(rows) \subseteq Contents(rows') /\ RowsOk(rows')  BY <1>1, SameRows
<1>20. QED  BY <1>17, <1>18, <1>19, JobStep

LEMMA DispositionIs ==
  ASSUME NEW reason
  PROVE  dispositionOf(reason) \in {"refused", "degraded"}
BY DEF dispositionOf

\* The objects of a document are one per chunk; all are admissible or none is.
LEMMA WrittenOk ==
  ASSUME RowsOk(rows), NEW d \in Documents, Screened(d), NEW vector,
         constructKnowledgeObject(d, vector), NEW fails \in BOOLEAN
  PROVE  LET objects == objectsOf(d, vector)
             written == upserted(objects, fails)
         IN  /\ Contents(rows) \subseteq Contents(rows \union written)
             /\ RowsOk(rows \union written)
             /\ written = objects => Acked(d, "ingested", Contents(rows \union written))
<1>1. PICK objects : objects = objectsOf(d, vector)  OBVIOUS
<1>2. PICK written : written = upserted(objects, fails)  OBVIOUS
<1>3. PICK next : next = rows \union written  OBVIOUS
<1>4. /\ \A o \in objects : /\ o.document = d /\ o.chunk \in DOMAIN d.chunks
                            /\ o.content = d.chunks[o.chunk] /\ o.classification = d.classification
      /\ \A i \in DOMAIN d.chunks : \E o \in objects : o.content = d.chunks[i]
  <2> DEFINE object(i) ==
               [batch |-> Cardinality({r.batch : r \in rows}) + 1, document |-> d, chunk |-> i,
                content |-> d.chunks[i], classification |-> d.classification,
                origin |-> vector.origin, width |-> vector.width,
                provider |-> config.embeddingProvider, intact |-> TRUE]
  <2>1. objects = {object(i) : i \in DOMAIN d.chunks}
    BY <1>1, Zenon DEF objectsOf
  <2>2. ASSUME NEW i \in DOMAIN d.chunks
        PROVE  /\ object(i).document = d /\ object(i).chunk = i
               /\ object(i).content = d.chunks[i] /\ object(i).classification = d.classification
    OBVIOUS
  <2> HIDE DEF object
  <2>3. QED  BY <2>1, <2>2
<1>5. written = {} \/ (written = objects /\ \A o \in objects : within(o.classification, storeCeiling))
  <2>1. CASE fails  BY <1>2, <2>1 DEF upserted
  <2>2. CASE ~fails /\ within(d.classification, storeCeiling)
    <3>1. admissible(objects) = objects  BY <1>4, <2>2 DEF admissible
    <3>2. QED  BY <1>2, <1>4, <2>2, <3>1 DEF upserted
  <2>3. CASE ~fails /\ ~within(d.classification, storeCeiling)
    <3>1. admissible(objects) = {}  BY <1>4, <2>3 DEF admissible
    <3>2. QED  BY <1>2, <2>3, <3>1 DEF upserted
  <2>4. QED  BY <2>1, <2>2, <2>3
<1>6. Contents(rows) \subseteq Contents(next)  BY <1>3 DEF Contents
<1>7. written = objects => Range(d.chunks) \subseteq Contents(next)
  BY <1>3, <1>4 DEF Contents, Range
<1>8. d.form = "ok" /\ d.classification \in DOMAIN CLASSIFICATION_RANK
  BY KnowledgeAssumption DEF Screened, constructKnowledgeObject
<1>9. ASSUME NEW r \in next PROVE RowOk(r) /\ Range(r.document.chunks) \subseteq Contents(next)
  <2>1. CASE r \in rows  BY <1>6, <2>1 DEF RowsOk
  <2>2. CASE r \in written
    <3>1. written = objects /\ r \in objects /\ within(r.classification, storeCeiling)
      BY <1>5, <2>2
    <3>2. RowOk(r)  BY <1>4, <1>8, <3>1 DEF RowOk
    <3>3. QED  BY <1>4, <1>7, <3>1, <3>2
  <2>3. QED  BY <1>3, <2>1, <2>2
<1>10. RowsOk(next)  BY <1>9 DEF RowsOk
<1>11. written = objects => Acked(d, "ingested", Contents(next))  BY <1>7 DEF Acked
<1>12. QED  BY <1>1, <1>2, <1>3, <1>6, <1>10, <1>11

LEMMA StoreStep ==
  ASSUME KnowledgeInv, NEW j \in Jobs, NEW fails \in BOOLEAN, Store(j, fails)
  PROVE  KnowledgeInv'
<1>1. job[j].pc = "embed"  BY DEF Store
<1>2. PICK jb : jb = job[j]  OBVIOUS
<1>3. /\ jb.req.kind = "ingest" /\ IngestOk("embed", jb.req.documents, jb.out, Contents(rows))
      /\ JobOk(job[j], Contents(rows)) /\ RowsOk(rows)
  BY <1>1, <1>2 DEF KnowledgeInv, JobOk, QueryOk, StatusOk
<1>4. PICK documents, out : documents = jb.req.documents /\ out = jb.out  OBVIOUS
<1>5. /\ documents \in Seq(Documents) /\ out \in Seq(Outcomes) /\ Len(out) < Len(documents)
      /\ Screened(documents[Len(out) + 1])
  BY <1>3, <1>4 DEF IngestOk
<1>6. Len(out) + 1 \in 1 .. Len(documents)
  <2>1. Len(out) \in Nat /\ Len(documents) \in Nat  BY <1>5
  <2>2. QED  BY <1>5, <2>1
<1>7. PICK d \in Documents : d = documents[Len(out) + 1]
  BY <1>5, <1>6
<1>8. PICK vector : vector = embed(config, service)  OBVIOUS
<1>9. PICK objects : objects = objectsOf(d, vector)  OBVIOUS
<1>10. PICK written : written = upserted(objects, fails)  OBVIOUS
<1>11. PICK built \in BOOLEAN : built = constructKnowledgeObject(d, vector)
  BY DEF constructKnowledgeObject
<1>12. PICK barred : barred = (jb.level.level >= 2)  OBVIOUS
<1>13. PICK writes \in BOOLEAN : writes = (built /\ ~barred /\ plane[jb.plane].open)
  OBVIOUS
<1>14. PICK outcome :
         outcome = IF ~built THEN "refused"
                   ELSE IF barred THEN dispositionOf(jb.level.reason)
                   ELSE IF ~plane[jb.plane].open THEN dispositionOf(closedReason)
                   ELSE IF fails THEN dispositionOf("STORE_WRITE_REFUSED")
                   ELSE IF written # objects THEN dispositionOf("STORE_CLASSIFICATION_REFUSED")
                   ELSE "ingested"
  OBVIOUS
<1>15. /\ job' = [job EXCEPT ![j] = Recorded(j, outcome)]
       /\ rows' = IF writes THEN rows \union written ELSE rows
  BY <1>2, <1>4, <1>7, <1>8, <1>9, <1>10, <1>11, <1>12, <1>13, <1>14 DEF Store
<1>16. /\ outcome \in Outcomes /\ outcome # "duplicate"
       /\ outcome = "ingested" => built /\ ~barred /\ plane[jb.plane].open
                                  /\ written = objects
  BY <1>11, <1>14, DispositionIs DEF Outcomes
<1>17. PICK C : C = Contents(rows')  OBVIOUS
<1>18. Contents(rows) \subseteq C /\ RowsOk(rows')
       /\ (writes /\ written = objects => Acked(d, "ingested", C))
  <2>1. CASE writes
    <3>1. Screened(d) /\ constructKnowledgeObject(d, vector)  BY <1>5, <1>7, <1>11, <1>13, <2>1
    <3>2. rows' = rows \union written  BY <1>15, <2>1
    <3>3. /\ Contents(rows) \subseteq Contents(rows \union written)
          /\ RowsOk(rows \union written)
          /\ written = objects => Acked(d, "ingested", Contents(rows \union written))
      BY <1>3, <1>9, <1>10, <3>1, WrittenOk
    <3>4. QED  BY <1>17, <3>2, <3>3
  <2>2. CASE ~writes
    <3>1. rows' = rows  BY <1>15, <2>2
    <3>2. QED  BY <1>3, <1>17, <2>2, <3>1
  <2>3. QED  BY <2>1, <2>2
<1>19. outcome = "ingested" => writes
  BY <1>13, <1>16
<1>20. Acked(d, outcome, C)
  <2>1. CASE outcome = "ingested"  BY <1>16, <1>18, <1>19, <2>1
  <2>2. CASE outcome # "ingested"  BY <1>16, <2>2 DEF Acked
  <2>3. QED  BY <2>1, <2>2
<1>21. JobOk(job[j], C)  BY <1>3, <1>18, JobStays
<1>22. JobOk(Recorded(j, outcome), C)
  BY <1>1, <1>2, <1>4, <1>7, <1>16, <1>20, <1>21, RecordedOk
<1>23. QED  BY <1>15, <1>17, <1>18, <1>22, JobStep

\* A step of a query that answers.
LEMMA QueryAnswers ==
  ASSUME KnowledgeInv, NEW j \in Jobs, UNCHANGED rows,
         job[j].pc \in {"query", "search", "hydrate"},
         NEW why, NEW results, NEW composed,
         job' = [job EXCEPT ![j] = Answered(j, why, results, composed)],
         \A r \in results : Citable(r, job[j].plane, job[j].req.query.confidentiality)
  PROVE  KnowledgeInv'
<1>1. JobOk(job[j], Contents(rows))  BY DEF KnowledgeInv
<1>2. job[j].req.kind = "query" /\ job[j].req.query \in Queries
  BY <1>1 DEF JobOk, IngestOk, QueryOk, StatusOk
<1>3. JobOk(Answered(j, why, results, composed), Contents(rows'))  BY <1>2, AnsweredOk
<1>4. Contents(rows) \subseteq Contents(rows') /\ RowsOk(rows')  BY SameRows
<1>5. QED  BY <1>3, <1>4, JobStep

\* An answer that cites nothing.
LEMMA QueryRefuses ==
  ASSUME KnowledgeInv, NEW j \in Jobs, UNCHANGED rows,
         job[j].pc \in {"query", "search", "hydrate"},
         NEW why, job' = [job EXCEPT ![j] = Answered(j, why, {}, FALSE)]
  PROVE  KnowledgeInv'
<1>1. JobOk(job[j], Contents(rows))  BY DEF KnowledgeInv
<1>2. job[j].req.kind = "query" /\ job[j].req.query \in Queries
  BY <1>1 DEF JobOk, IngestOk, QueryOk, StatusOk
<1>3. PICK none, composed, nb :
        none = {} /\ composed = FALSE /\ nb = Answered(j, why, none, composed)
  OBVIOUS
<1>4. \A r \in none : Citable(r, job[j].plane, job[j].req.query.confidentiality)  BY <1>3
<1>5. JobOk(nb, Contents(rows'))
  <2>1. JobOk(Answered(j, why, none, composed), Contents(rows'))  BY <1>2, <1>4, AnsweredOk
  <2>2. QED  BY <1>3, <2>1
<1>6. job' = [job EXCEPT ![j] = nb]  BY <1>3
<1>7. Contents(rows) \subseteq Contents(rows') /\ RowsOk(rows')  BY SameRows
<1>8. QED  BY <1>5, <1>6, <1>7, JobStep

\* A step of a query that moves on with its answer open.
LEMMA QueryMoves ==
  ASSUME KnowledgeInv, NEW j \in Jobs, UNCHANGED rows,
         job[j].pc \in {"query", "search", "hydrate"},
         NEW nb, job' = [job EXCEPT ![j] = nb],
         DOMAIN nb = DOMAIN job[j], nb.req = job[j].req, nb.plane = job[j].plane,
         nb.out = job[j].out, nb.pc \in {"query", "search", "hydrate"}
  PROVE  KnowledgeInv'
<1>1. JobOk(job[j], Contents(rows))  BY DEF KnowledgeInv
<1>2. job[j].req.kind = "query" /\ job[j].pc # "idle" /\ job[j].pc # "done"
  BY <1>1 DEF JobOk, IngestOk, QueryOk, StatusOk
<1>3. JobOk(nb, Contents(rows'))  BY <1>1, <1>2, MovedOk
<1>4. Contents(rows) \subseteq Contents(rows') /\ RowsOk(rows')  BY SameRows
<1>5. QED  BY <1>3, <1>4, JobStep

LEMMA QueryStep ==
  ASSUME KnowledgeInv, NEW j \in Jobs, Query(j)
  PROVE  KnowledgeInv'
<1>1. UNCHANGED rows /\ job[j].pc = "query"  BY DEF Query
<1>2. PICK jb : jb = job[j]  OBVIOUS
<1>3. DOMAIN jb = Fields  BY <1>1, <1>2 DEF KnowledgeInv, JobOk
<1>4. PICK moved : moved = [jb EXCEPT !.pc = "search"]  OBVIOUS
<1>5. /\ DOMAIN moved = DOMAIN jb /\ moved.req = jb.req /\ moved.plane = jb.plane
      /\ moved.out = jb.out /\ moved.pc = "search"
  BY <1>3, <1>4 DEF Fields
<1> DEFINE unasked == composes(j) /\ ~config.ragEnabled
           unformed == ~wellFormed(job[j].req.query)
           unreachable == plane[job[j].plane].degradation.level >= 3
           blank == job[j].req.query.form = "empty"
           hostile == screenForInjection(job[j].req.query)
           reason == plane[job[j].plane].degradation.reason
<1>6. job' = [job EXCEPT ![j] =
            IF unasked THEN Answered(j, "RAG_DISABLED", {}, FALSE)
            ELSE IF unformed THEN Answered(j, "ADMISSION_MALFORMED", {}, FALSE)
            ELSE IF unreachable THEN Answered(j, reason, {}, FALSE)
            ELSE IF blank THEN Answered(j, "NORMALISATION_FAILED", {}, FALSE)
            ELSE IF hostile THEN Answered(j, "INJECTION_DETECTED", {}, FALSE)
            ELSE [job[j] EXCEPT !.pc = "search"]]
  BY Zenon DEF Query
<1> HIDE DEF unasked, unformed, unreachable, blank, hostile, reason
<1>7. CASE unasked \/ unformed \/ unreachable \/ blank \/ hostile
  <2>1. \/ job' = [job EXCEPT ![j] = Answered(j, "RAG_DISABLED", {}, FALSE)]
        \/ job' = [job EXCEPT ![j] = Answered(j, "ADMISSION_MALFORMED", {}, FALSE)]
        \/ job' = [job EXCEPT ![j] = Answered(j, reason, {}, FALSE)]
        \/ job' = [job EXCEPT ![j] = Answered(j, "NORMALISATION_FAILED", {}, FALSE)]
        \/ job' = [job EXCEPT ![j] = Answered(j, "INJECTION_DETECTED", {}, FALSE)]
    BY <1>6, <1>7
  <2>2. QED  BY <1>1, <2>1, QueryRefuses
<1>8. CASE ~(unasked \/ unformed \/ unreachable \/ blank \/ hostile)
  <2>1. job' = [job EXCEPT ![j] = moved]  BY <1>2, <1>4, <1>6, <1>8
  <2>2. QED  BY <1>1, <1>2, <1>5, <2>1, QueryMoves
<1>9. QED  BY <1>7, <1>8

LEMMA SearchStep ==
  ASSUME KnowledgeInv, NEW j \in Jobs, NEW fails \in BOOLEAN, Search(j, fails)
  PROVE  KnowledgeInv'
<1>1. UNCHANGED rows /\ job[j].pc = "search"  BY DEF Search
<1>2. PICK jb : jb = job[j]  OBVIOUS
<1>3. DOMAIN jb = Fields  BY <1>1, <1>2 DEF KnowledgeInv, JobOk
<1>4. PICK hits, origin, ok :
        job' = [job EXCEPT ![j] = IF ~ok THEN Answered(j, "EMBEDDING_UNAVAILABLE", {}, FALSE)
                                  ELSE [jb EXCEPT !.pc = "hydrate", !.origin = origin, !.hits = hits]]
  BY <1>2, Zenon DEF Search
<1>5. PICK moved : moved = [jb EXCEPT !.pc = "hydrate", !.origin = origin, !.hits = hits]  OBVIOUS
<1>6. /\ DOMAIN moved = DOMAIN jb /\ moved.req = jb.req /\ moved.plane = jb.plane
      /\ moved.out = jb.out /\ moved.pc = "hydrate"
  BY <1>3, <1>5 DEF Fields
<1>7. CASE ok
  <2>1. job' = [job EXCEPT ![j] = moved]  BY <1>4, <1>5, <1>7
  <2>2. QED  BY <1>1, <1>2, <1>6, <2>1, QueryMoves
<1>8. CASE ~ok
  <2>1. job' = [job EXCEPT ![j] = Answered(j, "EMBEDDING_UNAVAILABLE", {}, FALSE)]  BY <1>4, <1>8
  <2>2. QED  BY <1>1, <2>1, QueryRefuses
<1>9. QED  BY <1>7, <1>8

\* What is read back is checked again: it is a row, within the ceiling.
LEMMA HydrateStep ==
  ASSUME KnowledgeInv, NEW j \in Jobs, NEW fails \in BOOLEAN, Hydrate(j, fails)
  PROVE  KnowledgeInv'
<1> DEFINE hydrated == {r \in rows : /\ <<r.batch, r.chunk>> \in job[j].hits
                                     /\ verifyObjectIntegrity(r) /\ ~fails}
           admitted == {r \in hydrated : within(r.classification, ceilingOf(j))}
           foreign  == {r \in admitted : r.origin # job[j].origin}
           related  == {r \in admitted \ foreign : r.content \in job[j].req.query.about}
<1>1. UNCHANGED rows /\ job[j].pc = "hydrate"  BY DEF Hydrate
<1>2. PICK chance \in SUBSET foreign :
        \E results \in kSubset(Min({job[j].req.query.k, Cardinality(related \union chance)}),
                               related \union chance) :
          job' = [job EXCEPT ![j] =
              IF results = {}
              THEN Answered(j, IF admitted # {} THEN "RETRIEVAL_BELOW_SIMILARITY_FLOOR"
                               ELSE "RETRIEVAL_EMPTY", {}, FALSE)
              ELSE IF composes(j) THEN composeRag(j, results)
              ELSE Answered(j, "", results, FALSE)]
  BY Zenon DEF Hydrate
<1>3. related \union chance \subseteq admitted  OBVIOUS
<1>4. \A r \in admitted : r \in rows /\ within(r.classification, ceilingOf(j))  OBVIOUS
<1> HIDE DEF hydrated, admitted, foreign, related
<1>5. PICK results \in kSubset(Min({job[j].req.query.k, Cardinality(related \union chance)}),
                               related \union chance) :
          job' = [job EXCEPT ![j] =
              IF results = {}
              THEN Answered(j, IF admitted # {} THEN "RETRIEVAL_BELOW_SIMILARITY_FLOOR"
                               ELSE "RETRIEVAL_EMPTY", {}, FALSE)
              ELSE IF composes(j) THEN composeRag(j, results)
              ELSE Answered(j, "", results, FALSE)]
  BY <1>2
<1>6. \A r \in results : r \in rows /\ within(r.classification, ceilingOf(j))
  <2>1. results \subseteq related \union chance  BY <1>5 DEF kSubset
  <2>2. QED  BY <1>3, <1>4, <2>1
<1>7. job[j].plane = "bridge" =>
        ceilingOf(j) = classificationCeilingFor(job[j].req.query.confidentiality)
  BY DEF ceilingOf
<1>8. \A r \in results : Citable(r, job[j].plane, job[j].req.query.confidentiality)
  BY <1>6, <1>7 DEF KnowledgeInv, RowsOk, RowOk, Citable
<1>9. PICK why : why = IF admitted # {} THEN "RETRIEVAL_BELOW_SIMILARITY_FLOOR" ELSE "RETRIEVAL_EMPTY"
  OBVIOUS
<1>10. \/ job' = [job EXCEPT ![j] = Answered(j, why, {}, FALSE)]
       \/ job' = [job EXCEPT ![j] = composeRag(j, results)]
       \/ job' = [job EXCEPT ![j] = Answered(j, "", results, FALSE)]
  BY <1>5, <1>9
<1>11. CASE job' = [job EXCEPT ![j] = Answered(j, why, {}, FALSE)]
  BY <1>1, <1>11, QueryRefuses
<1>12. CASE job' = [job EXCEPT ![j] = Answered(j, "", results, FALSE)]
  BY <1>1, <1>8, <1>12, QueryAnswers
<1>13. CASE job' = [job EXCEPT ![j] = composeRag(j, results)]
  <2>1. PICK reason, composed : composeRag(j, results) = Answered(j, reason, results, composed)
    BY DEF composeRag
  <2>2. job' = [job EXCEPT ![j] = Answered(j, reason, results, composed)]  BY <1>13, <2>1
  <2>3. QED  BY <1>1, <1>8, <2>2, QueryAnswers
<1>14. QED  BY <1>10, <1>11, <1>12, <1>13

LEMMA StatusStep ==
  ASSUME KnowledgeInv, NEW j \in Jobs, Status(j)
  PROVE  KnowledgeInv'
<1>1. UNCHANGED rows /\ job[j].pc = "status"  BY DEF Status
<1>2. PICK jb : jb = job[j]  OBVIOUS
<1>3. jb.req.kind = "status"  BY <1>1, <1>2 DEF KnowledgeInv, JobOk, IngestOk, QueryOk
<1>4. PICK ready : job' = [job EXCEPT ![j] = [Started(jb.plane, jb.req, "done") EXCEPT !.operational = ready]]
  BY <1>2, Zenon DEF Status
<1>5. PICK nb : nb = [Started(jb.plane, jb.req, "done") EXCEPT !.operational = ready]  OBVIOUS
<1>6. DOMAIN nb = Fields /\ nb.pc = "done" /\ nb.req = jb.req  BY <1>5 DEF Started, Fields
<1>7. JobOk(nb, Contents(rows'))  BY <1>3, <1>6 DEF JobOk, StatusOk
<1>8. QED  BY <1>1, <1>4, <1>5, <1>7, SameRows, JobStep

LEMMA RespondStep ==
  ASSUME KnowledgeInv, NEW j \in Jobs, Respond(j)
  PROVE  KnowledgeInv'
<1>1. UNCHANGED rows /\ job' = [job EXCEPT ![j] = NoJob]  BY DEF Respond
<1>2. JobOk(NoJob, Contents(rows'))  BY DEF JobOk, NoJob
<1>3. QED  BY <1>1, <1>2, SameRows, JobStep

\* A row that rots keeps its text, and what is said of it.
LEMMA RotStep ==
  ASSUME KnowledgeInv, NEW r \in rows, Rot(r)
  PROVE  KnowledgeInv'
<1>1. PICK s : s = [r EXCEPT !.intact = FALSE]  OBVIOUS
<1>2. UNCHANGED job /\ rows' = (rows \ {r}) \union {s}  BY <1>1 DEF Rot
<1>3. s.document = r.document /\ s.chunk = r.chunk /\ s.content = r.content
      /\ s.classification = r.classification
  BY <1>1
<1>4. Contents(rows') = Contents(rows)
  BY <1>2, <1>3 DEF Contents
<1>5. RowsOk(rows')
  <2>1. ASSUME NEW x \in rows' PROVE RowOk(x) /\ Range(x.document.chunks) \subseteq Contents(rows')
    <3>1. CASE x \in rows  BY <1>4, <3>1 DEF KnowledgeInv, RowsOk
    <3>2. CASE x = s  BY <1>3, <1>4, <3>2 DEF KnowledgeInv, RowsOk, RowOk
    <3>3. QED  BY <1>2, <3>1, <3>2
  <2>2. QED  BY <2>1 DEF RowsOk
<1>6. QED  BY <1>2, <1>4, <1>5, OtherStep

LEMMA RestartedStep ==
  ASSUME KnowledgeInv, NEW env, ProcessRestart(env)
  PROVE  KnowledgeInv'
<1>1. UNCHANGED rows /\ job' = [j \in Jobs |-> NoJob]  BY DEF ProcessRestart
<1>2. DOMAIN job' = Jobs /\ \A j \in Jobs : JobOk(job'[j], Contents(rows'))
  BY <1>1 DEF JobOk, NoJob
<1>3. (RowsOk(rows))' /\ (DOMAIN job = Jobs)' /\ (\A j \in Jobs : JobOk(job[j], Contents(rows)))'
  BY <1>1, <1>2, SameRows
<1>4. QED  BY <1>3 DEF KnowledgeInv

LEMMA KnowledgeInvHolds == KnowledgeSpec => []KnowledgeInv
<1>1. KnowledgeInit => KnowledgeInv
  BY DEF KnowledgeInit, KnowledgeInv, RowsOk, JobOk, NoJob
<1>2. KnowledgeInv /\ [KnowledgeNext]_knowledgeVars => KnowledgeInv'
  <2> SUFFICES ASSUME KnowledgeInv, [KnowledgeNext]_knowledgeVars PROVE KnowledgeInv'
    OBVIOUS
  <2>1. ASSUME UNCHANGED job, UNCHANGED rows PROVE KnowledgeInv'
    BY <2>1, SameRows, OtherStep
  <2>2. ASSUME NEW fails \in BOOLEAN, StartMain(fails) PROVE KnowledgeInv'
    BY <2>1, <2>2 DEF StartMain
  <2>3. CASE ServiceFails \/ ServiceReturns \/ UNCHANGED knowledgeVars
    BY <2>1, <2>3 DEF ServiceFails, ServiceReturns, knowledgeVars
  <2>4. ASSUME NEW j \in Jobs, NEW fails \in BOOLEAN,
               InitBridge(j, fails) \/ ProbeStore(j, fails) \/ ProbeEmbedder(j)
        PROVE  KnowledgeInv'
    BY <2>4, ProbeStep
  <2>5. ASSUME NEW j \in Jobs, ProbeEmbedder(j) PROVE KnowledgeInv'
    BY <2>4, <2>5
  <2>6. QED
    BY <2>2, <2>3, <2>4, <2>5, RequestStep, ScreenStep, StoreStep, QueryStep, SearchStep,
       HydrateStep, StatusStep, RespondStep, RotStep, RestartedStep DEF KnowledgeNext
<1>3. QED  BY <1>1, <1>2, PTL DEF KnowledgeSpec

(* Whatever was ingested, rotted or restarted meanwhile, an answer cites     *)
(* only what its request is cleared for, nothing of a hostile document and   *)
(* nothing above the store's ceiling (bridge.ts classificationCeilingFor,    *)
(* retrieval.ts R-6 to R-8).                                                 *)
THEOREM KnowledgeWithinClearance == KnowledgeSpec => []AnswersWithinClearance
<1>1. ASSUME KnowledgeInv PROVE AnswersWithinClearance
  <2> SUFFICES ASSUME NEW j \in Jobs, job[j].pc = "done", job[j].req.kind = "query",
                      NEW r \in job[j].out.results
               PROVE  /\ job[j].plane = "bridge" =>
                            r.classification \in cleared[job[j].req.query.confidentiality]
                      /\ r.document.form = "ok"
                      /\ within(r.classification, storeCeiling)
    BY DEF AnswersWithinClearance
  <2>1. PICK q : q = job[j].req.query  OBVIOUS
  <2>2. q \in Queries /\ Citable(r, job[j].plane, q.confidentiality)
    BY <1>1, <2>1 DEF KnowledgeInv, JobOk, QueryOk
  <2>3. q.confidentiality \in {"public", "internal", "restricted", "sovereign"}
    BY <2>2, KnowledgeAssumption
  <2>4. QED  BY <2>1, <2>2, <2>3, WithinIsCleared DEF Citable
<1>2. QED  BY <1>1, KnowledgeInvHolds, PTL

(* A document acknowledged is held, whatever failed, rotted or restarted,    *)
(* and whichever requests for it overlapped (ingestion.ts I-8 and I-11).     *)
THEOREM AcknowledgementsKept == KnowledgeSpec => []AcknowledgedIsHeld
<1>1. ASSUME KnowledgeInv PROVE AcknowledgedIsHeld
  <2> SUFFICES ASSUME NEW j \in Jobs, job[j].pc # "idle", job[j].req.kind = "ingest",
                      NEW i \in DOMAIN job[j].out
               PROVE  LET d       == job[j].req.documents[i]
                          held    == {r.content : r \in rows}
                          entire  == Range(d.chunks) \subseteq held
                          another == \E e \in Documents \ {d} : Head(d.chunks) \in Range(e.chunks)
                      IN  /\ job[j].out[i] = "ingested" => entire
                          /\ job[j].out[i] = "duplicate" =>
                                Head(d.chunks) \in held /\ (entire \/ another)
    BY DEF AcknowledgedIsHeld
  <2>1. IngestOk(job[j].pc, job[j].req.documents, job[j].out, Contents(rows))
    BY <1>1 DEF KnowledgeInv, JobOk
  <2>2. Acked(job[j].req.documents[i], job[j].out[i], Contents(rows))
    BY <2>1 DEF IngestOk, AllAcked
  <2>3. QED  BY <2>2 DEF Acked, Contents
<1>2. QED  BY <1>1, KnowledgeInvHolds, PTL
===============================================================================
