---------------------------- MODULE ExecutorProofs ----------------------------
(***************************************************************************)
(* Proofs about Executor, for any number of processes, units, owners,      *)
(* mandates and keys.                                                      *)
(***************************************************************************)
EXTENDS Executor, FiniteSetTheorems, TLAPS

USE DEF Open, Final, Exited

(***************************************************************************)
(* What a process is asked has the type of an input, and stays the same.   *)
(***************************************************************************)
LEMMA InputsTyped ==
  ASSUME req \in Scenarios, NEW r \in Requests
  PROVE  /\ req[r].resource \in Resources /\ req[r].owner \in Owners
         /\ req[r].mandate \in Mandates /\ req[r].key \in Keys
         /\ req[r].hash \in Hashes /\ req[r].type \in Types
  BY ScenariosAssumption DEF Inputs

\* Claiming and releasing keep the type of a lease row.
LEMMA RowsTyped ==
  ASSUME NEW row \in LeaseRows,
         NEW o \in Owners
  PROVE  /\ claimedRow(row, o) \in LeaseRows
         /\ releasedRow(row, o) \in LeaseRows
  BY DEF LeaseRows, claimedRow, releasedRow, NoRow

LEMMA LeasesTyped ==
  ASSUME TypeOK, NEW r \in Requests, claimLease(r) \/ releaseLease(r)
  PROVE  lease' \in [Resources -> LeaseRows]
<1> DEFINE u == req[r].resource
           o == req[r].owner
<1>1. u \in Resources /\ o \in Owners
  BY InputsTyped DEF TypeOK
<1>2. lease[u] \in LeaseRows
  BY <1>1 DEF TypeOK
<1>3. claimedRow(lease[u], o) \in LeaseRows
      /\ releasedRow(lease[u], o) \in LeaseRows
  BY <1>1, <1>2, RowsTyped
<1> QED
  BY <1>1, <1>3 DEF TypeOK, claimLease, releaseLease

LEMMA OutcomeTyped ==
  ASSUME NEW r \in Requests
  PROVE  Outcome(r) \in Final
  BY DEF Outcome

(***************************************************************************)
(* Type correctness.                                                       *)
(***************************************************************************)
LEMMA TypeInit == Init => TypeOK
<1> SUFFICES ASSUME Init PROVE TypeOK
  OBVIOUS
<1>1. NoRow \in LeaseRows
  BY DEF NoRow, LeaseRows
<1>2. lease \in [Resources -> LeaseRows]
  BY <1>1 DEF Init
<1> QED BY <1>2 DEF Init, TypeOK

LEMMA TypeStep == TypeOK /\ [Next]_vars => TypeOK'
<1> SUFFICES ASSUME TypeOK, [Next]_vars PROVE TypeOK'
  OBVIOUS
<1> USE DEF journalVars, runnerVars, systemdVars, Goto, Return
<1>1. ASSUME NEW r \in Requests, Process(r) PROVE TypeOK'
  <2> USE InputsTyped
  <2>1. CASE Start(r)
    BY <2>1 DEF Start, openJournal, orphanState, TypeOK
  <2>2. CASE Authorize(r)
    BY <2>2 DEF Authorize, TypeOK
  <2>3. CASE AnswerFromJournal(r)
    <3>1. PICK s \in Requests : rec[s] # "none" /\ (Return(r, "refused") \/ Replay(r, s))
      BY <2>3 DEF AnswerFromJournal, Previous
    <3>2. rec[s] \in Open \cup Final
      BY <3>1 DEF TypeOK
    <3> QED BY <2>3, <3>1, <3>2 DEF AnswerFromJournal, Replay, TypeOK
  <2>4. CASE CheckApproval(r)
    BY <2>4 DEF CheckApproval, TypeOK
  <2>5. CASE ClaimLease(r)
    <3>1. lease' \in [Resources -> LeaseRows]
      BY <2>5, LeasesTyped DEF ClaimLease, TypeOK
    <3>2. reply' \in [Requests -> {"none", "refused"} \cup Final]
      BY <2>5 DEF ClaimLease, TypeOK
    <3>3. pc' \in [Requests -> {"idle", "gates", "lookup", "lease", "unit", "admit",
                               "late", "run", "release", "end", "crashed"}]
      BY <2>5 DEF ClaimLease, TypeOK
    <3> QED BY <2>5, <3>1, <3>2, <3>3 DEF ClaimLease, TypeOK
  <2>6. CASE UnitReadable(r)
    BY <2>6 DEF UnitReadable, TypeOK
  <2>7. CASE UnitRefuses(r)
    <3>1. lease' \in [Resources -> LeaseRows]
      BY <2>7, LeasesTyped DEF UnitRefuses
    <3> QED BY <2>7, <3>1 DEF UnitRefuses, TypeOK
  <2>8. CASE StoppedBeforeAdmission(r)
    <3>1. lease' \in [Resources -> LeaseRows]
      BY <2>8, LeasesTyped DEF StoppedBeforeAdmission
    <3> QED BY <2>8, <3>1 DEF StoppedBeforeAdmission, TypeOK
  <2>9. CASE Admit(r)
    BY <2>9 DEF Admit, TypeOK
  <2>10. CASE AdmitFails(r)
    <3>1. lease' \in [Resources -> LeaseRows]
      BY <2>10, LeasesTyped DEF AdmitFails
    <3> QED BY <2>10, <3>1 DEF AdmitFails, Replay, Previous, TypeOK
  <2>11. CASE LateStop(r)
    BY <2>11 DEF LateStop, TypeOK
  <2>12. CASE MarkStarted(r)
    BY <2>12 DEF MarkStarted, TypeOK
  <2>13. CASE Poll(r)
    BY <2>13 DEF Poll, terminate, TypeOK
  <2>14. CASE TimeOut(r)
    BY <2>14 DEF TimeOut, terminate, TypeOK
  <2>15. CASE HaltCommand(r)
    BY <2>15 DEF HaltCommand, Notify, TypeOK
  <2>16. CASE HaltRead(r)
    BY <2>16 DEF HaltRead, TypeOK
  <2>17. CASE Finish(r)
    BY <2>17, OutcomeTyped DEF Finish, forget, TypeOK
  <2>18. CASE Release(r)
    <3>1. lease' \in [Resources -> LeaseRows]
      BY <2>18, LeasesTyped DEF Release
    <3> QED BY <2>18, <3>1 DEF Release, TypeOK
  <2> QED
    BY <1>1, <2>1, <2>2, <2>3, <2>4, <2>5, <2>6, <2>7, <2>8, <2>9, <2>10, <2>11,
       <2>12, <2>13, <2>14, <2>15, <2>16, <2>17, <2>18 DEF Process
<1>2. ASSUME NEW r \in Requests, System(r) PROVE TypeOK'
  <2>1. CASE ClientSubmits(r)
    BY <2>1 DEF ClientSubmits, TypeOK
  <2>2. CASE ClientAnswers(r)
    BY <2>2 DEF ClientAnswers, TypeOK
  <2>3. CASE JobEnds(r)
    BY <2>3 DEF JobEnds, Notify, TypeOK
  <2> QED BY <1>2, <2>1, <2>2, <2>3 DEF System
<1>3. ASSUME NEW r \in Requests, Crash(r) PROVE TypeOK'
  BY <1>3 DEF Crash, forget, TypeOK
<1>4. ASSUME NEW u \in Resources, ExpireLease(u) PROVE TypeOK'
  <2>1. [lease[u] EXCEPT !.expired = TRUE] \in LeaseRows
    <3>1. lease[u] \in LeaseRows
      BY DEF TypeOK
    <3> QED BY <3>1 DEF LeaseRows
  <2>2. lease' = [lease EXCEPT ![u] = [lease[u] EXCEPT !.expired = TRUE]]
    BY <1>4 DEF ExpireLease
  <2>3. lease' \in [Resources -> LeaseRows]
    BY <2>1, <2>2 DEF TypeOK
  <2> QED BY <1>4, <2>3 DEF ExpireLease, TypeOK
<1>5. ASSUME Console PROVE TypeOK'
  <2>1. ASSUME NEW x \in Lapsing, Lapse(x) PROVE TypeOK'
    BY <2>1, DocumentsAssumption DEF Lapse, TypeOK
  <2>2. ASSUME NEW x \in Revocable, Revoke(x) PROVE TypeOK'
    BY <2>2, DocumentsAssumption DEF Revoke, openJournal, orphanState, TypeOK
  <2>3. CASE SetStop
    BY <2>3 DEF SetStop, openJournal, orphanState, TypeOK
  <2>4. CASE SetStopFile
    BY <2>4 DEF SetStopFile, TypeOK
  <2>5. CASE Status
    BY <2>5 DEF Status, openJournal, orphanState, TypeOK
  <2> QED BY <1>5, <2>1, <2>2, <2>3, <2>4, <2>5 DEF Console
<1>6. CASE UNCHANGED vars
  BY <1>6 DEF vars, TypeOK
<1> QED BY <1>1, <1>2, <1>3, <1>4, <1>5, <1>6 DEF Next

\* Every variable keeps its type, in every instance.
THEOREM TypeCorrect == Spec => []TypeOK
<1>1. Init => TypeOK
  BY TypeInit
<1>2. TypeOK /\ [Next]_vars => TypeOK'
  BY TypeStep
<1> QED BY <1>1, <1>2, PTL DEF Spec

-----------------------------------------------------------------------------
(***************************************************************************)
(* The journal.  RowFollowsProcess ties a row to the place of its process  *)
(* in execute(); UniqueRows is the UNIQUE constraint.  Both are needed     *)
(* together: a client is spawned only for an admitted row.                 *)
(***************************************************************************)
BeforeAdmission == {"idle", "gates", "lookup", "lease", "unit", "admit"}

RowFollowsProcess ==
  \A r \in Requests :
    /\ pc[r] \in BeforeAdmission => rec[r] = "none"
    /\ pc[r] = "late" => rec[r] = "admitted"
    /\ pc[r] = "run" => rec[r] = "started"
    /\ rec[r] \in Open => pc[r] \in {"late", "run", "crashed"}
    /\ client[r] # "none" => rec[r] # "none"

UniqueRows ==
  \A r, s \in Requests : r # s /\ SameKey(r, s) => rec[r] = "none" \/ rec[s] = "none"

JournalInv == TypeOK /\ RowFollowsProcess /\ UniqueRows

\* Opening the journal creates no row, closes no row of a live process and
\* changes no closed row.
LEMMA OpenJournalKeeps ==
  ASSUME openJournal, UNCHANGED <<pc, req>>, JournalInv
  PROVE  /\ \A r \in Requests : rec[r] = "none" <=> rec'[r] = "none"
         /\ \A r \in Requests : pc[r] # "crashed" => rec'[r] = rec[r]
         /\ \A r \in Requests : rec'[r] \in Open => rec[r] \in Open
         /\ \A r \in Requests : rec[r] \in Final => rec'[r] = rec[r]
  BY DEF openJournal, processGone, orphanState, JournalInv, TypeOK

LEMMA JournalStep == JournalInv /\ [Next]_vars => JournalInv'
<1> SUFFICES ASSUME JournalInv, [Next]_vars PROVE JournalInv'
  OBVIOUS
<1>t. TypeOK'
  BY TypeStep DEF JournalInv
<1> USE DEF journalVars, runnerVars, systemdVars, Goto, Return, BeforeAdmission
<1>1. ASSUME NEW r \in Requests, Process(r) PROVE RowFollowsProcess' /\ UniqueRows'
  <2>1. CASE Start(r)
    BY <2>1 DEF Start, openJournal, processGone, orphanState, JournalInv, TypeOK,
                RowFollowsProcess, UniqueRows, SameKey
  <2>2. CASE Authorize(r)
    BY <2>2 DEF Authorize, JournalInv, TypeOK, RowFollowsProcess, UniqueRows, SameKey
  <2>3. CASE AnswerFromJournal(r)
    BY <2>3 DEF AnswerFromJournal, Replay, JournalInv, TypeOK, RowFollowsProcess, UniqueRows, SameKey
  <2>4. CASE CheckApproval(r)
    BY <2>4 DEF CheckApproval, JournalInv, TypeOK, RowFollowsProcess, UniqueRows, SameKey
  <2>5. CASE ClaimLease(r)
    BY <2>5 DEF ClaimLease, JournalInv, TypeOK, RowFollowsProcess, UniqueRows, SameKey
  <2>6. CASE UnitReadable(r)
    BY <2>6 DEF UnitReadable, JournalInv, TypeOK, RowFollowsProcess, UniqueRows, SameKey
  <2>7. CASE UnitRefuses(r)
    BY <2>7 DEF UnitRefuses, JournalInv, TypeOK, RowFollowsProcess, UniqueRows, SameKey
  <2>8. CASE StoppedBeforeAdmission(r)
    BY <2>8 DEF StoppedBeforeAdmission, JournalInv, TypeOK, RowFollowsProcess, UniqueRows, SameKey
  <2>9. CASE Admit(r)
    BY <2>9 DEF Admit, uniqueConflict, Previous, JournalInv, TypeOK, RowFollowsProcess, UniqueRows, SameKey
  <2>10. CASE AdmitFails(r)
    BY <2>10 DEF AdmitFails, Replay, JournalInv, TypeOK, RowFollowsProcess, UniqueRows, SameKey
  <2>11. CASE LateStop(r)
    BY <2>11 DEF LateStop, JournalInv, TypeOK, RowFollowsProcess, UniqueRows, SameKey
  <2>12. CASE MarkStarted(r)
    BY <2>12 DEF MarkStarted, JournalInv, TypeOK, RowFollowsProcess, UniqueRows, SameKey
  <2>13. CASE Poll(r)
    BY <2>13 DEF Poll, terminate, JournalInv, TypeOK, RowFollowsProcess, UniqueRows, SameKey
  <2>14. CASE TimeOut(r)
    BY <2>14 DEF TimeOut, terminate, JournalInv, TypeOK, RowFollowsProcess, UniqueRows, SameKey
  <2>15. CASE HaltCommand(r)
    BY <2>15 DEF HaltCommand, Notify, JournalInv, TypeOK, RowFollowsProcess, UniqueRows, SameKey
  <2>16. CASE HaltRead(r)
    BY <2>16 DEF HaltRead, JournalInv, TypeOK, RowFollowsProcess, UniqueRows, SameKey
  <2>17. CASE Finish(r)
    BY <2>17, OutcomeTyped DEF Finish, forget, JournalInv, TypeOK, RowFollowsProcess, UniqueRows, SameKey
  <2>18. CASE Release(r)
    BY <2>18 DEF Release, JournalInv, TypeOK, RowFollowsProcess, UniqueRows, SameKey
  <2> QED
    BY <1>1, <2>1, <2>2, <2>3, <2>4, <2>5, <2>6, <2>7, <2>8, <2>9, <2>10, <2>11,
       <2>12, <2>13, <2>14, <2>15, <2>16, <2>17, <2>18 DEF Process
<1>2. ASSUME NEW r \in Requests, System(r) PROVE RowFollowsProcess' /\ UniqueRows'
  <2>1. CASE ClientSubmits(r)
    BY <2>1 DEF ClientSubmits, JournalInv, TypeOK, RowFollowsProcess, UniqueRows, SameKey
  <2>2. CASE ClientAnswers(r)
    BY <2>2 DEF ClientAnswers, JournalInv, TypeOK, RowFollowsProcess, UniqueRows, SameKey
  <2>3. CASE JobEnds(r)
    BY <2>3 DEF JobEnds, Notify, JournalInv, TypeOK, RowFollowsProcess, UniqueRows, SameKey
  <2> QED BY <1>2, <2>1, <2>2, <2>3 DEF System
<1>3. ASSUME NEW r \in Requests, Crash(r) PROVE RowFollowsProcess' /\ UniqueRows'
  BY <1>3 DEF Crash, forget, JournalInv, TypeOK, RowFollowsProcess, UniqueRows, SameKey
<1>4. ASSUME NEW u \in Resources, ExpireLease(u) PROVE RowFollowsProcess' /\ UniqueRows'
  BY <1>4 DEF ExpireLease, JournalInv, RowFollowsProcess, UniqueRows, SameKey
<1>5. ASSUME Console PROVE RowFollowsProcess' /\ UniqueRows'
  <2>1. CASE UNCHANGED <<req, pc, rec, client>>
    BY <2>1 DEF JournalInv, RowFollowsProcess, UniqueRows, SameKey
  <2>2. CASE openJournal /\ UNCHANGED <<req, pc, client>>
    BY <2>2, OpenJournalKeeps DEF JournalInv, RowFollowsProcess, UniqueRows, SameKey
  <2> QED BY <1>5, <2>1, <2>2 DEF Console, Lapse, Revoke, SetStop, SetStopFile, Status
<1>6. CASE UNCHANGED vars
  BY <1>6, <1>t DEF vars, JournalInv, RowFollowsProcess, UniqueRows, SameKey
<1> QED BY <1>t, <1>1, <1>2, <1>3, <1>4, <1>5, <1>6 DEF Next, JournalInv

LEMMA JournalAlways == Spec => []JournalInv
<1>1. Init => JournalInv
  <2>1. Init => RowFollowsProcess /\ UniqueRows
    BY DEF Init, RowFollowsProcess, UniqueRows, BeforeAdmission
  <2> QED BY <2>1, TypeInit DEF JournalInv
<1>2. JournalInv /\ [Next]_vars => JournalInv'
  BY JournalStep
<1> QED BY <1>1, <1>2, PTL DEF Spec

\* An approval or idempotency key is executed at most once, however many
\* processes present it, at whatever moment they crash (F09).
THEOREM KeyExecutedOnce == Spec => []KeySingleUse
<1>1. JournalInv => KeySingleUse
  BY DEF JournalInv, RowFollowsProcess, UniqueRows, KeySingleUse
<1> QED BY <1>1, JournalAlways, PTL

\* The row of a live process is never closed by another one.
THEOREM LiveRowsStayOpen == Spec => []LiveRowIsOpen
<1>1. JournalInv => LiveRowIsOpen
  BY DEF JournalInv, RowFollowsProcess, LiveRowIsOpen
<1> QED BY <1>1, JournalAlways, PTL

LEMMA FinalRowsKept ==
  ASSUME JournalInv, [Next]_vars
  PROVE  req' = req /\ \A r \in Requests : rec[r] \in Final => rec'[r] = rec[r]
<1> DEFINE Keeps == \A r \in Requests : rec[r] \in Final => rec'[r] = rec[r]
<1> USE DEF journalVars, JournalInv, RowFollowsProcess, TypeOK
<1>1. ASSUME NEW r \in Requests, Process(r) PROVE Keeps
  <2>1. CASE Start(r)
    BY <2>1 DEF Start, openJournal
  <2>2. CASE Admit(r)
    BY <2>2 DEF Admit, BeforeAdmission
  <2>3. CASE LateStop(r) \/ MarkStarted(r) \/ Finish(r)
    BY <2>3 DEF LateStop, MarkStarted, Finish
  <2>4. CASE UNCHANGED rec
    BY <2>4
  <2> QED
    BY <1>1, <2>1, <2>2, <2>3, <2>4 DEF Process, Authorize, AnswerFromJournal, CheckApproval,
       ClaimLease, UnitReadable, UnitRefuses, StoppedBeforeAdmission, AdmitFails, Poll,
       TimeOut, HaltCommand, HaltRead, Release
<1>2. ASSUME openJournal PROVE Keeps
  BY <1>2 DEF openJournal
<1>3. ASSUME UNCHANGED rec PROVE Keeps
  BY <1>3
<1>4. Keeps
  BY <1>1, <1>2, <1>3 DEF Next, System, ClientSubmits, ClientAnswers, JobEnds, Crash, ExpireLease,
     Console, Lapse, Revoke, SetStop, SetStopFile, Status, vars
<1>5. ASSUME NEW r \in Requests, Process(r) PROVE req' = req
  BY <1>5 DEF Process, Start, Authorize, AnswerFromJournal, CheckApproval, ClaimLease,
     UnitReadable, UnitRefuses, StoppedBeforeAdmission, Admit, AdmitFails, LateStop,
     MarkStarted, Poll, TimeOut, HaltCommand, HaltRead, Finish, Release
<1>6. ASSUME NEW r \in Requests, System(r) \/ Crash(r) PROVE req' = req
  BY <1>6 DEF System, ClientSubmits, ClientAnswers, JobEnds, Crash
<1>7. ASSUME (\E u \in Resources : ExpireLease(u)) \/ Console \/ UNCHANGED vars PROVE req' = req
  BY <1>7 DEF ExpireLease, Console, Lapse, Revoke, SetStop, SetStopFile, Status, vars
<1>8. req' = req
  BY <1>5, <1>6, <1>7 DEF Next
<1> QED BY <1>4, <1>8

\* A recorded outcome is final: neither a late finish() nor the closing of
\* orphans overwrites it.
THEOREM OutcomesAreFinal == Spec => OutcomeIsFinal
<1> DEFINE Keeps == \A r \in Requests : rec[r] \in Final => rec'[r] = rec[r]
<1>1. JournalInv /\ [Next]_vars => [Keeps]_vars
  BY FinalRowsKept
<1> QED BY <1>1, JournalAlways, PTL DEF Spec, OutcomeIsFinal

(***************************************************************************)
(* What callers are told.  Only an actuation the operator approved gets    *)
(* past the approval gate or into the journal; with approval_ids that are  *)
(* nonces, a replay is therefore a replay of the same action, also when    *)
(* the insert lost the race and the hash is not compared again.            *)
(***************************************************************************)
OnlyApproved ==
  \A r \in Requests :
    Actuates(r) /\ (pc[r] \in {"lease", "unit", "admit"} \/ rec[r] # "none") =>
      req[r].authentic /\ req[r].origin = "operator" /\ req[r].approved = req[r].hash

ReplyInv == JournalInv /\ OnlyApproved /\ ReplyIsRecorded

LEMMA ReplyStep == ReplyInv /\ [Next]_vars => ReplyInv'
<1> SUFFICES ASSUME ReplyInv, [Next]_vars PROVE ReplyInv'
  OBVIOUS
<1>t. JournalInv /\ JournalInv'
  BY JournalStep DEF ReplyInv
<1>u. TypeOK /\ RowFollowsProcess
  BY <1>t DEF JournalInv
<1>k. req' = req /\ \A r \in Requests : rec[r] \in Final => rec'[r] = rec[r]
  BY <1>t, FinalRowsKept
<1> DEFINE Backed(r, o) ==
             \E s \in Requests : /\ SameKey(r, s) /\ rec[s] = o
                                 /\ Actuates(r) => req[s].hash = req[r].hash
           Rest == OnlyApproved /\ ReplyIsRecorded
<1> USE DEF journalVars, Goto, Return, ReplyInv
\* Replies that are not touched stay backed.
<1>b. ASSUME \A r \in Requests : reply'[r] \in Final =>
                reply'[r] = reply[r] \/ Backed(r, reply'[r])
      PROVE  ReplyIsRecorded'
  BY <1>b, <1>k DEF ReplyIsRecorded, SameKey, Actuates
\* A row that answers a process at the approval gate or at admission.
<1>p. ASSUME NEW r \in Requests, NEW s \in Previous(r), UNCHANGED <<rec>>, Replay(r, s),
             Actuates(r) => req[s].hash = req[r].hash
      PROVE  ReplyIsRecorded'
  <2>1. s \in Requests /\ SameKey(r, s) /\ rec[s] \in Open \cup Final
    BY <1>u DEF Previous, TypeOK
  <2> QED BY <1>p, <1>b, <1>u, <2>1 DEF Replay, TypeOK
<1>m. ASSUME NEW r \in Requests, NEW l, Goto(r, l), l \notin {"lease", "unit", "admit"},
             UNCHANGED rec
      PROVE  OnlyApproved'
  BY <1>m, <1>k, <1>u DEF OnlyApproved, Actuates, TypeOK
<1>s. ASSUME UNCHANGED <<pc, rec, reply>> PROVE Rest'
  BY <1>s, <1>k, <1>b DEF OnlyApproved, Actuates
<1>o. ASSUME openJournal, UNCHANGED <<pc, reply>> PROVE Rest'
  <2>1. OnlyApproved'
    BY <1>o, <1>k, <1>t, OpenJournalKeeps DEF OnlyApproved, Actuates
  <2> QED BY <1>o, <1>b, <2>1
<1>1. ASSUME NEW r \in Requests, Process(r) PROVE Rest'
  <2>1. CASE Start(r)
    <3>1. OnlyApproved'
      BY <2>1, <1>k, <1>u DEF Start, openJournal, OnlyApproved, Actuates, TypeOK
    <3> QED BY <2>1, <3>1, <1>b DEF Start
  <2>2. CASE Authorize(r)
    <3>1. ReplyIsRecorded'
      BY <2>2, <1>b, <1>u DEF Authorize, TypeOK
    <3> QED BY <2>2, <3>1, <1>m DEF Authorize
  <2>3. CASE AnswerFromJournal(r)
    <3>1. OnlyApproved'
      BY <2>3, <1>m DEF AnswerFromJournal, Replay
    <3>2. PICK s \in Previous(r) :
            IF Actuates(r) /\ req[s].hash # req[r].hash THEN Return(r, "refused") ELSE Replay(r, s)
      BY <2>3 DEF AnswerFromJournal
    <3>3. CASE Actuates(r) /\ req[s].hash # req[r].hash
      BY <3>1, <3>2, <3>3, <1>b, <1>u DEF TypeOK
    <3>4. CASE ~(Actuates(r) /\ req[s].hash # req[r].hash)
      BY <2>3, <3>1, <3>2, <3>4, <1>p DEF AnswerFromJournal
    <3> QED BY <3>3, <3>4
  <2>4. CASE CheckApproval(r)
    <3>1. ReplyIsRecorded'
      BY <2>4, <1>b, <1>u DEF CheckApproval, TypeOK
    <3>2. OnlyApproved'
      BY <2>4, <1>k, <1>u DEF CheckApproval, verifyActuationApproval, OnlyApproved, Actuates, TypeOK
    <3> QED BY <3>1, <3>2
  <2>5. CASE ClaimLease(r) \/ UnitReadable(r)
    <3>1. ReplyIsRecorded'
      BY <2>5, <1>b, <1>u DEF ClaimLease, UnitReadable, TypeOK
    <3>2. OnlyApproved'
      BY <2>5, <1>k, <1>u DEF ClaimLease, UnitReadable, OnlyApproved, Actuates, TypeOK
    <3> QED BY <3>1, <3>2
  <2>6. CASE UnitRefuses(r) \/ StoppedBeforeAdmission(r)
    <3>1. ReplyIsRecorded'
      BY <2>6, <1>b, <1>u DEF UnitRefuses, StoppedBeforeAdmission, TypeOK
    <3> QED BY <2>6, <3>1, <1>m DEF UnitRefuses, StoppedBeforeAdmission
  <2>7. CASE Admit(r)
    <3>1. OnlyApproved'
      BY <2>7, <1>k, <1>u DEF Admit, OnlyApproved, Actuates, TypeOK
    <3> QED BY <2>7, <3>1, <1>b DEF Admit
  <2>13. CASE AdmitFails(r) /\ Previous(r) = {}
    <3>1. ReplyIsRecorded'
      BY <2>13, <1>b, <1>u DEF AdmitFails, TypeOK
    <3> QED BY <2>13, <3>1, <1>m DEF AdmitFails
  <2>8. CASE AdmitFails(r) /\ Previous(r) # {}
    <3>1. PICK s \in Previous(r) : Replay(r, s)
      BY <2>8 DEF AdmitFails
    <3>2. s \in Requests /\ SameKey(r, s) /\ rec[s] # "none"
      BY DEF Previous
    <3>3. Actuates(r) => req[s].hash = req[r].hash
      <4> SUFFICES ASSUME Actuates(r) PROVE req[s].hash = req[r].hash
        OBVIOUS
      <4>1. req[r].authentic /\ req[r].approved = req[r].hash
        BY <2>8 DEF AdmitFails, OnlyApproved
      <4>2. Actuates(s) /\ req[s].key = req[r].key
        BY <3>2 DEF SameKey, Actuates
      <4>3. req[s].authentic /\ req[s].approved = req[s].hash
        BY <3>2, <4>2 DEF OnlyApproved
      <4>4. req[r].approved = req[s].approved
        BY <3>2, <4>1, <4>2, <4>3, <1>u, NonceAssumption DEF Actuates, TypeOK
      <4> QED BY <4>1, <4>3, <4>4
    <3>4. ReplyIsRecorded'
      BY <2>8, <3>1, <3>3, <1>p DEF AdmitFails
    <3> QED BY <2>8, <3>1, <3>4, <1>m DEF AdmitFails, Replay
  <2>9. CASE LateStop(r) \/ Finish(r)
    <3>1. OnlyApproved'
      BY <2>9, <1>k, <1>u DEF LateStop, Finish, RowFollowsProcess, OnlyApproved, Actuates, TypeOK
    <3>2. \A s \in Requests : reply'[s] = reply[s] \/ (s = r /\ rec'[r] = reply'[r])
      <4>1. CASE LateStop(r)
        BY <2>9, <4>1, <1>u DEF LateStop, TypeOK
      <4>2. CASE Finish(r)
        BY <2>9, <4>2, <1>u DEF Finish, TypeOK
      <4> QED BY <2>9, <4>1, <4>2
    <3>3. ReplyIsRecorded'
      BY <3>2, <1>k DEF ReplyIsRecorded, SameKey, Actuates
    <3> QED BY <3>1, <3>3
  <2>10. CASE MarkStarted(r)
    <3>1. OnlyApproved'
      BY <2>10, <1>k, <1>u DEF MarkStarted, RowFollowsProcess, OnlyApproved, Actuates, TypeOK
    <3> QED BY <2>10, <3>1, <1>b DEF MarkStarted
  <2>11. CASE Poll(r) \/ TimeOut(r) \/ HaltCommand(r) \/ HaltRead(r)
    BY <2>11, <1>s DEF Poll, TimeOut, HaltCommand, HaltRead
  <2>12. CASE Release(r)
    BY <2>12, <1>b, <1>m DEF Release
  <2> QED
    BY <1>1, <2>1, <2>2, <2>3, <2>4, <2>5, <2>6, <2>7, <2>8, <2>9, <2>10, <2>11, <2>12, <2>13 DEF Process
<1>2. ASSUME NEW r \in Requests, System(r) PROVE Rest'
  BY <1>2, <1>s DEF System, ClientSubmits, ClientAnswers, JobEnds
<1>3. ASSUME NEW r \in Requests, Crash(r) PROVE Rest'
  BY <1>3, <1>m, <1>b DEF Crash
<1>4. ASSUME NEW u \in Resources, ExpireLease(u) PROVE Rest'
  BY <1>4, <1>s DEF ExpireLease
<1>5. ASSUME Console PROVE Rest'
  BY <1>5, <1>o, <1>s DEF Console, Lapse, Revoke, SetStop, SetStopFile, Status
<1>6. ASSUME UNCHANGED vars PROVE Rest'
  BY <1>6, <1>s DEF vars
<1> QED BY <1>t, <1>1, <1>2, <1>3, <1>4, <1>5, <1>6 DEF Next

\* Every outcome a caller is told is the recorded outcome of one execution of
\* the same action under the same key.
THEOREM RepliesAreRecorded == Spec => []ReplyIsRecorded
<1>1. Init => ReplyInv
  <2>1. Init => JournalInv
    BY TypeInit DEF Init, JournalInv, RowFollowsProcess, UniqueRows, BeforeAdmission
  <2> QED BY <2>1 DEF Init, ReplyInv, OnlyApproved, ReplyIsRecorded
<1>2. ReplyInv /\ [Next]_vars => ReplyInv'
  BY ReplyStep
<1>3. ReplyInv => ReplyIsRecorded
  BY DEF ReplyInv
<1> QED BY <1>1, <1>2, <1>3, PTL DEF Spec

-----------------------------------------------------------------------------
(***************************************************************************)
(* The run.  What the runner believes of its client and of the unit, as    *)
(* far as the row that is written at its end depends on it.                *)
(***************************************************************************)
ClientMirrorsJob ==
  \A r \in Requests :
    /\ rec[r] \in {"none", "admitted"} => client[r] = "none"
    /\ client[r] \in {"none", "spawned"} => job[r] = "none"
    /\ client[r] = "waiting" => job[r] = "running"
    /\ Actuates(r) /\ client[r] = "exit0" => job[r] = "done"

RunnerMemory ==
  \A r \in Requests :
    /\ why[r] # "none" => client[r] \in Exited
    /\ aborted[r] \/ halt[r] # "none" => why[r] # "none"
    /\ halt[r] = "confirmed" => job[r] # "running"

RunInv ==
  JournalInv /\ ClientMirrorsJob /\ RunnerMemory /\ DoneIsReal /\ InterruptedIsQuiet

LEMMA RunStep == RunInv /\ [Next]_vars => RunInv'
<1> SUFFICES ASSUME RunInv, [Next]_vars PROVE RunInv'
  OBVIOUS
<1>t. JournalInv /\ JournalInv'
  BY JournalStep DEF RunInv
<1>u. TypeOK /\ RowFollowsProcess
  BY <1>t DEF JournalInv
<1> DEFINE Rest == ClientMirrorsJob /\ RunnerMemory /\ DoneIsReal /\ InterruptedIsQuiet
<1> USE DEF journalVars, runnerVars, systemdVars, Goto, Return, BeforeAdmission, RunInv,
        ClientMirrorsJob, RunnerMemory, DoneIsReal, InterruptedIsQuiet, Actuates
<1>o. ASSUME openJournal, UNCHANGED <<req, client, why, halt, aborted, job>> PROVE Rest'
  BY <1>o, <1>u DEF openJournal, orphanState, TypeOK
<1>1. ASSUME NEW r \in Requests, Process(r) PROVE Rest'
  <2>1. CASE Start(r)
    BY <2>1, <1>o DEF Start
  <2>2. CASE Admit(r)
    BY <2>2, <1>u DEF Admit, RowFollowsProcess, TypeOK
  <2>3. CASE LateStop(r)
    BY <2>3, <1>u DEF LateStop, RowFollowsProcess, TypeOK
  <2>4. CASE MarkStarted(r)
    BY <2>4, <1>u DEF MarkStarted, RowFollowsProcess, TypeOK
  <2>5. CASE Poll(r)
    BY <2>5, <1>u DEF Poll, terminate, RowFollowsProcess, TypeOK
  <2>6. CASE TimeOut(r)
    BY <2>6, <1>u DEF TimeOut, terminate, RowFollowsProcess, TypeOK
  <2>7. CASE HaltCommand(r)
    BY <2>7, <1>u DEF HaltCommand, Notify, RunningOn, TypeOK
  <2>8. CASE HaltRead(r)
    BY <2>8, <1>u DEF HaltRead, UnitHalted, RunningOn, TypeOK
  <2>9. CASE Finish(r)
    BY <2>9, <1>u DEF Finish, RunnerResolved, Outcome, forget, RowFollowsProcess, TypeOK
  <2>10. CASE UNCHANGED <<req, rec, client, why, halt, aborted, job>>
    BY <2>10
  <2> QED
    BY <1>1, <2>1, <2>2, <2>3, <2>4, <2>5, <2>6, <2>7, <2>8, <2>9, <2>10
    DEF Process, Authorize, AnswerFromJournal, CheckApproval, ClaimLease, UnitReadable,
        UnitRefuses, StoppedBeforeAdmission, AdmitFails, Release
<1>2. ASSUME NEW r \in Requests, System(r) PROVE Rest'
  <2>1. CASE ClientSubmits(r)
    BY <2>1, <1>u DEF ClientSubmits, RowFollowsProcess, TypeOK
  <2>2. CASE ClientAnswers(r)
    BY <2>2, <1>u DEF ClientAnswers, TypeOK
  <2>3. CASE JobEnds(r)
    BY <2>3, <1>u DEF JobEnds, Notify, TypeOK
  <2> QED BY <1>2, <2>1, <2>2, <2>3 DEF System
<1>3. ASSUME NEW r \in Requests, Crash(r) PROVE Rest'
  BY <1>3, <1>u DEF Crash, forget, TypeOK
<1>4. ASSUME NEW u \in Resources, ExpireLease(u) PROVE Rest'
  BY <1>4 DEF ExpireLease
<1>5. ASSUME Console PROVE Rest'
  <2>1. CASE UNCHANGED <<req, rec, client, why, halt, aborted, job>>
    BY <2>1
  <2> QED BY <1>5, <1>o, <2>1 DEF Console, Lapse, Revoke, SetStop, SetStopFile, Status
<1>6. ASSUME UNCHANGED vars PROVE Rest'
  BY <1>6 DEF vars
<1> QED BY <1>t, <1>1, <1>2, <1>3, <1>4, <1>5, <1>6 DEF Next

LEMMA RunAlways == Spec => []RunInv
<1>1. Init => RunInv
  <2>1. Init => JournalInv
    BY TypeInit DEF Init, JournalInv, RowFollowsProcess, UniqueRows, BeforeAdmission
  <2> QED BY <2>1 DEF Init, RunInv, ClientMirrorsJob, RunnerMemory, DoneIsReal, InterruptedIsQuiet
<1>2. RunInv /\ [Next]_vars => RunInv'
  BY RunStep
<1> QED BY <1>1, <1>2, PTL DEF Spec

\* A row says `done` only of an actuation whose systemd job ended well (F07).
THEOREM DoneIsAlwaysReal == Spec => []DoneIsReal
<1>1. RunInv => DoneIsReal
  BY DEF RunInv
<1> QED BY <1>1, RunAlways, PTL

\* Once an actuation is recorded `interrupted` its job does not run and cannot
\* be submitted any more (D1).
THEOREM InterruptedStaysQuiet == Spec => []InterruptedIsQuiet
<1>1. RunInv => InterruptedIsQuiet
  BY DEF RunInv
<1> QED BY <1>1, RunAlways, PTL

-----------------------------------------------------------------------------
(***************************************************************************)
(* The lease.  The counting argument: what a process adds when it claims   *)
(* it takes away when it releases, so the row of a resource that somebody  *)
(* holds is never deleted nor handed over.                                 *)
(***************************************************************************)
LEMMA HoldersFinite ==
  ASSUME NEW u PROVE IsFiniteSet(Holders(u)) /\ Cardinality(Holders(u)) \in Nat
  BY RequestsAssumption, FS_Subset, FS_CardinalityType DEF Holders

\* Steps that neither claim nor release.
LEMMA LeaseUntouched ==
  ASSUME TypeOK, LeaseCountsHolders, UNCHANGED <<req, lease>>,
         \A r \in Requests : Holding(r)' => Holding(r)
  PROVE  LeaseCountsHolders'
<1> SUFFICES ASSUME NEW u \in Resources, Holders(u)' # {}
             PROVE  /\ ~lease'[u].expired
                    /\ lease'[u].depth >= Cardinality(Holders(u)')
                    /\ \A r \in Holders(u)' : req'[r].owner = lease'[u].owner
  BY DEF LeaseCountsHolders
<1>1. Holders(u)' \subseteq Holders(u)
  BY DEF Holders
<1>2. Cardinality(Holders(u)') <= Cardinality(Holders(u)) /\ Cardinality(Holders(u)') \in Nat
  BY <1>1, HoldersFinite, FS_Subset, FS_CardinalityType
<1>3. lease[u].depth \in Nat
  BY DEF TypeOK, LeaseRows
<1> QED BY <1>1, <1>2, <1>3, HoldersFinite DEF LeaseCountsHolders

LEMMA LeaseClaimed ==
  ASSUME TypeOK, LeaseCountsHolders, UNCHANGED req, NEW r \in Requests,
         ~Holding(r), Holding(r)', claimLease(r),
         ~leaseBusy(lease[req[r].resource], req[r].owner),
         \A s \in Requests \ {r} : Holding(s)' <=> Holding(s)
  PROVE  LeaseCountsHolders'
<1> SUFFICES ASSUME NEW u \in Resources, Holders(u)' # {}
             PROVE  /\ ~lease'[u].expired
                    /\ lease'[u].depth >= Cardinality(Holders(u)')
                    /\ \A s \in Holders(u)' : req'[s].owner = lease'[u].owner
  BY DEF LeaseCountsHolders
<1>0. lease[u] \in LeaseRows /\ lease[u].depth \in Nat
  BY DEF TypeOK, LeaseRows
<1>1. CASE u # req[r].resource
  <2>1. Holders(u)' = Holders(u)
    BY <1>1 DEF Holders
  <2>2. lease'[u] = lease[u]
    BY <1>1, InputsTyped DEF claimLease, TypeOK
  <2> QED BY <2>1, <2>2 DEF LeaseCountsHolders, Holders
<1>2. CASE u = req[r].resource
  <2>1. Holders(u)' = Holders(u) \cup {r} /\ r \notin Holders(u)
    BY <1>2 DEF Holders
  <2>2. Cardinality(Holders(u)') = Cardinality(Holders(u)) + 1
    BY <2>1, HoldersFinite, FS_AddElement
  <2>3. lease'[u] = claimedRow(lease[u], req[r].owner)
    BY <1>2 DEF claimLease, TypeOK
  <2>4. CASE Holders(u) = {}
    <3>1. Cardinality(Holders(u)') = 1
      BY <2>2, <2>4, FS_EmptySet
    <3> QED BY <1>0, <2>1, <2>3, <2>4, <3>1 DEF claimedRow
  <2>5. CASE Holders(u) # {}
    <3>1. Cardinality(Holders(u)) \in Nat /\ Cardinality(Holders(u)) # 0
      BY <2>5, HoldersFinite, FS_EmptySet
    <3>2. /\ ~lease[u].expired /\ lease[u].depth >= Cardinality(Holders(u))
          /\ \A s \in Holders(u) : req[s].owner = lease[u].owner
      BY <2>5 DEF LeaseCountsHolders
    <3>3. lease[u].owner = req[r].owner
      BY <1>0, <1>2, <3>1, <3>2 DEF leaseBusy
    <3> QED BY <1>0, <2>1, <2>2, <2>3, <3>1, <3>2, <3>3 DEF claimedRow
  <2> QED BY <2>4, <2>5
<1> QED BY <1>1, <1>2

LEMMA LeaseReleased ==
  ASSUME TypeOK, LeaseCountsHolders, UNCHANGED req, NEW r \in Requests,
         Holding(r), ~Holding(r)', releaseLease(r),
         \A s \in Requests \ {r} : Holding(s)' <=> Holding(s)
  PROVE  LeaseCountsHolders'
<1> SUFFICES ASSUME NEW u \in Resources, Holders(u)' # {}
             PROVE  /\ ~lease'[u].expired
                    /\ lease'[u].depth >= Cardinality(Holders(u)')
                    /\ \A s \in Holders(u)' : req'[s].owner = lease'[u].owner
  BY DEF LeaseCountsHolders
<1>0. lease[u] \in LeaseRows /\ lease[u].depth \in Nat
  BY DEF TypeOK, LeaseRows
<1>1. CASE u # req[r].resource
  <2>1. Holders(u)' = Holders(u)
    BY <1>1 DEF Holders
  <2>2. lease'[u] = lease[u]
    BY <1>1, InputsTyped DEF releaseLease, TypeOK
  <2> QED BY <2>1, <2>2 DEF LeaseCountsHolders, Holders
<1>2. CASE u = req[r].resource
  <2>1. Holders(u)' = Holders(u) \ {r} /\ r \in Holders(u)
    BY <1>2 DEF Holders
  <2>2. Cardinality(Holders(u)') = Cardinality(Holders(u)) - 1
    BY <2>1, HoldersFinite, FS_RemoveElement
  <2>3. Cardinality(Holders(u)') \in Nat /\ Cardinality(Holders(u)') # 0
    <3>1. IsFiniteSet(Holders(u)')
      BY <2>1, HoldersFinite, FS_Subset
    <3> QED BY <3>1, FS_EmptySet, FS_CardinalityType
  <2>4. lease'[u] = releasedRow(lease[u], req[r].owner)
    BY <1>2 DEF releaseLease, TypeOK
  <2>5. /\ ~lease[u].expired /\ lease[u].depth >= Cardinality(Holders(u))
        /\ \A s \in Holders(u) : req[s].owner = lease[u].owner
    BY <2>1 DEF LeaseCountsHolders
  <2>6. lease[u].depth > 1
    BY <1>0, <2>2, <2>3, <2>5, HoldersFinite
  <2>7. lease'[u] = [lease[u] EXCEPT !.depth = lease[u].depth - 1]
    BY <2>1, <2>4, <2>5, <2>6, <1>0 DEF releasedRow
  <2>8. /\ lease'[u].depth = lease[u].depth - 1
        /\ lease'[u].expired = lease[u].expired /\ lease'[u].owner = lease[u].owner
    BY <2>7, <1>0 DEF LeaseRows
  <2> QED BY <1>0, <2>1, <2>2, <2>3, <2>5, <2>8, HoldersFinite
<1> QED BY <1>1, <1>2

(***************************************************************************)
(* ExclusiveAcrossOwners is not inductive: a process that has passed       *)
(* inFlightOn() and waits for the state of the unit has no row yet.        *)
(* ContendersShareOwner includes those processes.                          *)
(***************************************************************************)
Contender(r) == Actuates(r) /\ (pc[r] \in {"unit", "admit"} \/ rec[r] \in Open)

ContendersShareOwner ==
  \A r, s \in Requests :
    /\ Contender(r) /\ Actuates(s) /\ rec[s] \in Open
    /\ req[r].resource = req[s].resource
    => req[r].owner = req[s].owner

LeaseInv == JournalInv /\ LeaseCountsHolders /\ ContendersShareOwner

\* Steps after which no process contends that did not, and no row is open
\* that was not.
LEMMA NoNewContender ==
  ASSUME ContendersShareOwner, UNCHANGED req,
         \A r \in Requests : Contender(r)' => Contender(r),
         \A r \in Requests : rec'[r] \in Open => rec[r] \in Open
  PROVE  ContendersShareOwner'
  BY DEF ContendersShareOwner, Actuates

LEMMA LeaseStep ==
  ASSUME ~Overtime, LeaseInv, [Next]_vars
  PROVE  LeaseInv'
<1>t. JournalInv /\ JournalInv'
  BY JournalStep DEF LeaseInv
<1>u. TypeOK /\ RowFollowsProcess /\ LeaseCountsHolders /\ ContendersShareOwner
  BY <1>t DEF JournalInv, LeaseInv
<1> DEFINE Rest == LeaseCountsHolders /\ ContendersShareOwner
<1> USE DEF journalVars, Goto, Return
\* Leaving through a release: UnitRefuses, StoppedBeforeAdmission, AdmitFails, Release.
<1>r. ASSUME NEW r \in Requests, Holding(r), UNCHANGED <<req, rec>>, releaseLease(r), Goto(r, "end")
      PROVE  Rest'
  <2>1. LeaseCountsHolders'
    BY <1>r, <1>u, LeaseReleased DEF Holding, TypeOK
  <2>2. ContendersShareOwner'
    BY <1>r, <1>u, NoNewContender DEF Contender, Actuates, TypeOK
  <2> QED BY <2>1, <2>2
\* Moving without touching rows or leases, and without beginning to hold.
<1>m. ASSUME NEW r \in Requests, NEW l, Goto(r, l), UNCHANGED <<req, rec, lease>>,
             l \notin {"unit", "admit", "late", "run", "release"}
      PROVE  Rest'
  <2>1. LeaseCountsHolders'
    BY <1>m, <1>u, LeaseUntouched DEF Holding, TypeOK
  <2>2. ContendersShareOwner'
    BY <1>m, <1>u, NoNewContender DEF Contender, Actuates, TypeOK
  <2> QED BY <2>1, <2>2
<1>s. ASSUME UNCHANGED <<req, pc, rec, lease>> PROVE Rest'
  <2>1. LeaseCountsHolders'
    BY <1>s, <1>u, LeaseUntouched DEF Holding
  <2>2. ContendersShareOwner'
    BY <1>s, <1>u, NoNewContender DEF Contender, Actuates
  <2> QED BY <2>1, <2>2
<1>o. ASSUME openJournal, UNCHANGED <<req, pc, lease>> PROVE Rest'
  <2>1. LeaseCountsHolders'
    BY <1>o, <1>u, LeaseUntouched DEF Holding
  <2>2. ContendersShareOwner'
    BY <1>o, <1>t, <1>u, OpenJournalKeeps, NoNewContender DEF Contender, Actuates
  <2> QED BY <2>1, <2>2
<1>1. ASSUME NEW r \in Requests, Process(r) PROVE Rest'
  <2>1. CASE Start(r)
    <3>1. LeaseCountsHolders'
      BY <2>1, <1>u, LeaseUntouched DEF Start, Holding, TypeOK
    <3>2. \A s \in Requests : rec'[s] \in Open => rec[s] \in Open
      BY <2>1 DEF Start, openJournal, orphanState
    <3>3. ContendersShareOwner'
      BY <2>1, <1>u, <3>2, NoNewContender DEF Start, Contender, Actuates, TypeOK
    <3> QED BY <3>1, <3>3
  <2>2. CASE Authorize(r) \/ AnswerFromJournal(r) \/ CheckApproval(r)
    BY <2>2, <1>m DEF Authorize, AnswerFromJournal, Replay, CheckApproval
  <2>3. CASE ClaimLease(r)
    <3>1. CASE Contradicted(r) \/ leaseBusy(lease[req[r].resource], req[r].owner)
      BY <2>3, <3>1, <1>m DEF ClaimLease
    <3>2. CASE ~(Contradicted(r) \/ leaseBusy(lease[req[r].resource], req[r].owner))
      <4>1. LeaseCountsHolders'
        BY <2>3, <3>2, <1>u, LeaseClaimed DEF ClaimLease, Holding, TypeOK
      <4>2. UNCHANGED <<req, rec>> /\ \A s \in Requests \ {r} : pc'[s] = pc[s]
        BY <2>3, <3>2, <1>u DEF ClaimLease, TypeOK
      <4>3. rec[r] \notin Open
        BY <2>3, <1>u DEF ClaimLease, RowFollowsProcess, BeforeAdmission
      <4>4. Actuates(r) =>
              ~\E s \in Requests : Actuates(s) /\ rec[s] \in Open /\ req[s].resource = req[r].resource
        BY <3>2 DEF Contradicted, inFlightOn
      <4>5. ContendersShareOwner'
        BY <1>u, <4>2, <4>3, <4>4 DEF ContendersShareOwner, Contender, Actuates
      <4> QED BY <4>1, <4>5
    <3> QED BY <3>1, <3>2
  <2>4. CASE UnitReadable(r)
    <3>1. LeaseCountsHolders'
      BY <2>4, <1>u, LeaseUntouched DEF UnitReadable, Holding, TypeOK
    <3>2. ContendersShareOwner'
      BY <2>4, <1>u, NoNewContender DEF UnitReadable, Contender, Actuates, TypeOK
    <3> QED BY <3>1, <3>2
  <2>5. CASE UnitRefuses(r) \/ StoppedBeforeAdmission(r) \/ AdmitFails(r) \/ Release(r)
    BY <2>5, <1>r DEF UnitRefuses, StoppedBeforeAdmission, AdmitFails, Replay, Release, Holding
  <2>6. CASE Admit(r)
    <3>1. LeaseCountsHolders'
      BY <2>6, <1>u, LeaseUntouched DEF Admit, Holding, TypeOK
    \* Whoever else contends holds the same lease as r, or had a row open
    \* while r was already contending.
    <3>2. ASSUME NEW s \in Requests, s # r, Contender(s), Actuates(r),
                 req[s].resource = req[r].resource
          PROVE  req[s].owner = req[r].owner
      <4>1. Contender(r)
        BY <2>6, <3>2 DEF Admit, Contender
      <4>2. CASE rec[s] \in Open
        BY <4>1, <4>2, <3>2, <1>u DEF ContendersShareOwner, Contender
      <4>3. CASE pc[s] \in {"unit", "admit"}
        <5>1. r \in Holders(req[r].resource) /\ s \in Holders(req[r].resource)
          BY <2>6, <3>2, <4>3 DEF Admit, Holders, Holding
        <5> QED BY <5>1, <1>u, InputsTyped DEF LeaseCountsHolders, TypeOK
      <4> QED BY <3>2, <4>2, <4>3 DEF Contender
    <3>3. ContendersShareOwner'
      BY <2>6, <1>u, <3>2 DEF Admit, ContendersShareOwner, Contender, Actuates, TypeOK
    <3> QED BY <3>1, <3>3
  <2>7. CASE LateStop(r) \/ MarkStarted(r) \/ Finish(r)
    <3>1. LeaseCountsHolders'
      BY <2>7, <1>u, LeaseUntouched DEF LateStop, MarkStarted, Finish, Holding, TypeOK
    <3>2. \A s \in Requests : rec'[s] \in Open => rec[s] \in Open
      BY <2>7, <1>u, OutcomeTyped DEF LateStop, MarkStarted, Finish, RowFollowsProcess, TypeOK
    <3>3. ContendersShareOwner'
      BY <2>7, <1>u, <3>2, NoNewContender
      DEF LateStop, MarkStarted, Finish, Contender, Actuates, TypeOK
    <3> QED BY <3>1, <3>3
  <2>8. CASE Poll(r) \/ TimeOut(r) \/ HaltCommand(r) \/ HaltRead(r)
    BY <2>8, <1>s DEF Poll, TimeOut, HaltCommand, HaltRead
  <2> QED BY <1>1, <2>1, <2>2, <2>3, <2>4, <2>5, <2>6, <2>7, <2>8 DEF Process
<1>2. ASSUME NEW r \in Requests, System(r) PROVE Rest'
  BY <1>2, <1>s DEF System, ClientSubmits, ClientAnswers, JobEnds
<1>3. ASSUME NEW r \in Requests, Crash(r) PROVE Rest'
  BY <1>3, <1>m DEF Crash
<1>4. ASSUME NEW u \in Resources, ExpireLease(u) PROVE Rest'
  <2>1. Holders(u) = {}
    BY <1>4 DEF ExpireLease
  <2>2. \A v \in Resources : Holders(v)' = Holders(v)
    BY <1>4 DEF ExpireLease, Holders, Holding
  <2>3. \A v \in Resources \ {u} : lease'[v] = lease[v]
    BY <1>4, <1>u DEF ExpireLease, TypeOK
  <2>4. LeaseCountsHolders'
    <3> SUFFICES ASSUME NEW v \in Resources, Holders(v)' # {}
                 PROVE  /\ ~lease'[v].expired
                        /\ lease'[v].depth >= Cardinality(Holders(v)')
                        /\ \A r \in Holders(v)' : req'[r].owner = lease'[v].owner
      BY DEF LeaseCountsHolders
    <3>1. v # u
      BY <2>1, <2>2
    <3> QED BY <1>4, <1>u, <2>2, <2>3, <3>1 DEF ExpireLease, LeaseCountsHolders
  <2>5. ContendersShareOwner'
    BY <1>4, <1>u, NoNewContender DEF ExpireLease, Contender, Actuates
  <2> QED BY <2>4, <2>5
<1>5. ASSUME Console PROVE Rest'
  BY <1>5, <1>o, <1>s DEF Console, Lapse, Revoke, SetStop, SetStopFile, Status
<1>6. ASSUME UNCHANGED vars PROVE Rest'
  BY <1>6, <1>s DEF vars
<1> QED BY <1>t, <1>1, <1>2, <1>3, <1>4, <1>5, <1>6 DEF Next, LeaseInv

LEMMA LeaseAlways == ASSUME ~Overtime PROVE Spec => []LeaseInv
<1>1. Init => LeaseInv
  <2> SUFFICES ASSUME Init PROVE LeaseInv
    OBVIOUS
  <2>1. JournalInv
    BY TypeInit DEF Init, JournalInv, RowFollowsProcess, UniqueRows, BeforeAdmission
  <2>2. \A u \in Resources : Holders(u) = {}
    BY DEF Init, Holders, Holding
  <2> QED BY <2>1, <2>2 DEF Init, LeaseInv, LeaseCountsHolders, ContendersShareOwner
<1>2. LeaseInv /\ [Next]_vars => LeaseInv'
  BY LeaseStep
<1> QED BY <1>1, <1>2, PTL DEF Spec

\* While halting stays within the margin of the lease, the lease row counts
\* every process that holds the resource and names its owner.
THEOREM LeaseIsCounted == ASSUME ~Overtime PROVE Spec => []LeaseCountsHolders
<1>1. LeaseInv => LeaseCountsHolders
  BY DEF LeaseInv
<1> QED BY <1>1, LeaseAlways, PTL

\* Under the same condition two owners never have actuations open on one unit,
\* whatever crashes and whenever the journal is opened.
THEOREM OwnersExcludeEachOther == ASSUME ~Overtime PROVE Spec => []ExclusiveAcrossOwners
<1>1. LeaseInv => ExclusiveAcrossOwners
  BY DEF LeaseInv, ContendersShareOwner, Contender, ExclusiveAcrossOwners
<1> QED BY <1>1, LeaseAlways, PTL
=============================================================================
