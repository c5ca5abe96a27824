-------------------------- MODULE AutomationProofs --------------------------
(***************************************************************************)
(* Proofs about mandated runs: the claims of their rows (RunLease), for    *)
(* any number of runs, replicas and outages, and the attempts at one of    *)
(* them (MissionRunner), for any plans, costs and number of attempts.      *)
(*                                                                         *)
(* Of the claims the argument is their order: every claim of a run takes   *)
(* the next attempt number and the next token, so the row can name only    *)
(* the latest of them, and what an older one writes finds no row.          *)
(*                                                                         *)
(* Of the attempts the argument is bookkeeping: with one attempt at a      *)
(* time, the subtotal in the fabric, the one in memory and the call that   *)
(* is out always add up to what was spent, or the fabric says that it is   *)
(* unknown.  What was verified stays verified, whatever overlaps.  And of  *)
(* the plan: while nobody was interrupted in storing one, the items in the *)
(* fabric are what the attempt that stores them has stored.                *)
(***************************************************************************)
EXTENDS MissionRunner, RunLease, FiniteSetTheorems, NaturalsInduction, WellFoundedInduction, TLAPS

(* The claims of the runs.                                                 *)

\* A row that is not running has no holder and no lease.
RowShape ==
  \A r \in Runs :
    /\ runRow[r].status # "running" => runRow[r].token = NoToken /\ ~runRow[r].live
    /\ runRow[r].status = "none" => runRow[r].attempts = 0
    /\ runRow[r].attempts <= MaxFix + 1

\* The claims of a run have increasing attempt numbers, up to the row's.
ClaimOrder ==
  /\ \A t \in DOMAIN claims :
       1 <= claims[t].attempt /\ claims[t].attempt <= runRow[claims[t].run].attempts
  /\ \A t, u \in DOMAIN claims :
       claims[t].run = claims[u].run /\ t < u => claims[t].attempt < claims[u].attempt

ResultMeansEnded ==
  \A t \in DOMAIN claims : claims[t].result # "none" => claims[t].phase = "ended"

LeaseInv ==
  /\ LeaseTypeOK
  /\ RowShape
  /\ ClaimOrder
  /\ ResultMeansEnded
  /\ HolderIsLatest
  /\ CompleteIsEarned

LEMMA InitLeaseInv == LeaseInit => LeaseInv
<1>. SUFFICES ASSUME LeaseInit PROVE LeaseInv
  OBVIOUS
<1>. USE MaxFixAssumption DEF LeaseInit, NoRow, Idle, NoToken
<1>1. LeaseTypeOK
  BY DEF LeaseTypeOK, Rows, Sweeps
<1>2. RowShape /\ ClaimOrder /\ ResultMeansEnded /\ HolderIsLatest /\ CompleteIsEarned
  BY DEF RowShape, ClaimOrder, ResultMeansEnded, HolderIsLatest, CompleteIsEarned
<1>. QED  BY <1>1, <1>2 DEF LeaseInv

\* A step that claims nothing: ownership may be given up, never taken.
LEMMA NoClaimStep ==
  ASSUME LeaseInv, LeaseTypeOK',
         DOMAIN claims' = DOMAIN claims,
         \A t \in DOMAIN claims :
           /\ claims'[t].run = claims[t].run /\ claims'[t].attempt = claims[t].attempt
           /\ claims[t].result = "complete" => claims'[t].result = "complete"
           /\ claims'[t].result # "none" => claims'[t].phase = "ended",
         \A r \in Runs :
           /\ runRow'[r].attempts = runRow[r].attempts
           /\ runRow'[r].token \in {runRow[r].token, NoToken}
           /\ runRow'[r].status = "none" => runRow[r].status = "none"
           /\ runRow'[r].status # "running" => runRow'[r].token = NoToken /\ ~runRow'[r].live
           /\ runRow'[r].status = "complete" =>
                \/ runRow[r].status = "complete"
                \/ \E t \in DOMAIN claims :
                     claims[t].run = r /\ claims[t].attempt = runRow[r].attempts
                       /\ claims'[t].result = "complete"
  PROVE  LeaseInv'
<1>. USE DEF LeaseInv
<1>1. RowShape'
  BY DEF RowShape
<1>2. ClaimOrder'
  <2>. claims \in Seq(Claims)
    BY DEF LeaseTypeOK
  <2>1. \A t \in DOMAIN claims : claims[t] \in Claims
    OBVIOUS
  <2>2. \A t \in DOMAIN claims : claims[t].run \in Runs
    BY <2>1 DEF Claims
  <2>3. \A t \in DOMAIN claims : runRow'[claims'[t].run].attempts = runRow[claims[t].run].attempts
    BY <2>2
  <2>. QED  BY <2>3 DEF ClaimOrder
<1>3. ResultMeansEnded'
  BY DEF ResultMeansEnded
<1>4. HolderIsLatest'
  BY DEF HolderIsLatest
<1>5. CompleteIsEarned'
  <2>. SUFFICES ASSUME NEW r \in Runs, runRow'[r].status = "complete"
                PROVE  \E t \in DOMAIN claims' :
                         claims'[t].run = r /\ claims'[t].attempt = runRow'[r].attempts
                           /\ claims'[t].result = "complete"
    BY DEF CompleteIsEarned
  <2>1. CASE runRow[r].status = "complete"
    BY <2>1 DEF CompleteIsEarned
  <2>2. CASE \E t \in DOMAIN claims :
               claims[t].run = r /\ claims[t].attempt = runRow[r].attempts
                 /\ claims'[t].result = "complete"
    BY <2>2
  <2>. QED  BY <2>1, <2>2
<1>. QED  BY <1>1, <1>2, <1>3, <1>4, <1>5

\* A claim: the next token, the next attempt.
LEMMA ClaimStep ==
  ASSUME LeaseInv, LeaseTypeOK', NEW r \in Runs, NEW c \in Claims, NEW x \in Rows,
         claimable(r),
         claims' = Append(claims, c),
         c.run = r, c.attempt = runRow[r].attempts + 1,
         c.result # "none" => c.phase = "ended",
         runRow' = [runRow EXCEPT ![r] = x],
         x.attempts = runRow[r].attempts + 1,
         \/ x.status = "running" /\ x.token = NewToken
         \/ x.status = "failed" /\ x.token = NoToken /\ ~x.live
  PROVE  LeaseInv'
<1>. USE MaxFixAssumption DEF LeaseInv
<1>1. /\ runRow \in [Runs -> Rows] /\ claims \in Seq(Claims)
      /\ runRow[r].attempts \in Nat /\ Len(claims) \in Nat
  BY DEF LeaseTypeOK, Rows
<1>2. /\ DOMAIN claims = 1 .. Len(claims)
      /\ DOMAIN claims' = 1 .. (Len(claims) + 1)
      /\ \A t \in DOMAIN claims : claims'[t] = claims[t]
      /\ claims'[Len(claims) + 1] = c
  BY <1>1
<1>3. \A t \in DOMAIN claims : claims[t] \in Claims
  BY <1>1
<1>4. \A s \in Runs : s # r => runRow'[s] = runRow[s]
  BY <1>1
<1>5. runRow'[r] = x
  BY <1>1
<1>6. runRow[r].attempts + 1 <= MaxFix + 1
  BY <1>1 DEF claimable, cyclesSpent, RowShape
<1>7. RowShape'
  BY <1>4, <1>5, <1>6 DEF RowShape, NoToken
<1>8. ResultMeansEnded'
  BY <1>2 DEF ResultMeansEnded
<1>9. ClaimOrder'
  <2>1. ASSUME NEW t \in DOMAIN claims'
        PROVE  1 <= claims'[t].attempt /\ claims'[t].attempt <= runRow'[claims'[t].run].attempts
    <3>1. CASE t \in DOMAIN claims
      <4>1. /\ claims[t].run \in Runs /\ claims[t].attempt \in Nat
            /\ 1 <= claims[t].attempt /\ claims[t].attempt <= runRow[claims[t].run].attempts
        BY <3>1, <1>3 DEF ClaimOrder, Claims
      <4>2. runRow'[claims[t].run].attempts >= runRow[claims[t].run].attempts
        BY <4>1, <1>1, <1>4, <1>5 DEF Rows
      <4>3. runRow[claims[t].run].attempts \in Nat /\ runRow'[claims[t].run].attempts \in Nat
        BY <4>1, <1>1, <1>4, <1>5 DEF Rows
      <4>. QED  BY <3>1, <1>2, <4>1, <4>2, <4>3
    <3>2. CASE t = Len(claims) + 1
      BY <3>2, <1>1, <1>2, <1>5
    <3>. QED  BY <3>1, <3>2, <1>1, <1>2
  <2>2. ASSUME NEW t \in DOMAIN claims', NEW u \in DOMAIN claims',
               claims'[t].run = claims'[u].run, t < u
        PROVE  claims'[t].attempt < claims'[u].attempt
    <3>1. t \in DOMAIN claims
      BY <2>2, <1>1, <1>2
    <3>2. CASE u \in DOMAIN claims
      BY <2>2, <3>1, <3>2, <1>2 DEF ClaimOrder
    <3>3. CASE u = Len(claims) + 1
      <4>1. claims[t].run = r /\ claims[t].attempt <= runRow[r].attempts /\ claims[t].attempt \in Nat
        BY <2>2, <3>1, <3>3, <1>2, <1>3 DEF ClaimOrder, Claims
      <4>. QED  BY <4>1, <3>1, <3>3, <1>1, <1>2
    <3>. QED  BY <3>2, <3>3, <1>1, <1>2
  <2>. QED  BY <2>1, <2>2 DEF ClaimOrder
<1>10. HolderIsLatest'
  <2>. SUFFICES ASSUME NEW s \in Runs, runRow'[s].token # NoToken
                PROVE  /\ runRow'[s].token \in DOMAIN claims'
                       /\ claims'[runRow'[s].token].run = s
                       /\ claims'[runRow'[s].token].attempt = runRow'[s].attempts
                       /\ \A t \in DOMAIN claims' :
                            claims'[t].run = s => t <= runRow'[s].token
    BY DEF HolderIsLatest
  <2>1. CASE s = r
    <3>1. runRow'[s].token = Len(claims) + 1
      BY <2>1, <1>5 DEF NewToken
    <3>. QED  BY <2>1, <3>1, <1>1, <1>2, <1>5
  <2>2. CASE s # r
    <3>1. runRow'[s] = runRow[s]
      BY <2>2, <1>4
    <3>2. /\ runRow[s].token \in DOMAIN claims
          /\ claims[runRow[s].token].run = s
          /\ claims[runRow[s].token].attempt = runRow[s].attempts
          /\ \A t \in DOMAIN claims : claims[t].run = s => t <= runRow[s].token
      BY <3>1 DEF HolderIsLatest
    <3>. QED  BY <2>2, <3>1, <3>2, <1>1, <1>2
  <2>. QED  BY <2>1, <2>2
<1>11. CompleteIsEarned'
  <2>. SUFFICES ASSUME NEW s \in Runs, runRow'[s].status = "complete"
                PROVE  \E t \in DOMAIN claims' :
                         claims'[t].run = s /\ claims'[t].attempt = runRow'[s].attempts
                           /\ claims'[t].result = "complete"
    BY DEF CompleteIsEarned
  <2>1. s # r
    BY <1>5
  <2>2. runRow'[s] = runRow[s]
    BY <2>1, <1>4
  <2>3. PICK t \in DOMAIN claims :
          claims[t].run = s /\ claims[t].attempt = runRow[s].attempts
            /\ claims[t].result = "complete"
    BY <2>2 DEF CompleteIsEarned
  <2>. QED  BY <2>2, <2>3, <1>1, <1>2
<1>. QED  BY <1>7, <1>8, <1>9, <1>10, <1>11

\* Replacing every claim by one of the same type leaves a sequence of claims.
LEMMA MapClaims ==
  ASSUME claims \in Seq(Claims), NEW F,
         F = [t \in DOMAIN claims |-> F[t]],
         \A t \in DOMAIN claims : F[t] \in Claims
  PROVE  F \in Seq(Claims) /\ DOMAIN F = DOMAIN claims
  OBVIOUS

LEMMA AbortShape ==
  ASSUME claims \in Seq(Claims), NEW S, abort(S)
  PROVE  /\ DOMAIN claims' = DOMAIN claims /\ claims' \in Seq(Claims)
         /\ \A t \in DOMAIN claims :
              /\ claims'[t].run = claims[t].run /\ claims'[t].attempt = claims[t].attempt
              /\ claims'[t].result = claims[t].result /\ claims'[t].phase = claims[t].phase
<1>1. \A t \in DOMAIN claims : claims[t] \in Claims
  OBVIOUS
<1>2. \A t \in DOMAIN claims :
        claims'[t] = IF t \in S THEN [claims[t] EXCEPT !.aborted = TRUE] ELSE claims[t]
  BY DEF abort
<1>3. \A t \in DOMAIN claims : claims'[t] \in Claims
  BY <1>1, <1>2, ZenonT(40) DEF Claims
<1>4. claims' = [t \in DOMAIN claims |-> claims'[t]]
  BY DEF abort
<1>5. claims' \in Seq(Claims) /\ DOMAIN claims' = DOMAIN claims
  BY <1>3, <1>4, MapClaims
<1>. QED  BY <1>1, <1>2, <1>5 DEF Claims

LEMMA StepLeaseInv == LeaseInv /\ [LeaseNext]_leaseVars => LeaseInv'
<1>. SUFFICES ASSUME LeaseInv, [LeaseNext]_leaseVars PROVE LeaseInv'
  OBVIOUS
<1>. USE DEF LeaseInv
<1>1. /\ runRow \in [Runs -> Rows] /\ claims \in Seq(Claims)
      /\ sup \in [Replicas -> Sweeps] /\ stopped \in [Replicas -> BOOLEAN]
      /\ lapsed \subseteq Runs /\ reauthorized \subseteq Runs /\ outages \in Nat
      /\ \A t \in DOMAIN claims : claims[t] \in Claims /\ t \in Nat \ {0}
      /\ Len(claims) \in Nat
      /\ \A r \in Runs : runRow[r] \in Rows
  BY DEF LeaseTypeOK
<1>2. ASSUME NEW p \in Replicas, NEW r \in Runs, RunAccepted(p, r) PROVE LeaseInv'
  <2>. DEFINE c == [run |-> r, site |-> p, control |-> "active", attempt |-> runRow[r].attempts + 1,
                    phase |-> "executing", aborted |-> FALSE, result |-> "none"]
              x == claimedRow(runRow[r], NewToken)
  <2>1. c \in Claims /\ x \in Rows
    BY <1>1 DEF Claims, Rows, claimedRow, NewToken
  <2>2. claims' = Append(claims, c) /\ runRow' = [runRow EXCEPT ![r] = x]
    BY <1>2 DEF RunAccepted, newClaim, claim
  <2>3. LeaseTypeOK'
    BY <1>1, <1>2, <2>1, <2>2 DEF LeaseTypeOK, RunAccepted
  <2>. QED  BY <1>2, <2>1, <2>2, <2>3, ClaimStep DEF RunAccepted, claimedRow
<1>3. ASSUME NEW p \in Replicas, NEW r \in Runs, RunLeaked(p, r) PROVE LeaseInv'
  <2>. DEFINE c == [run |-> r, site |-> p, control |-> "active", attempt |-> runRow[r].attempts + 1,
                    phase |-> "leaked", aborted |-> FALSE, result |-> "none"]
              x == claimedRow(runRow[r], NewToken)
  <2>1. c \in Claims /\ x \in Rows
    BY <1>1 DEF Claims, Rows, claimedRow, NewToken
  <2>2. claims' = Append(claims, c) /\ runRow' = [runRow EXCEPT ![r] = x]
    BY <1>3 DEF RunLeaked, newClaim, claim
  <2>3. LeaseTypeOK'
    BY <1>1, <1>3, <2>1, <2>2 DEF LeaseTypeOK, RunLeaked
  <2>. QED  BY <1>3, <2>1, <2>2, <2>3, ClaimStep DEF RunLeaked, claimedRow
<1>4. ASSUME NEW p \in Replicas, NEW r \in Runs, RunAlreadyActive(p, r) PROVE LeaseInv'
  <2>. DEFINE c == [run |-> r, site |-> p, control |-> "active", attempt |-> runRow[r].attempts + 1,
                    phase |-> "ended", aborted |-> FALSE, result |-> "failed"]
              x == closedRow(claimedRow(runRow[r], NewToken), "failed")
  <2>1. c \in Claims /\ x \in Rows
    BY <1>1 DEF Claims, Rows, claimedRow, closedRow, NoToken
  <2>2. claims' = Append(claims, c) /\ runRow' = [runRow EXCEPT ![r] = x]
    BY <1>4 DEF RunAlreadyActive, newClaim, finishedRow, claimedRow
  <2>3. LeaseTypeOK'
    BY <1>1, <1>4, <2>1, <2>2 DEF LeaseTypeOK, RunAlreadyActive
  <2>. QED  BY <1>4, <2>1, <2>2, <2>3, ClaimStep DEF RunAlreadyActive, claimedRow, closedRow
<1>5. ASSUME NEW p \in Replicas, Recover(p) PROVE LeaseInv'
  <2>1. PICK r \in sup[p].head :
          claimable(r) /\ claim(r, NewToken) /\ newClaim(r, p, "sweep", "executing", "none")
    BY <1>5 DEF Recover
  <2>2. r \in Runs
    BY <1>1, <2>1 DEF Sweeps
  <2>. DEFINE c == [run |-> r, site |-> p, control |-> "sweep", attempt |-> runRow[r].attempts + 1,
                    phase |-> "executing", aborted |-> FALSE, result |-> "none"]
              x == claimedRow(runRow[r], NewToken)
  <2>3. c \in Claims /\ x \in Rows
    BY <1>1, <2>2 DEF Claims, Rows, claimedRow, NewToken
  <2>4. claims' = Append(claims, c) /\ runRow' = [runRow EXCEPT ![r] = x]
    BY <2>1 DEF newClaim, claim
  <2>5. sup' \in [Replicas -> Sweeps]
    BY <1>1, <1>5 DEF Recover, Sweeps
  <2>6. LeaseTypeOK'
    <3>1. claims' \in Seq(Claims) /\ runRow' \in [Runs -> Rows]
      BY <1>1, <2>2, <2>3, <2>4
    <3>. QED  BY <1>1, <1>5, <2>5, <3>1 DEF LeaseTypeOK, Recover
  <2>. QED  BY <2>1, <2>2, <2>3, <2>4, <2>6, ClaimStep DEF claimedRow
<1>6. ASSUME NEW p \in Replicas, NEW r \in Runs, CancelRun(p, r) PROVE LeaseInv'
  <2>1. /\ DOMAIN claims' = DOMAIN claims /\ claims' \in Seq(Claims)
        /\ \A t \in DOMAIN claims :
             /\ claims'[t].run = claims[t].run /\ claims'[t].attempt = claims[t].attempt
             /\ claims'[t].result = claims[t].result /\ claims'[t].phase = claims[t].phase
    BY <1>1, <1>6, AbortShape DEF CancelRun
  <2>2. runRow' = [runRow EXCEPT ![r] = closedRow(runRow[r], "cancelled")]
    BY <1>6 DEF CancelRun
  <2>3. closedRow(runRow[r], "cancelled") \in Rows
    BY <1>1 DEF closedRow, Rows, TerminalStatuses, NoToken
  <2>4. LeaseTypeOK'
    BY <1>1, <1>6, <2>1, <2>2, <2>3 DEF LeaseTypeOK, CancelRun
  <2>5. \A s \in Runs : runRow'[s] = IF s = r THEN closedRow(runRow[r], "cancelled") ELSE runRow[s]
    BY <1>1, <2>2
  <2>. QED  BY <2>1, <2>4, <2>5, NoClaimStep DEF closedRow, RowShape, ResultMeansEnded
<1>7. ASSUME NEW t \in DOMAIN claims, Renew(t) PROVE LeaseInv'
  <2>1. claims[t].run \in Runs
    BY <1>1 DEF Claims
  <2>2. runRow' = [runRow EXCEPT ![claims[t].run].live = TRUE] /\ runRow[claims[t].run].status = "running"
    BY <1>7 DEF Renew, Holds
  <2>3. runRow' \in [Runs -> Rows]
    BY <1>1, <2>1, <2>2 DEF Rows
  <2>4. LeaseTypeOK'
    BY <1>1, <1>7, <2>3 DEF LeaseTypeOK, Renew
  <2>5. \A s \in Runs : /\ runRow'[s].status = runRow[s].status /\ runRow'[s].token = runRow[s].token
                        /\ runRow'[s].attempts = runRow[s].attempts
                        /\ runRow'[s].live = IF s = claims[t].run THEN TRUE ELSE runRow[s].live
    BY <1>1, <2>1, <2>2 DEF Rows
  <2>6. claims' = claims
    BY <1>7 DEF Renew
  <2>. QED  BY <2>2, <2>4, <2>5, <2>6, NoClaimStep DEF RowShape, ResultMeansEnded
<1>8. ASSUME NEW t \in DOMAIN claims, OwnershipLost(t) \/ RenewThrows(t) PROVE LeaseInv'
  <2>1. /\ DOMAIN claims' = DOMAIN claims /\ claims' \in Seq(Claims)
        /\ \A u \in DOMAIN claims :
             /\ claims'[u].run = claims[u].run /\ claims'[u].attempt = claims[u].attempt
             /\ claims'[u].result = claims[u].result /\ claims'[u].phase = claims[u].phase
    BY <1>1, <1>8, AbortShape DEF OwnershipLost, RenewThrows
  <2>2. runRow' = runRow
    BY <1>8 DEF OwnershipLost, RenewThrows
  <2>3. LeaseTypeOK'
    BY <1>1, <1>8, <2>1 DEF LeaseTypeOK, OwnershipLost, RenewThrows
  <2>. QED  BY <2>1, <2>2, <2>3, NoClaimStep DEF RowShape, ResultMeansEnded
<1>9. ASSUME NEW t \in DOMAIN claims, Ends(t) PROVE LeaseInv'
  <2>1. PICK status \in {"complete", "failed"} :
          /\ runRow' = [runRow EXCEPT ![claims[t].run] = finishedRow(runRow[claims[t].run], t, status)]
          /\ claims' = [claims EXCEPT ![t].phase = "ended", ![t].result = status]
    BY <1>9 DEF Ends
  <2>. DEFINE r == claims[t].run
  <2>2. r \in Runs /\ claims[t].site \in Replicas /\ claims[t].phase = "executing" /\ t \in Nat \ {0}
    BY <1>1, <1>9 DEF Claims, Ends
  <2>3. /\ claims' \in Seq(Claims) /\ DOMAIN claims' = DOMAIN claims
        /\ \A u \in DOMAIN claims :
             /\ claims'[u].run = claims[u].run /\ claims'[u].attempt = claims[u].attempt
             /\ u # t => claims'[u] = claims[u]
        /\ claims'[t].phase = "ended" /\ claims'[t].result = status
    <3>1. [claims[t] EXCEPT !.phase = "ended", !.result = status] \in Claims
      BY <1>1 DEF Claims
    <3>. DEFINE e == [claims[t] EXCEPT !.phase = "ended", !.result = status]
    <3>2. claims' = [claims EXCEPT ![t] = e]
      BY <2>1
    <3>3. /\ e.run = claims[t].run /\ e.attempt = claims[t].attempt
          /\ e.phase = "ended" /\ e.result = status
      BY <1>1 DEF Claims
    <3>. HIDE DEF e
    <3>4. claims' \in Seq(Claims) /\ DOMAIN claims' = DOMAIN claims
      BY <1>1, <3>1, <3>2 DEF e
    <3>5. claims'[t] = e /\ \A u \in DOMAIN claims : u # t => claims'[u] = claims[u]
      BY <3>2
    <3>. QED  BY <3>3, <3>4, <3>5
  <2>4. finishedRow(runRow[r], t, status) \in Rows
    BY <1>1, <2>2 DEF finishedRow, closedRow, Rows, TerminalStatuses, NoToken
  <2>5. sup' \in [Replicas -> Sweeps]
    <3>1. [sup EXCEPT ![claims[t].site].phase = "sweeping"] \in [Replicas -> Sweeps]
      BY <1>1, <2>2, ZenonT(40) DEF Sweeps
    <3>. QED  BY <1>1, <1>9, <3>1 DEF Ends
  <2>6. LeaseTypeOK'
    BY <1>1, <1>9, <2>1, <2>2, <2>3, <2>4, <2>5 DEF LeaseTypeOK, Ends
  <2>7. claims[t].result = "none"
    BY <2>2 DEF ResultMeansEnded
  <2>8. \A s \in Runs : runRow'[s] = IF s = r THEN finishedRow(runRow[r], t, status) ELSE runRow[s]
    BY <1>1, <2>1, <2>2
  <2>9. runRow[r].token = t => claims[t].attempt = runRow[r].attempts
    BY <2>2 DEF HolderIsLatest, NoToken
  <2>. HIDE DEF r
  <2>10. \A s \in Runs :
           /\ runRow'[s].attempts = runRow[s].attempts
           /\ runRow'[s].token \in {runRow[s].token, NoToken}
           /\ runRow'[s].status = "none" => runRow[s].status = "none"
           /\ runRow'[s].status # "running" => runRow'[s].token = NoToken /\ ~runRow'[s].live
    BY <2>2, <2>8 DEF finishedRow, closedRow, RowShape
  <2>11. \A s \in Runs : runRow'[s].status = "complete" =>
           \/ runRow[s].status = "complete"
           \/ \E u \in DOMAIN claims :
                claims[u].run = s /\ claims[u].attempt = runRow[s].attempts
                  /\ claims'[u].result = "complete"
    BY <2>2, <2>3, <2>8, <2>9 DEF finishedRow, closedRow, r
  <2>12. \A u \in DOMAIN claims :
           /\ claims[u].result = "complete" => claims'[u].result = "complete"
           /\ claims'[u].result # "none" => claims'[u].phase = "ended"
    BY <2>3, <2>7 DEF ResultMeansEnded
  <2>. QED  BY <2>3, <2>6, <2>10, <2>11, <2>12, NoClaimStep
<1>10. ASSUME NEW p \in Replicas, Sweep(p) \/ NextCandidate(p) \/ Skip(p) PROVE LeaseInv'
  <2>1. sup' \in [Replicas -> Sweeps]
    <3>1. CASE Sweep(p)
      BY <1>1, <3>1 DEF Sweep, Sweeps
    <3>2. CASE NextCandidate(p)
      <4>1. sup[p] \in Sweeps /\ Idle \in Sweeps
        BY <1>1 DEF Sweeps, Idle
      <4>2. \A r \in sup[p].queue :
              [phase |-> "preflight", head |-> {r}, queue |-> sup[p].queue \ {r}] \in Sweeps
        BY <4>1 DEF Sweeps
      <4>. QED  BY <1>1, <3>2, <4>1, <4>2 DEF NextCandidate
    <3>3. CASE Skip(p)
      BY <1>1, <3>3, ZenonT(40) DEF Skip, Sweeps
    <3>. QED  BY <1>10, <3>1, <3>2, <3>3
  <2>2. runRow' = runRow /\ claims' = claims
    BY <1>10 DEF Sweep, NextCandidate, Skip
  <2>3. LeaseTypeOK'
    BY <1>1, <1>10, <2>1 DEF LeaseTypeOK, Sweep, NextCandidate, Skip
  <2>. QED  BY <2>2, <2>3, NoClaimStep DEF RowShape, ResultMeansEnded
<1>11. ASSUME NEW r \in Runs, LeaseExpires(r) PROVE LeaseInv'
  <2>1. runRow' = [runRow EXCEPT ![r].live = FALSE] /\ claims' = claims
    BY <1>11 DEF LeaseExpires
  <2>2. runRow' \in [Runs -> Rows]
    BY <1>1, <2>1 DEF Rows
  <2>3. LeaseTypeOK'
    BY <1>1, <1>11, <2>2 DEF LeaseTypeOK, LeaseExpires
  <2>4. \A s \in Runs : /\ runRow'[s].status = runRow[s].status /\ runRow'[s].token = runRow[s].token
                        /\ runRow'[s].attempts = runRow[s].attempts
                        /\ runRow'[s].live = IF s = r THEN FALSE ELSE runRow[s].live
    BY <1>1, <2>1 DEF Rows
  <2>. QED  BY <2>1, <2>3, <2>4, NoClaimStep DEF RowShape, ResultMeansEnded
<1>12. ASSUME NEW r \in Runs, Lapse(r) \/ Reauthorize(r) PROVE LeaseInv'
  <2>1. runRow' = runRow /\ claims' = claims
    BY <1>12 DEF Lapse, Reauthorize
  <2>2. LeaseTypeOK'
    BY <1>1, <1>12 DEF LeaseTypeOK, Lapse, Reauthorize
  <2>. QED  BY <2>1, <2>2, NoClaimStep DEF RowShape, ResultMeansEnded
<1>13. ASSUME NEW p \in Replicas, CrashReplica(p) \/ Exit(p) PROVE LeaseInv'
  <2>1. kill(p) /\ runRow' = runRow
    BY <1>13 DEF CrashReplica, Exit, restart
  <2>2. /\ claims' \in Seq(Claims) /\ DOMAIN claims' = DOMAIN claims
        /\ \A t \in DOMAIN claims :
             /\ claims'[t].run = claims[t].run /\ claims'[t].attempt = claims[t].attempt
             /\ claims'[t].result = claims[t].result
             /\ claims'[t].phase = claims[t].phase \/ claims[t].phase \in {"executing", "leaked"}
    <3>1. \A t \in DOMAIN claims :
            claims'[t] = IF t \in AliveAt(p) THEN [claims[t] EXCEPT !.phase = "dead"] ELSE claims[t]
      BY <2>1 DEF kill
    <3>2. \A t \in DOMAIN claims : claims'[t] \in Claims
      <4>1. \A c \in Claims : [c EXCEPT !.phase = "dead"] \in Claims
        BY DEF Claims
      <4>. QED  BY <1>1, <3>1, <4>1
    <3>3. claims' = [t \in DOMAIN claims |-> claims'[t]]
      BY <2>1 DEF kill
    <3>4. claims' \in Seq(Claims) /\ DOMAIN claims' = DOMAIN claims
      BY <1>1, <3>2, <3>3, MapClaims
    <3>. QED  BY <1>1, <3>1, <3>4 DEF Claims, AliveAt, ClaimAlive
  <2>3. sup' \in [Replicas -> Sweeps] /\ stopped' \in [Replicas -> BOOLEAN]
    <3>1. Idle \in Sweeps
      BY DEF Idle, Sweeps
    <3>. QED  BY <1>1, <1>13, <3>1 DEF CrashReplica, Exit, restart
  <2>4. outages' \in Nat /\ lapsed' = lapsed /\ reauthorized' = reauthorized
    BY <1>1, <1>13 DEF CrashReplica, Exit, restart
  <2>5. LeaseTypeOK'
    BY <1>1, <2>1, <2>2, <2>3, <2>4 DEF LeaseTypeOK
  <2>. QED  BY <2>1, <2>2, <2>5, NoClaimStep DEF RowShape, ResultMeansEnded
<1>14. ASSUME NEW p \in Replicas, Shutdown(p) PROVE LeaseInv'
  <2>1. /\ DOMAIN claims' = DOMAIN claims /\ claims' \in Seq(Claims)
        /\ \A t \in DOMAIN claims :
             /\ claims'[t].run = claims[t].run /\ claims'[t].attempt = claims[t].attempt
             /\ claims'[t].result = claims[t].result /\ claims'[t].phase = claims[t].phase
    BY <1>1, <1>14, AbortShape DEF Shutdown
  <2>2. LeaseTypeOK'
    BY <1>1, <1>14, <2>1 DEF LeaseTypeOK, Shutdown
  <2>3. runRow' = runRow
    BY <1>14 DEF Shutdown
  <2>. QED  BY <2>1, <2>2, <2>3, NoClaimStep DEF RowShape, ResultMeansEnded
<1>15. CASE UNCHANGED leaseVars
  <2>1. runRow' = runRow /\ claims' = claims /\ LeaseTypeOK'
    BY <1>1, <1>15 DEF leaseVars, LeaseTypeOK
  <2>. QED  BY <2>1, NoClaimStep DEF RowShape, ResultMeansEnded
<1>. QED
  BY <1>2, <1>3, <1>4, <1>5, <1>6, <1>7, <1>8, <1>9, <1>10, <1>11, <1>12, <1>13, <1>14, <1>15
  DEF LeaseNext, Route, Execution, Supervisor

\* The inductive invariant of the run registry.
THEOREM LeaseInvHolds == LeaseSpec => []LeaseInv
  BY InitLeaseInv, StepLeaseInv, PTL DEF LeaseSpec

\* Type correctness of the registry, the claims and the supervisors.
THEOREM LeaseTypeCorrect == LeaseSpec => []LeaseTypeOK
  BY LeaseInvHolds, PTL DEF LeaseInv

\* Ownership of a run only moves forward: the row never names any but the
\* latest claim (claimAutomationRun, renew, finish).
THEOREM LatestHolds == LeaseSpec => []HolderIsLatest
  BY LeaseInvHolds, PTL DEF LeaseInv

\* A stale worker never completes a run (finish compares the token).
THEOREM CompletionIsEarned == LeaseSpec => []CompleteIsEarned
  BY LeaseInvHolds, PTL DEF LeaseInv

\* The claims of a run are no more than the attempts its mandate allows.
LEMMA OrderBoundsClaims == LeaseInv => FixCyclesBounded
<1>. SUFFICES ASSUME LeaseInv, NEW r \in Runs
              PROVE  Cardinality({t \in DOMAIN claims : claims[t].run = r}) <= MaxFix + 1
  BY DEF FixCyclesBounded
<1>. DEFINE S == {t \in DOMAIN claims : claims[t].run = r}
            f == [t \in S |-> claims[t].attempt]
<1>1. claims \in Seq(Claims) /\ runRow \in [Runs -> Rows] /\ DOMAIN claims = 1 .. Len(claims)
      /\ Len(claims) \in Nat
  BY DEF LeaseInv, LeaseTypeOK
<1>2. \A t \in DOMAIN claims : claims[t] \in Claims
  BY <1>1
<1>3. \A t \in S : f[t] \in 1 .. (MaxFix + 1)
  <2>1. \A t \in S : claims[t].attempt \in Nat
    BY <1>2 DEF Claims
  <2>2. \A t \in S : 1 <= claims[t].attempt /\ claims[t].attempt <= runRow[r].attempts
    BY DEF LeaseInv, ClaimOrder
  <2>3. runRow[r].attempts <= MaxFix + 1 /\ runRow[r].attempts \in Nat
    BY <1>1 DEF LeaseInv, RowShape, Rows
  <2>. QED  BY <2>1, <2>2, <2>3, MaxFixAssumption
<1>4. \A t, u \in S : f[t] = f[u] => t = u
  <2>. SUFFICES ASSUME NEW t \in S, NEW u \in S, f[t] = f[u], t # u PROVE FALSE
    OBVIOUS
  <2>1. t \in Nat /\ u \in Nat /\ claims[t].attempt \in Nat /\ claims[u].attempt \in Nat
    BY <1>1, <1>2 DEF Claims
  <2>2. (t < u => claims[t].attempt < claims[u].attempt) /\ (u < t => claims[u].attempt < claims[t].attempt)
    BY DEF LeaseInv, ClaimOrder
  <2>. QED  BY <2>1, <2>2
<1>5. f \in Injection(S, 1 .. (MaxFix + 1))
  BY <1>3, <1>4 DEF Injection, IsInjective
<1>6. IsFiniteSet(1 .. (MaxFix + 1)) /\ Cardinality(1 .. (MaxFix + 1)) = MaxFix + 1
  BY FS_Interval, MaxFixAssumption
<1>. HIDE DEF S, f
<1>7. Cardinality(S) <= Cardinality(1 .. (MaxFix + 1))
  BY <1>5, <1>6, FS_Injection
<1>. QED  BY <1>6, <1>7 DEF S

\* The fix-cycle ceiling holds over all replicas and crashes.
THEOREM AttemptsAreBounded == LeaseSpec => []FixCyclesBounded
  BY LeaseInvHolds, OrderBoundsClaims, PTL

\* Completed and cancelled runs are never touched again.
THEOREM TerminalRunsAreFinal == LeaseSpec => TerminalIsFinal
<1>1. LeaseInv /\ [LeaseNext]_leaseVars => [\A r \in Runs : runRow[r].status \in TerminalStatuses => runRow'[r] = runRow[r]]_leaseVars
  <2>. SUFFICES ASSUME LeaseInv, LeaseNext, NEW r \in Runs, runRow[r].status \in TerminalStatuses
                PROVE  runRow'[r] = runRow[r]
    OBVIOUS
  <2>1. /\ runRow \in [Runs -> Rows] /\ ~runRow[r].live /\ runRow[r].status \notin {"none", "running", "failed"}
        /\ \A t \in DOMAIN claims : claims[t].run \in Runs
    <3>1. claims \in Seq(Claims) /\ runRow \in [Runs -> Rows]
      BY DEF LeaseInv, LeaseTypeOK
    <3>2. \A t \in DOMAIN claims : claims[t] \in Claims
      BY <3>1
    <3>3. \A t \in DOMAIN claims : claims[t].run \in Runs
      BY <3>2 DEF Claims
    <3>. QED  BY <3>1, <3>3 DEF LeaseInv, RowShape, TerminalStatuses
  <2>2. ASSUME NEW p \in Replicas, NEW s \in Runs, Route(p, s) PROVE runRow'[r] = runRow[r]
    BY <2>1, <2>2 DEF Route, RunAccepted, RunLeaked, RunAlreadyActive, CancelRun, claim, claimable
  <2>3. ASSUME NEW t \in DOMAIN claims, Execution(t) PROVE runRow'[r] = runRow[r]
    BY <2>1, <2>3 DEF Execution, Renew, OwnershipLost, RenewThrows, Ends, Holds, finishedRow
  <2>4. ASSUME NEW p \in Replicas, Supervisor(p) PROVE runRow'[r] = runRow[r]
    BY <2>1, <2>4 DEF Supervisor, Sweep, NextCandidate, Skip, Recover, claim, claimable
  <2>5. ASSUME NEW p \in Replicas, CrashReplica(p) \/ Shutdown(p) \/ Exit(p) PROVE runRow'[r] = runRow[r]
    BY <2>5 DEF CrashReplica, Shutdown, Exit, restart
  <2>6. ASSUME NEW s \in Runs, LeaseExpires(s) \/ Lapse(s) \/ Reauthorize(s) PROVE runRow'[r] = runRow[r]
    BY <2>1, <2>6 DEF LeaseExpires, Lapse, Reauthorize
  <2>. QED  BY <2>2, <2>3, <2>4, <2>5, <2>6 DEF LeaseNext
<1>. QED  BY <1>1, LeaseInvHolds, PTL DEF LeaseSpec, TerminalIsFinal

-----------------------------------------------------------------------------
(* The attempts at a run.                                                  *)

\* The item to be stored is one of the plan.
StoringInPlan == \A e \in Attempts : att[e].pc = "storing" => att[e].at \in 1 .. Len(att[e].plan)

TypeInv == TypeOK /\ StoringInPlan

LEMMA InitTypeInv == Init => TypeInv
<1>. SUFFICES ASSUME Init PROVE TypeInv
  OBVIOUS
<1>1. NoAttempt \in AttemptStates /\ NoAttempt.pc = "none"
  BY DEF NoAttempt, AttemptStates, Inside, Awaiting
<1>2. MaxPlan \in Nat /\ MaxAttempts \in Nat
  BY PlansAssumption, AttemptsAssumption
<1>3. items \in [1 .. MaxPlan -> Seq(Assignments)]
  BY <1>2 DEF Init
<1>4. att \in [Attempts -> AttemptStates]
  BY <1>1 DEF Init
<1>5. TypeOK
  <2>1. cost \in {Absent, Unset, Unknown} \cup Nat /\ spent \in Nat /\ writer \in 0 .. MaxAttempts
    BY <1>2 DEF Init
  <2>2. row \in Registry
    BY <1>2 DEF Init, Registry
  <2>3. task \in [Assignments -> {"none", "executing", "complete"}]
    BY DEF Init
  <2>4. planned \in BOOLEAN /\ assured \in BOOLEAN /\ unhandled \in BOOLEAN
    BY DEF Init
  <2>. QED  BY <1>3, <1>4, <2>1, <2>2, <2>3, <2>4 DEF TypeOK
<1>6. StoringInPlan
  BY <1>1 DEF Init, StoringInPlan
<1>. QED  BY <1>5, <1>6 DEF TypeInv

\* What an append of a status may write.
LEMMA CostTypes ==
  ASSUME TypeOK
  PROVE  /\ \A kind \in {"route", "recovery"} : queuedCost(kind) \in {Absent, Unset, Unknown} \cup Nat
         /\ persistedCost \in {Unknown} \cup Nat
         /\ \A x, y \in {Unknown} \cup Nat : addCost(x, y) \in {Unknown} \cup Nat
         /\ storedPlan \in Seq(Assignments)
BY DEF TypeOK, queuedCost, persistedCost, addCost, storedPlan, Unknown, Unset, Absent

\* Attempt e, and no other, changed.
Moved(e) ==
  /\ att' = [att EXCEPT ![e] = att'[e]]
  /\ att'[e] \in AttemptStates
  /\ att'[e].pc = "storing" => att'[e].at \in 1 .. Len(att'[e].plan)

\* The shape of most steps: one attempt moves, and stays an attempt.
LEMMA AttemptStep ==
  ASSUME TypeInv, NEW e \in Attempts, Moved(e),
         cost' \in {Absent, Unset, Unknown} \cup Nat,
         items' \in [1 .. MaxPlan -> Seq(Assignments)],
         planned' \in BOOLEAN, assured' \in BOOLEAN, unhandled' \in BOOLEAN,
         task' \in [Assignments -> {"none", "executing", "complete"}],
         row' \in Registry,
         spent' \in Nat, writer' \in 0 .. MaxAttempts
  PROVE  TypeInv'
<1>1. att \in [Attempts -> AttemptStates]
  BY DEF TypeInv, TypeOK
<1>. USE DEF Moved
<1>2. att' \in [Attempts -> AttemptStates]
  BY <1>1
<1>3. TypeOK'
  BY <1>2 DEF TypeOK
<1>4. StoringInPlan'
  <2>. SUFFICES ASSUME NEW d \in Attempts, att'[d].pc = "storing"
                PROVE  att'[d].at \in 1 .. Len(att'[d].plan)
    BY DEF StoringInPlan, Attempts
  <2>1. CASE d = e
    BY <2>1, <1>1
  <2>2. CASE d # e
    BY <2>2, <1>1 DEF TypeInv, StoringInPlan
  <2>. QED  BY <2>1, <2>2
<1>. QED  BY <1>3, <1>4 DEF TypeInv
\* The facts about the constants that the steps need.
LEMMA Constants ==
  /\ MaxPlan \in Nat /\ MaxAttempts \in Nat /\ Costs \subseteq Nat /\ MaxCost \in Nat
  /\ \A p \in Plans : p \in Seq(Assignments) /\ Len(p) >= 1
  /\ \A e \in Attempts : e \in Nat /\ e \in 0 .. MaxAttempts
<1>1. \A p \in Plans : p \in Seq(Assignments) /\ Len(p) >= 1
  BY PlansAssumption
<1>. QED  BY <1>1, PlansAssumption, AttemptsAssumption, CostsAssumption DEF Attempts

\* A step that appends nothing.
LEMMA LocalStep ==
  ASSUME TypeInv, NEW e \in Attempts, Moved(e),
         KeepFabric, KeepRun
  PROVE  TypeInv'
BY AttemptStep DEF KeepFabric, KeepRun, fabric, TypeInv, TypeOK

\* Goto, Stop, Return and Leave change only the attempt.
LEMMA Moves ==
  ASSUME TypeInv, NEW e \in Attempts
  PROVE  /\ \A pc \in ({"queue", "unhandled", "ending"} \cup Inside) \ {"storing"} : Goto(e, pc) => Moved(e)
         /\ \A result \in {"complete", "failed", "blocked"} :
              Stop(e, result) \/ Return(e, result) => Moved(e)
         /\ Leave(e) => Moved(e)
<1>. USE DEF Moved
<1>1. att \in [Attempts -> AttemptStates] /\ att[e] \in AttemptStates
  BY DEF TypeInv, TypeOK
<1>2. ASSUME NEW pc \in ({"queue", "unhandled", "ending"} \cup Inside) \ {"storing"}, Goto(e, pc)
      PROVE  Moved(e)
  BY <1>1, <1>2 DEF Goto, AttemptStates
<1>3. ASSUME NEW result \in {"complete", "failed", "blocked"}, Stop(e, result) \/ Return(e, result)
      PROVE  Moved(e)
  <2>1. PICK pc \in {"terminal", "ending"} : att' = [att EXCEPT ![e].pc = pc, ![e].result = result]
    BY <1>3 DEF Stop, Return
  <2>. QED  BY <1>1, <2>1, ZenonT(40) DEF AttemptStates, Inside, Awaiting
<1>4. ASSUME Leave(e) PROVE Moved(e)
  <2>1. NoAttempt \in AttemptStates
    BY DEF NoAttempt, AttemptStates, Inside, Awaiting, Unknown
  <2>2. att'[e] = [NoAttempt EXCEPT !.pc = "gone", !.plan = att[e].plan]
        /\ att' = [att EXCEPT ![e] = att'[e]]
    BY <1>1, <1>4 DEF Leave
  <2>. QED  BY <1>1, <2>1, <2>2 DEF AttemptStates
<1>. QED  BY <1>2, <1>3, <1>4

LEMMA StartTypeInv ==
  ASSUME TypeInv, NEW e \in Attempts, Start(e)
  PROVE  TypeInv'
<1>. USE DEF At, Goto, Return, Unknown
<1>1. att \in [Attempts -> AttemptStates] /\ att[e] \in AttemptStates
  BY DEF TypeInv, TypeOK
<1>2. ASSUME NEW kind \in {"route", "recovery"}, Claim(e, kind) PROVE TypeInv'
  <2>1. Moved(e)
    <3>1. att' = [att EXCEPT ![e].kind = kind, ![e].pc = "queue"]
      BY <1>2 DEF Claim
    <3>. QED  BY <1>1, <3>1 DEF Moved, AttemptStates, Inside, Awaiting
  <2>2. row' \in Registry
    BY <1>2, Constants DEF Claim, Registry
  <2>. QED  BY <1>2, <2>1, <2>2, AttemptStep DEF Claim, KeepFabric, fabric, TypeInv, TypeOK
<1>3. CASE Queue(e)
  <2>1. Moved(e)
    BY <1>1, <1>3 DEF Queue, Moved, AttemptStates, Inside, Awaiting
  <2>2. cost' \in {Absent, Unset, Unknown} \cup Nat /\ writer' \in 0 .. MaxAttempts
    <3>1. att[e].kind \in {"route", "recovery"}
      BY <1>1 DEF AttemptStates
    <3>. QED  BY <1>3, <3>1, CostTypes, Constants DEF Queue, emitStatus, TypeInv
  <2>. QED  BY <1>3, <2>1, <2>2, AttemptStep DEF Queue, KeepRun, TypeInv, TypeOK
<1>4. CASE Refuse(e) \/ AlreadyComplete(e)
  <2>1. Moved(e)
    <3>1. PICK result \in {"complete", "blocked"} : Return(e, result)
      BY <1>4 DEF Refuse, AlreadyComplete
    <3>. QED  BY <1>1, <3>1, ZenonT(40) DEF Moved, AttemptStates, Inside, Awaiting
  <2>. QED  BY <1>4, <2>1, LocalStep DEF Refuse, AlreadyComplete
<1>5. CASE Enter(e)
  <2>1. Moved(e)
    <3>1. persistedCost \in {Unknown} \cup Nat /\ storedPlan \in Seq(Assignments)
          /\ <<>> \in Seq(Assignments)
      BY CostTypes DEF TypeInv
    <3>. QED  BY <1>1, <1>5, <3>1 DEF Enter, Moved, AttemptStates, Inside, Awaiting
  <2>. QED  BY <1>5, <2>1, LocalStep DEF Enter
<1>. QED  BY <1>2, <1>3, <1>4, <1>5 DEF Start
\* What an attempt writes as its status is an amount or null.
LEMMA OwnCost ==
  ASSUME TypeInv, NEW e \in Attempts, emitStatus(e, att[e].cost)
  PROVE  cost' \in {Absent, Unset, Unknown} \cup Nat /\ writer' \in 0 .. MaxAttempts
<1>1. att[e].cost \in {Unknown} \cup Nat
  BY DEF TypeInv, TypeOK, AttemptStates
<1>. QED  BY <1>1, Constants DEF emitStatus

LEMMA PlanTypeInv ==
  ASSUME TypeInv, NEW e \in Attempts, Plan(e)
  PROVE  TypeInv'
<1>1. att \in [Attempts -> AttemptStates] /\ att[e] \in AttemptStates
  BY DEF TypeInv, TypeOK
<1>2. CASE Planned(e)
  <2>1. PICK p \in Plans : att' = [att EXCEPT ![e].pc = "storing", ![e].plan = p, ![e].at = 1]
    BY <1>2 DEF Planned
  <2>2. p \in Seq(Assignments) /\ 1 \in 1 .. Len(p)
    BY Constants
  <2>3. Moved(e)
    <3>1. /\ att'[e] = [att[e] EXCEPT !.pc = "storing", !.plan = p, !.at = 1]
          /\ att' = [att EXCEPT ![e] = att'[e]]
      BY <1>1, <2>1
    <3>2. att'[e].pc = "storing" /\ att'[e].plan = p /\ att'[e].at = 1
      BY <1>1, <3>1 DEF AttemptStates
    <3>3. "storing" \in Inside /\ 1 \in Nat \ {0}
      BY DEF Inside
    <3>4. att'[e] \in AttemptStates
      BY <1>1, <2>2, <3>1, <3>3, ZenonT(40) DEF AttemptStates
    <3>. QED  BY <2>2, <3>1, <3>2, <3>4 DEF Moved
  <2>. QED  BY <1>2, <2>3, LocalStep DEF Planned
<1>3. CASE PlanningFails(e)
  BY <1>3, Moves, LocalStep DEF PlanningFails
<1>4. CASE StoreItem(e)
  <2>1. att[e].at \in 1 .. Len(att[e].plan) /\ att[e].plan \in Seq(Assignments)
    BY <1>1, <1>4 DEF StoreItem, At, TypeInv, StoringInPlan, AttemptStates
  <2>2. Assignment(e) \in Assignments
    BY <2>1 DEF Assignment
  <2>3. items' \in [1 .. MaxPlan -> Seq(Assignments)]
    <3>1. /\ items \in [1 .. MaxPlan -> Seq(Assignments)]
          /\ items' = [items EXCEPT ![att[e].at] = Append(@, Assignment(e))]
      BY <1>4 DEF StoreItem, TypeInv, TypeOK
    <3>2. \A i \in 1 .. MaxPlan : Append(items[i], Assignment(e)) \in Seq(Assignments)
      BY <2>2, <3>1
    <3>. QED  BY <3>1, <3>2
  <2>4. Moved(e)
    <3>1. CASE att[e].at = Len(att[e].plan)
      <4>1. att' = [att EXCEPT ![e].pc = "accepting", ![e].at = 1]
        BY <1>4, <3>1 DEF StoreItem
      <4>2. "accepting" \in Inside /\ 1 \in Nat \ {0}
        BY DEF Inside
      <4>. QED  BY <1>1, <4>1, <4>2 DEF Moved, AttemptStates
    <3>2. CASE att[e].at # Len(att[e].plan)
      <4>1. att' = [att EXCEPT ![e].pc = "storing", ![e].at = @ + 1]
        BY <1>4, <3>2 DEF StoreItem
      <4>2. att[e].at + 1 \in 1 .. Len(att[e].plan) /\ att[e].at + 1 \in Nat \ {0}
        BY <2>1, <3>2
      <4>. QED  BY <1>1, <4>1, <4>2 DEF Moved, AttemptStates, Inside, Awaiting
    <3>. QED  BY <3>1, <3>2
  <2>. QED  BY <1>4, <2>3, <2>4, AttemptStep DEF StoreItem, KeepRun, TypeInv, TypeOK
<1>5. CASE StorePlan(e)
  <2>1. Moved(e)
    BY <1>5, Moves DEF StorePlan, Inside
  <2>. QED  BY <1>5, <2>1, AttemptStep DEF StorePlan, KeepRun, TypeInv, TypeOK
<1>6. CASE BeginWork(e)
  <2>1. Moved(e)
    BY <1>6, Moves DEF BeginWork, Inside
  <2>. QED  BY <1>6, <2>1, OwnCost, AttemptStep DEF BeginWork, KeepRun, TypeInv, TypeOK
<1>. QED  BY <1>2, <1>3, <1>4, <1>5, <1>6 DEF Plan

LEMMA WorkTypeInv ==
  ASSUME TypeInv, NEW e \in Attempts, Work(e)
  PROVE  TypeInv'
<1>1. att \in [Attempts -> AttemptStates] /\ att[e] \in AttemptStates
  BY DEF TypeInv, TypeOK
<1>2. CASE SkipCompleted(e)
  <2>1. att' = [att EXCEPT ![e].at = @ + 1] /\ att[e].pc = "loop" /\ att[e].at + 1 \in Nat \ {0}
    BY <1>1, <1>2 DEF SkipCompleted, At, AttemptStates
  <2>2. Moved(e)
    BY <1>1, <2>1 DEF Moved, AttemptStates
  <2>. QED  BY <1>2, <2>2, LocalStep DEF SkipCompleted
<1>3. CASE HaltWork(e)
  <2>1. Stop(e, "failed") \/ Stop(e, "blocked")
    BY <1>3 DEF HaltWork
  <2>2. Moved(e)
    BY <2>1, Moves
  <2>. QED  BY <1>3, <2>2, LocalStep DEF HaltWork
<1>4. CASE StartTask(e)
  <2>1. Moved(e)
    BY <1>1, <1>4, ZenonT(40) DEF StartTask, Moved, AttemptStates, Inside, Awaiting
  <2>2. task' \in [Assignments -> {"none", "executing", "complete"}]
    BY <1>4 DEF StartTask, TypeInv, TypeOK
  <2>. QED  BY <1>4, <2>1, <2>2, AttemptStep DEF StartTask, KeepRun, TypeInv, TypeOK
<1>5. CASE Dispatch(e)
  <2>1. PICK c \in Costs : spent' = spent + c /\ att' = [att EXCEPT ![e].pc = "await", ![e].bill = c]
    BY <1>5 DEF Dispatch
  <2>2. c \in Nat
    BY Constants
  <2>3. Moved(e)
    BY <1>1, <2>1, <2>2 DEF Moved, AttemptStates, Inside, Awaiting
  <2>4. cost' \in {Absent, Unset, Unknown} \cup Nat /\ writer' \in 0 .. MaxAttempts /\ spent' \in Nat
    BY <1>5, <2>1, <2>2, Constants DEF Dispatch, emitStatus, pendingCost, TypeInv, TypeOK
  <2>. QED  BY <1>5, <2>3, <2>4, AttemptStep DEF Dispatch, TypeInv, TypeOK
<1>6. CASE AdapterFails(e) \/ AccountingUnknown(e) \/ Executed(e)
  <2>1. PICK sum \in {Unknown} \cup Nat, pc \in {"terminal", "verify"}, result \in {"failed", "blocked"} :
          att' = [att EXCEPT ![e].cost = sum, ![e].pc = pc, ![e].result = result]
    <3>1. att[e].cost \in {Unknown} \cup Nat /\ att[e].bill \in {Unknown} \cup Nat
      BY <1>1 DEF AttemptStates
    <3>2. \A y \in {Unknown, att[e].bill} : addCost(att[e].cost, y) \in {Unknown} \cup Nat
      BY <3>1, CostTypes DEF TypeInv
    <3>3. CASE AdapterFails(e)
      <4>1. PICK y \in {Unknown, att[e].bill} :
              att' = [att EXCEPT ![e].cost = addCost(@, y), ![e].pc = "terminal", ![e].result = "failed"]
        BY <3>3 DEF AdapterFails
      <4>. QED  BY <3>2, <4>1
    <3>4. CASE AccountingUnknown(e)
      BY <3>2, <3>4 DEF AccountingUnknown
    <3>5. CASE Executed(e)
      <4>1. PICK ok \in BOOLEAN :
              LET sum == addCost(att[e].cost, att[e].bill)
              IN att' = [att EXCEPT ![e].cost = sum,
                           ![e].pc = IF ok /\ withinLimit(sum) THEN "verify" ELSE "terminal",
                           ![e].result = "failed"]
        BY <3>5 DEF Executed
      <4>2. CASE ok /\ withinLimit(addCost(att[e].cost, att[e].bill))
        BY <3>2, <4>1, <4>2
      <4>3. CASE ~(ok /\ withinLimit(addCost(att[e].cost, att[e].bill)))
        BY <3>2, <4>1, <4>3
      <4>. QED  BY <4>2, <4>3
    <3>. QED  BY <1>6, <3>3, <3>4, <3>5
  <2>2. Moved(e)
    BY <1>1, <2>1, ZenonT(40) DEF Moved, AttemptStates, Inside, Awaiting
  <2>. QED  BY <1>6, <2>2, LocalStep DEF AdapterFails, AccountingUnknown, Executed
<1>7. CASE Verified(e) \/ VerificationFails(e)
  <2>1. Moved(e)
    BY <1>7, Moves DEF Verified, VerificationFails, Inside
  <2>. QED  BY <1>7, <2>1, LocalStep DEF Verified, VerificationFails
<1>8. CASE CompleteTask(e)
  <2>1. Moved(e)
    BY <1>8, Moves DEF CompleteTask, Inside
  <2>2. task' \in [Assignments -> {"none", "executing", "complete"}]
    BY <1>8 DEF CompleteTask, TypeInv, TypeOK
  <2>. QED  BY <1>8, <2>1, <2>2, AttemptStep DEF CompleteTask, KeepRun, TypeInv, TypeOK
<1>9. CASE Settle(e)
  <2>1. att' = [att EXCEPT ![e].pc = "loop", ![e].at = @ + 1] /\ att[e].at + 1 \in Nat \ {0}
    BY <1>1, <1>9 DEF Settle, AttemptStates
  <2>2. Moved(e)
    BY <1>1, <2>1 DEF Moved, AttemptStates, Inside, Awaiting
  <2>. QED  BY <1>9, <2>2, OwnCost, AttemptStep DEF Settle, KeepRun, TypeInv, TypeOK
<1>. QED  BY <1>2, <1>3, <1>4, <1>5, <1>6, <1>7, <1>8, <1>9 DEF Work
LEMMA JudgeTypeInv ==
  ASSUME TypeInv, NEW e \in Attempts, Judge(e)
  PROVE  TypeInv'
<1>1. att \in [Attempts -> AttemptStates] /\ att[e] \in AttemptStates
  BY DEF TypeInv, TypeOK
<1>2. CASE EnterVerification(e)
  <2>1. \/ att' = [att EXCEPT ![e].pc = "pending", ![e].stage = "codex"]
        \/ Stop(e, "failed")
    BY <1>2 DEF EnterVerification
  <2>2. Moved(e)
    <3>1. CASE att' = [att EXCEPT ![e].pc = "pending", ![e].stage = "codex"]
      BY <1>1, <3>1, ZenonT(40) DEF Moved, AttemptStates, Inside, Awaiting
    <3>. QED  BY <2>1, <3>1, Moves
  <2>. QED  BY <1>2, <2>2, OwnCost, AttemptStep DEF EnterVerification, KeepRun, TypeInv, TypeOK
<1>3. CASE Verdict(e)
  <2>1. PICK pass \in BOOLEAN :
          att' = [att EXCEPT ![e].cost = addCost(@, att[e].bill), ![e].pc = "verdict", ![e].pass = pass]
    BY <1>3 DEF Verdict
  <2>2. addCost(att[e].cost, att[e].bill) \in {Unknown} \cup Nat
    <3>1. att[e].cost \in {Unknown} \cup Nat /\ att[e].bill \in {Unknown} \cup Nat
      BY <1>1 DEF AttemptStates
    <3>. QED  BY <3>1, CostTypes DEF TypeInv
  <2>3. Moved(e)
    BY <1>1, <2>1, <2>2, ZenonT(40) DEF Moved, AttemptStates, Inside, Awaiting
  <2>. QED  BY <1>3, <2>3, LocalStep DEF Verdict
<1>4. CASE RecordVerdict(e)
  <2>1. PICK pc \in {"assuring", "terminal"}, result \in {"complete", "failed"} :
          att' = [att EXCEPT ![e].pc = pc, ![e].result = result]
    BY <1>4 DEF RecordVerdict
  <2>2. Moved(e)
    BY <1>1, <2>1, ZenonT(40) DEF Moved, AttemptStates, Inside, Awaiting
  <2>3. assured' \in BOOLEAN
    BY <1>4 DEF RecordVerdict
  <2>. QED  BY <1>4, <2>2, <2>3, AttemptStep DEF RecordVerdict, KeepRun, TypeInv, TypeOK
<1>5. CASE EnterAssurance(e)
  <2>1. PICK pc \in {"terminal", "pending"} : att' = [att EXCEPT ![e].stage = "assurance", ![e].pc = pc]
    BY <1>5 DEF EnterAssurance
  <2>2. Moved(e)
    BY <1>1, <2>1, ZenonT(40) DEF Moved, AttemptStates, Inside, Awaiting
  <2>. QED  BY <1>5, <2>2, OwnCost, AttemptStep DEF EnterAssurance, KeepRun, TypeInv, TypeOK
<1>. QED  BY <1>2, <1>3, <1>4, <1>5 DEF Judge

LEMMA EndTypeInv ==
  ASSUME TypeInv, NEW e \in Attempts, EndAttempt(e)
  PROVE  TypeInv'
<1>1. CASE Terminal(e)
  <2>1. Moved(e)
    BY <1>1, Moves DEF Terminal
  <2>. QED  BY <1>1, <2>1, OwnCost, AttemptStep DEF Terminal, KeepRun, TypeInv, TypeOK
<1>2. CASE Throw(e) \/ HandlerThrows(e)
  <2>1. Moved(e)
    BY <1>2, Moves DEF Throw, HandlerThrows
  <2>. QED  BY <1>2, <2>1, LocalStep DEF Throw, HandlerThrows
<1>3. CASE UnhandledFailure(e)
  <2>1. Moved(e)
    BY <1>3, Moves DEF UnhandledFailure
  <2>2. cost' \in {Absent, Unset, Unknown} \cup Nat /\ writer' \in 0 .. MaxAttempts
    BY <1>3, Constants DEF UnhandledFailure, emitStatus, TypeInv, TypeOK
  <2>. QED  BY <1>3, <2>1, <2>2, AttemptStep DEF UnhandledFailure, KeepRun, TypeInv, TypeOK
<1>4. CASE RecoveryFailure(e)
  <2>1. Moved(e)
    BY <1>4, Moves DEF RecoveryFailure
  <2>2. cost' \in {Absent, Unset, Unknown} \cup Nat /\ writer' \in 0 .. MaxAttempts
    BY <1>4, Constants DEF RecoveryFailure, emitStatus, TypeInv, TypeOK
  <2>. QED  BY <1>4, <2>1, <2>2, AttemptStep DEF RecoveryFailure, KeepRun, TypeInv, TypeOK
<1>5. CASE Finish(e)
  <2>1. Moved(e)
    BY <1>5, Moves DEF Finish
  <2>2. row' \in Registry
    <3>1. row \in Registry /\ 0 \in 0 .. MaxAttempts
      BY Constants DEF TypeInv, TypeOK
    <3>2. PICK status \in {"complete", "failed"} :
            row' = row \/ row' = [row EXCEPT !.status = status, !.holder = 0]
      BY <1>5 DEF Finish
    <3>. QED  BY <3>1, <3>2 DEF Registry
  <2>. QED  BY <1>5, <2>1, <2>2, AttemptStep DEF Finish, KeepFabric, fabric, TypeInv, TypeOK
<1>. QED  BY <1>1, <1>2, <1>3, <1>4, <1>5 DEF EndAttempt

LEMMA EnvironmentTypeInv ==
  ASSUME TypeInv, NEW e \in Attempts, Environment(e)
  PROVE  TypeInv'
<1>1. att \in [Attempts -> AttemptStates] /\ att[e] \in AttemptStates
  BY DEF TypeInv, TypeOK
<1>2. CASE Crash(e)
  BY <1>2, Moves, LocalStep DEF Crash
<1>3. CASE Abort(e) \/ Expire(e)
  <2>1. PICK S \in SUBSET {"cancelled", "expired"} : att' = [att EXCEPT ![e].signals = @ \cup S]
    BY <1>3 DEF Abort, Expire
  <2>2. att[e].signals \cup S \in SUBSET {"cancelled", "expired"}
    BY <1>1 DEF AttemptStates
  <2>3. att[e].pc = "storing" => att[e].at \in 1 .. Len(att[e].plan)
    BY DEF TypeInv, StoringInPlan
  <2>4. Moved(e)
    BY <1>1, <2>1, <2>2, <2>3 DEF Moved, AttemptStates
  <2>. QED  BY <1>3, <2>4, LocalStep DEF Abort, Expire
<1>. QED  BY <1>2, <1>3 DEF Environment

LEMMA NextTypeInv == TypeInv /\ [Next]_vars => TypeInv'
<1>. SUFFICES ASSUME TypeInv, [Next]_vars PROVE TypeInv'
  OBVIOUS
<1>1. CASE Cancel
  <2>1. row' \in Registry
    <3>1. row \in Registry /\ 0 \in 0 .. MaxAttempts
      BY Constants DEF TypeInv, TypeOK
    <3>. QED  BY <1>1, <3>1 DEF Cancel, Registry
  <2>. QED  BY <1>1, <2>1 DEF Cancel, fabric, TypeInv, TypeOK, StoringInPlan
<1>2. CASE UNCHANGED vars
  BY <1>2 DEF vars, fabric, TypeInv, TypeOK, StoringInPlan
<1>3. ASSUME NEW e \in Attempts,
             Start(e) \/ Plan(e) \/ Work(e) \/ Judge(e) \/ EndAttempt(e) \/ Environment(e)
      PROVE  TypeInv'
  BY <1>3, StartTypeInv, PlanTypeInv, WorkTypeInv, JudgeTypeInv, EndTypeInv, EnvironmentTypeInv
<1>. QED  BY <1>1, <1>2, <1>3 DEF Next

\* Type correctness: in particular a subtotal in memory is an amount or null,
\* and never the undefined that the fabric may hold.
THEOREM TypeCorrect == Spec => []TypeOK
<1>1. TypeInv => TypeOK
  BY DEF TypeInv
<1>. QED  BY <1>1, InitTypeInv, NextTypeInv, PTL DEF Spec
-----------------------------------------------------------------------------
(***************************************************************************)
(* The books of a run whose attempts do not overlap.                       *)
(***************************************************************************)
Solo == \A d, e \in Attempts : Alive(d) /\ Alive(e) => d = e

\* Past the first read, the subtotal in memory is an amount until the end.
Known == {"planning", "storing", "accepting", "planned", "loop", "pending", "await", "verify",
          "completing", "settling", "verdict", "assuring"}

\* What an attempt may rely on at each place.
Books(e) ==
  /\ att[e].pc \in Known => att[e].cost >= 0
  /\ att[e].pc \in {"pending", "await", "assuring"} => att[e].cost <= MaxCost
  /\ att[e].pc = "assuring" => att[e].result # "complete"
  /\ att[e].pc = "terminal" /\ att[e].result = "complete" =>
       assured /\ att[e].cost >= 0 /\ att[e].cost <= MaxCost
  /\ att[e].pc = "ending" /\ att[e].result = "complete" => completedExecutionRun
  /\ ~unhandled /\ att[e].pc \in (Known \ {"await"}) \cup {"terminal"} /\ att[e].cost >= 0 =>
       att[e].cost = spent
  /\ ~unhandled /\ att[e].pc = "await" => att[e].cost + att[e].bill = spent

OneCallOver == ~unhandled => spent <= MaxCost \/ \E c \in Costs : spent - c <= MaxCost

\* What the fabric and the registry say.
Ledger ==
  /\ row.status = "complete" => completedExecutionRun /\ \A e \in Attempts : ~Alive(e)
  /\ CostIsAccounted
  /\ ~unhandled /\ cost < Unknown => spent = 0
  /\ OneCallOver

Inv ==
  /\ TypeInv
  /\ Solo
  /\ \A e \in Attempts : Books(e)
  /\ Ledger

LEMMA InitInv == Init => Inv
<1>. SUFFICES ASSUME Init PROVE Inv
  OBVIOUS
<1>1. \A e \in Attempts : att[e].pc = "none" /\ ~Alive(e)
  BY DEF Init, NoAttempt, Alive
<1>2. Solo
  BY <1>1 DEF Solo
<1>3. \A e \in Attempts : Books(e)
  BY <1>1 DEF Books, Known
<1>4. Ledger
  BY CostsAssumption DEF Init, Ledger, CostIsAccounted, OneCallOver, Absent, Unknown
<1>. QED  BY <1>2, <1>3, <1>4, InitTypeInv DEF Inv

\* Nobody but e is alive: the others have nothing that could go wrong.
LEMMA SoloStep ==
  ASSUME Inv, TypeInv', NEW e \in Attempts, Alive(e),
         \A d \in Attempts \ {e} : att'[d] = att[d],
         Books(e)', Ledger'
  PROVE  Inv'
<1>1. \A d \in Attempts \ {e} : ~Alive(d) /\ ~Alive(d)'
  BY DEF Inv, Solo, Alive
<1>2. Solo'
  BY <1>1 DEF Solo, Attempts
<1>3. \A d \in Attempts \ {e} : Books(d)'
  BY <1>1 DEF Alive, Books, Known
<1>. QED  BY <1>2, <1>3 DEF Inv, Attempts

\* Without an append.
LEMMA QuietStep ==
  ASSUME Inv, TypeInv', NEW e \in Attempts, Alive(e), KeepFabric, KeepRun,
         \A d \in Attempts \ {e} : att'[d] = att[d],
         Books(e)'
  PROVE  Inv'
<1>1. row.status # "complete"
  BY DEF Inv, Ledger
<1>2. Ledger'
  BY <1>1 DEF Inv, Ledger, KeepFabric, KeepRun, fabric, CostIsAccounted, OneCallOver
<1>. QED  BY <1>2, SoloStep

\* With a status that carries the subtotal in memory.
LEMMA StatusStep ==
  ASSUME Inv, TypeInv', NEW e \in Attempts,
         att[e].pc \in (Known \ {"await"}) \cup {"terminal"},
         emitStatus(e, att[e].cost), UNCHANGED <<unhandled, assured>>, KeepRun,
         \A d \in Attempts \ {e} : att'[d] = att[d],
         Books(e)'
  PROVE  Inv'
<1>1. Alive(e)
  BY DEF Alive, Known
<1>2. row.status # "complete"
  BY <1>1 DEF Inv, Ledger
<1>3. att[e].cost \in {Unknown} \cup Nat
  BY DEF Inv, TypeInv, TypeOK, AttemptStates
<1>4. Ledger'
  BY <1>2, <1>3 DEF Inv, Books, Ledger, KeepRun, emitStatus, CostIsAccounted, OneCallOver, Unknown
<1>. QED  BY <1>1, <1>4, SoloStep

\* With a checkpoint or a task that is not part of the books.
LEMMA CheckpointStep ==
  ASSUME Inv, TypeInv', NEW e \in Attempts, Alive(e), UNCHANGED <<cost, unhandled>>, KeepRun,
         \A d \in Attempts \ {e} : att'[d] = att[d],
         Books(e)'
  PROVE  Inv'
<1>1. row.status # "complete"
  BY DEF Inv, Ledger
<1>2. Ledger'
  BY <1>1 DEF Inv, Ledger, KeepRun, CostIsAccounted, OneCallOver
<1>. QED  BY <1>2, SoloStep
LEMMA PlanInv ==
  ASSUME Inv, TypeInv', NEW e \in Attempts, Plan(e)
  PROVE  Inv'
<1>1. /\ att \in [Attempts -> AttemptStates] /\ att[e] \in AttemptStates /\ Books(e)
      /\ att[e].cost \in {Unknown} \cup Nat /\ att[e].bill \in Nat /\ spent \in Nat /\ MaxCost \in Nat
  BY Constants DEF Inv, TypeInv, TypeOK, AttemptStates
<1>2. CASE Planned(e)
  <2>1. /\ \A d \in Attempts \ {e} : att'[d] = att[d]
        /\ att'[e].pc = "storing" /\ att'[e].cost = att[e].cost
    BY <1>1, <1>2 DEF Planned, AttemptStates
  <2>2. Books(e)'
    BY <1>1, <1>2, <2>1 DEF Planned, KeepFabric, KeepRun, fabric, At, Books, Known, completedExecutionRun
  <2>. QED  BY <1>2, <2>1, <2>2, QuietStep DEF Planned, At, Alive
<1>3. CASE PlanningFails(e)
  <2>1. /\ \A d \in Attempts \ {e} : att'[d] = att[d]
        /\ att'[e].pc = "terminal" /\ att'[e].cost = att[e].cost /\ att'[e].result = "failed"
    BY <1>1, <1>3 DEF PlanningFails, Stop, AttemptStates
  <2>2. Books(e)'
    BY <1>1, <1>3, <2>1 DEF PlanningFails, KeepFabric, KeepRun, fabric, At, Books, Known
  <2>. QED  BY <1>3, <2>1, <2>2, QuietStep DEF PlanningFails, At, Alive
<1>4. CASE StoreItem(e)
  <2>1. /\ \A d \in Attempts \ {e} : att'[d] = att[d]
        /\ att'[e].pc \in {"accepting", "storing"} /\ att'[e].cost = att[e].cost
    BY <1>1, <1>4 DEF StoreItem, AttemptStates
  <2>2. Books(e)'
    BY <1>1, <1>4, <2>1 DEF StoreItem, KeepRun, At, Books, Known
  <2>. QED  BY <1>4, <2>1, <2>2, CheckpointStep DEF StoreItem, At, Alive
<1>5. CASE StorePlan(e)
  <2>1. /\ \A d \in Attempts \ {e} : att'[d] = att[d]
        /\ att'[e].pc = "planned" /\ att'[e].cost = att[e].cost
    BY <1>1, <1>5 DEF StorePlan, Goto, AttemptStates
  <2>2. Books(e)'
    BY <1>1, <1>5, <2>1 DEF StorePlan, KeepRun, At, Books, Known
  <2>. QED  BY <1>5, <2>1, <2>2, CheckpointStep DEF StorePlan, At, Alive
<1>6. CASE BeginWork(e)
  <2>1. /\ \A d \in Attempts \ {e} : att'[d] = att[d]
        /\ att'[e].pc = "loop" /\ att'[e].cost = att[e].cost
    BY <1>1, <1>6 DEF BeginWork, Goto, AttemptStates
  <2>2. Books(e)'
    BY <1>1, <1>6, <2>1 DEF BeginWork, KeepRun, At, Books, Known
  <2>. QED  BY <1>6, <2>1, <2>2, StatusStep DEF BeginWork, At, Known
<1>. QED  BY <1>2, <1>3, <1>4, <1>5, <1>6 DEF Plan
LEMMA WorkInv ==
  ASSUME Inv, TypeInv', NEW e \in Attempts, Work(e)
  PROVE  Inv'
<1>1. /\ att \in [Attempts -> AttemptStates] /\ att[e] \in AttemptStates /\ Books(e)
      /\ att[e].cost \in {Unknown} \cup Nat /\ att[e].bill \in Nat /\ spent \in Nat /\ MaxCost \in Nat
  BY Constants DEF Inv, TypeInv, TypeOK, AttemptStates
<1>2. CASE SkipCompleted(e)
  <2>1. /\ \A d \in Attempts \ {e} : att'[d] = att[d]
        /\ att'[e].pc = "loop" /\ att'[e].cost = att[e].cost
    BY <1>1, <1>2 DEF SkipCompleted, At, AttemptStates
  <2>2. Books(e)'
    BY <1>1, <1>2, <2>1 DEF SkipCompleted, KeepFabric, KeepRun, fabric, At, Books, Known
  <2>. QED  BY <1>2, <2>1, <2>2, QuietStep DEF SkipCompleted, At, Alive
<1>3. CASE HaltWork(e)
  <2>1. /\ \A d \in Attempts \ {e} : att'[d] = att[d]
        /\ att'[e].pc = "terminal" /\ att'[e].cost = att[e].cost /\ att'[e].result # "complete"
    BY <1>1, <1>3 DEF HaltWork, Stop, AttemptStates
  <2>2. Books(e)'
    BY <1>1, <1>3, <2>1 DEF HaltWork, KeepFabric, KeepRun, fabric, At, Books, Known
  <2>. QED  BY <1>3, <2>1, <2>2, QuietStep DEF HaltWork, At, Alive
<1>4. CASE StartTask(e)
  <2>1. /\ \A d \in Attempts \ {e} : att'[d] = att[d]
        /\ att'[e].pc = "pending" /\ att'[e].cost = att[e].cost /\ att[e].cost < MaxCost
    BY <1>1, <1>4 DEF StartTask, spendable, AttemptStates
  <2>2. Books(e)'
    BY <1>1, <1>4, <2>1 DEF StartTask, Unknown, KeepRun, At, Books, Known
  <2>. QED  BY <1>4, <2>1, <2>2, CheckpointStep DEF StartTask, At, Alive
<1>5. CASE Dispatch(e)
  <2>1. PICK c \in Costs : spent' = spent + c /\ att' = [att EXCEPT ![e].pc = "await", ![e].bill = c]
    BY <1>5 DEF Dispatch
  <2>2. c \in Nat
    BY Constants
  <2>3. /\ \A d \in Attempts \ {e} : att'[d] = att[d]
        /\ att'[e].pc = "await" /\ att'[e].cost = att[e].cost /\ att'[e].bill = c
    BY <1>1, <2>1 DEF AttemptStates
  <2>4. Books(e)'
    BY <1>1, <1>5, <2>1, <2>2, <2>3 DEF Dispatch, At, Books, Known
  <2>5. row.status # "complete" /\ Alive(e)
    BY <1>5 DEF Dispatch, At, Alive, Inv, Ledger
  <2>6. ~unhandled => spent' - c <= MaxCost
    BY <1>1, <1>5, <2>1, <2>2 DEF Dispatch, At, Books, Known
  <2>7. Ledger'
    BY <1>5, <2>5, <2>6 DEF Dispatch, emitStatus, pendingCost, Ledger, CostIsAccounted, OneCallOver, Unknown
  <2>. QED  BY <2>3, <2>4, <2>5, <2>7, SoloStep
<1>6. CASE AdapterFails(e)
  <2>1. PICK y \in {att[e].bill, Unknown} :
          att' = [att EXCEPT ![e].cost = addCost(@, y), ![e].pc = "terminal", ![e].result = "failed"]
    BY <1>6 DEF AdapterFails
  <2>2. /\ \A d \in Attempts \ {e} : att'[d] = att[d]
        /\ att'[e].pc = "terminal" /\ att'[e].cost = addCost(att[e].cost, y) /\ att'[e].result = "failed"
    BY <1>1, <2>1 DEF AttemptStates
  <2>3. Books(e)'
    BY <1>1, <1>6, <2>2 DEF AdapterFails, KeepFabric, KeepRun, fabric, At, addCost, Unknown, Books, Known
  <2>. QED  BY <1>6, <2>2, <2>3, QuietStep DEF AdapterFails, At, Alive
<1>7. CASE AccountingUnknown(e)
  <2>1. /\ \A d \in Attempts \ {e} : att'[d] = att[d]
        /\ att'[e].pc = "terminal" /\ att'[e].cost = Unknown /\ att'[e].result = "blocked"
    BY <1>1, <1>7 DEF AccountingUnknown, addCost, AttemptStates
  <2>2. Books(e)'
    BY <1>1, <1>7, <2>1 DEF AccountingUnknown, Unknown, KeepFabric, KeepRun, fabric, At, Books, Known
  <2>. QED  BY <1>7, <2>1, <2>2, QuietStep DEF AccountingUnknown, At, Alive
<1>8. CASE Executed(e)
  <2>1. /\ \A d \in Attempts \ {e} : att'[d] = att[d]
        /\ att'[e].pc \in {"verify", "terminal"} /\ att'[e].result = "failed"
        /\ att'[e].cost = addCost(att[e].cost, att[e].bill)
    BY <1>1, <1>8 DEF Executed, AttemptStates
  <2>2. Books(e)'
    BY <1>1, <1>8, <2>1 DEF Executed, addCost, Unknown, KeepFabric, KeepRun, fabric, At, Books, Known
  <2>. QED  BY <1>8, <2>1, <2>2, QuietStep DEF Executed, At, Alive
<1>9. CASE Verified(e)
  <2>1. /\ \A d \in Attempts \ {e} : att'[d] = att[d]
        /\ att'[e].pc = "completing" /\ att'[e].cost = att[e].cost
    BY <1>1, <1>9 DEF Verified, Goto, AttemptStates
  <2>2. Books(e)'
    BY <1>1, <1>9, <2>1 DEF Verified, KeepFabric, KeepRun, fabric, At, Books, Known
  <2>. QED  BY <1>9, <2>1, <2>2, QuietStep DEF Verified, At, Alive
<1>10. CASE VerificationFails(e)
  <2>1. /\ \A d \in Attempts \ {e} : att'[d] = att[d]
        /\ att'[e].pc = "terminal" /\ att'[e].cost = att[e].cost /\ att'[e].result = "failed"
    BY <1>1, <1>10 DEF VerificationFails, Stop, AttemptStates
  <2>2. Books(e)'
    BY <1>1, <1>10, <2>1 DEF VerificationFails, KeepFabric, KeepRun, fabric, At, Books, Known
  <2>. QED  BY <1>10, <2>1, <2>2, QuietStep DEF VerificationFails, At, Alive
<1>11. CASE CompleteTask(e)
  <2>1. /\ \A d \in Attempts \ {e} : att'[d] = att[d]
        /\ att'[e].pc = "settling" /\ att'[e].cost = att[e].cost
    BY <1>1, <1>11 DEF CompleteTask, Goto, AttemptStates
  <2>2. Books(e)'
    BY <1>1, <1>11, <2>1 DEF CompleteTask, KeepRun, At, Books, Known
  <2>. QED  BY <1>11, <2>1, <2>2, CheckpointStep DEF CompleteTask, At, Alive
<1>12. CASE Settle(e)
  <2>1. /\ \A d \in Attempts \ {e} : att'[d] = att[d]
        /\ att'[e].pc = "loop" /\ att'[e].cost = att[e].cost
    BY <1>1, <1>12 DEF Settle, AttemptStates
  <2>2. Books(e)'
    BY <1>1, <1>12, <2>1 DEF Settle, KeepRun, At, Books, Known
  <2>. QED  BY <1>12, <2>1, <2>2, StatusStep DEF Settle, At, Known
<1>. QED  BY <1>2, <1>3, <1>4, <1>5, <1>6, <1>7, <1>8, <1>9, <1>10, <1>11, <1>12 DEF Work

LEMMA JudgeInv ==
  ASSUME Inv, TypeInv', NEW e \in Attempts, Judge(e)
  PROVE  Inv'
<1>1. /\ att \in [Attempts -> AttemptStates] /\ att[e] \in AttemptStates /\ Books(e)
      /\ att[e].cost \in {Unknown} \cup Nat /\ att[e].bill \in Nat /\ spent \in Nat /\ MaxCost \in Nat
  BY Constants DEF Inv, TypeInv, TypeOK, AttemptStates
<1>2. CASE EnterVerification(e)
  <2>1. /\ \A d \in Attempts \ {e} : att'[d] = att[d]
        /\ att'[e].cost = att[e].cost
        /\ \/ att'[e].pc = "pending" /\ att[e].cost < MaxCost
           \/ att'[e].pc = "terminal" /\ att'[e].result = "failed"
    BY <1>1, <1>2 DEF EnterVerification, Stop, spendable, AttemptStates
  <2>2. Books(e)'
    BY <1>1, <1>2, <2>1 DEF EnterVerification, Unknown, KeepRun, At, Books, Known
  <2>. QED  BY <1>2, <2>1, <2>2, StatusStep DEF EnterVerification, At, Known
<1>3. CASE Verdict(e)
  <2>1. /\ \A d \in Attempts \ {e} : att'[d] = att[d]
        /\ att'[e].pc = "verdict" /\ att'[e].cost = addCost(att[e].cost, att[e].bill)
    BY <1>1, <1>3 DEF Verdict, AttemptStates
  <2>2. Books(e)'
    BY <1>1, <1>3, <2>1 DEF Verdict, addCost, Unknown, KeepFabric, KeepRun, fabric, At, Books, Known
  <2>. QED  BY <1>3, <2>1, <2>2, QuietStep DEF Verdict, At, Alive
<1>4. CASE RecordVerdict(e)
  <2>1. /\ \A d \in Attempts \ {e} : att'[d] = att[d]
        /\ att'[e].cost = att[e].cost
        /\ \/ att'[e].pc = "assuring" /\ accepted(e) /\ att'[e].result = "failed"
           \/ att'[e].pc = "terminal" /\ att'[e].result = "failed"
           \/ att'[e].pc = "terminal" /\ accepted(e) /\ att[e].stage = "assurance"
    BY <1>1, <1>4 DEF RecordVerdict, AttemptStates
  <2>2. Books(e)'
    BY <1>1, <1>4, <2>1 DEF RecordVerdict, accepted, withinLimit, KeepRun, At, Books, Known
  <2>. QED  BY <1>4, <2>1, <2>2, CheckpointStep DEF RecordVerdict, At, Alive
<1>5. CASE EnterAssurance(e)
  <2>1. /\ \A d \in Attempts \ {e} : att'[d] = att[d]
        /\ att'[e].cost = att[e].cost /\ att'[e].pc \in {"terminal", "pending"} /\ att'[e].result = att[e].result
    BY <1>1, <1>5 DEF EnterAssurance, AttemptStates
  <2>2. Books(e)'
    BY <1>1, <1>5, <2>1 DEF EnterAssurance, KeepRun, At, Books, Known
  <2>. QED  BY <1>5, <2>1, <2>2, StatusStep DEF EnterAssurance, At, Known
<1>. QED  BY <1>2, <1>3, <1>4, <1>5 DEF Judge
LEMMA EndInv ==
  ASSUME Inv, TypeInv', NEW e \in Attempts, EndAttempt(e)
  PROVE  Inv'
<1>1. /\ att \in [Attempts -> AttemptStates] /\ att[e] \in AttemptStates /\ Books(e)
      /\ att[e].cost \in {Unknown} \cup Nat /\ att[e].bill \in Nat /\ spent \in Nat /\ MaxCost \in Nat
  BY Constants DEF Inv, TypeInv, TypeOK, AttemptStates
<1>2. CASE Terminal(e)
  <2>1. /\ \A d \in Attempts \ {e} : att'[d] = att[d]
        /\ att'[e].pc = "ending" /\ att'[e].result = att[e].result
    BY <1>1, <1>2 DEF Terminal, Goto, AttemptStates
  <2>2. Books(e)'
    BY <1>1, <1>2, <2>1 DEF Terminal, emitStatus, completedExecutionRun, At, Books, Known
  <2>. QED  BY <1>2, <2>1, <2>2, StatusStep DEF Terminal, At
<1>3. CASE Throw(e)
  <2>1. /\ \A d \in Attempts \ {e} : att'[d] = att[d]
        /\ att'[e].pc = "unhandled"
    BY <1>1, <1>3 DEF Throw, Goto, AttemptStates
  <2>2. Books(e)'
    BY <1>1, <1>3, <2>1 DEF Throw, Books, Known
  <2>. QED  BY <1>3, <2>1, <2>2, QuietStep DEF Throw, Alive, Inside, Awaiting
<1>4. CASE UnhandledFailure(e)
  <2>1. /\ \A d \in Attempts \ {e} : att'[d] = att[d]
        /\ att'[e].pc = "ending" /\ att'[e].result = "failed"
    BY <1>1, <1>4 DEF UnhandledFailure, Return, AttemptStates
  <2>2. Books(e)'
    BY <2>1 DEF Books, Known
  <2>3. Alive(e) /\ row.status # "complete"
    BY <1>4 DEF UnhandledFailure, At, Alive, Inv, Ledger
  <2>4. Ledger'
    BY <1>4, <2>3 DEF UnhandledFailure, KeepRun, Ledger, CostIsAccounted, OneCallOver
  <2>. QED  BY <2>1, <2>2, <2>3, <2>4, SoloStep
<1>5. CASE RecoveryFailure(e)
  <2>1. /\ \A d \in Attempts \ {e} : att'[d] = att[d]
        /\ att'[e].pc = "ending" /\ att'[e].result = "failed"
    BY <1>1, <1>5 DEF RecoveryFailure, Return, AttemptStates
  <2>2. Books(e)'
    BY <2>1 DEF Books, Known
  <2>. QED  BY <1>5, <2>1, <2>2, CheckpointStep DEF RecoveryFailure, emitStatus, At, Alive
<1>6. CASE HandlerThrows(e)
  <2>1. /\ \A d \in Attempts \ {e} : att'[d] = att[d]
        /\ att'[e].pc = "ending" /\ att'[e].result = "failed"
    BY <1>1, <1>6 DEF HandlerThrows, Return, AttemptStates
  <2>2. Books(e)'
    BY <1>1, <1>6, <2>1 DEF HandlerThrows, Books, Known
  <2>. QED  BY <1>6, <2>1, <2>2, QuietStep DEF HandlerThrows, At, Alive
<1>7. CASE Finish(e)
  <2>1. /\ \A d \in Attempts \ {e} : att'[d] = att[d]
        /\ att'[e].pc = "gone"
    BY <1>1, <1>7 DEF Finish, Leave, NoAttempt, AttemptStates
  <2>2. Books(e)'
    BY <2>1 DEF Books, Known
  <2>3. Alive(e) /\ row.status # "complete"
    BY <1>7 DEF Finish, At, Alive, Inv, Ledger
  <2>4. \A d \in Attempts : ~Alive(d)'
    BY <2>1, <2>3 DEF Alive, Inv, Solo
  <2>5. row'.status = "complete" => att[e].result = "complete"
    BY <1>7, <2>3 DEF Finish, Inv, TypeInv, TypeOK, Registry
  <2>6. row'.status = "complete" => completedExecutionRun'
    BY <1>1, <1>7, <2>5 DEF Finish, At, KeepFabric, fabric, Books, completedExecutionRun
  <2>7. (\A d \in Attempts : ~Alive(d))'
    BY <2>4 DEF Attempts
  <2>8. Ledger'
    BY <1>7, <2>6, <2>7 DEF Finish, KeepFabric, fabric, Inv, Ledger, CostIsAccounted, OneCallOver
  <2>. QED  BY <2>1, <2>2, <2>3, <2>8, SoloStep
<1>. QED  BY <1>2, <1>3, <1>4, <1>5, <1>6, <1>7 DEF EndAttempt

LEMMA EnvironmentInv ==
  ASSUME Inv, TypeInv', NEW e \in Attempts, Environment(e)
  PROVE  Inv'
<1>1. /\ att \in [Attempts -> AttemptStates] /\ att[e] \in AttemptStates /\ Books(e)
      /\ att[e].cost \in {Unknown} \cup Nat /\ att[e].bill \in Nat /\ spent \in Nat /\ MaxCost \in Nat
  BY Constants DEF Inv, TypeInv, TypeOK, AttemptStates
<1>2. CASE Crash(e)
  <2>1. /\ \A d \in Attempts \ {e} : att'[d] = att[d]
        /\ att'[e].pc = "gone"
    BY <1>1, <1>2 DEF Crash, Leave, NoAttempt, AttemptStates
  <2>2. Books(e)'
    BY <1>1, <1>2, <2>1 DEF Crash, Books, Known
  <2>. QED  BY <1>2, <2>1, <2>2, QuietStep DEF Crash
<1>3. CASE Abort(e) \/ Expire(e)
  <2>1. /\ \A d \in Attempts \ {e} : att'[d] = att[d]
        /\ att'[e].pc = att[e].pc /\ att'[e].cost = att[e].cost
        /\ att'[e].bill = att[e].bill /\ att'[e].result = att[e].result
    BY <1>1, <1>3 DEF Abort, Expire, AttemptStates
  <2>2. Books(e)'
    BY <1>1, <1>3, <2>1 DEF Abort, Expire, KeepFabric, KeepRun, fabric, completedExecutionRun, Books, Known
  <2>. QED  BY <1>3, <2>1, <2>2, QuietStep DEF Abort, Expire
<1>. QED  BY <1>2, <1>3 DEF Environment

LEMMA StartInv ==
  ASSUME Inv, TypeInv', NEW e \in Attempts, Start(e), ~Overlap
  PROVE  Inv'
<1>1. /\ att \in [Attempts -> AttemptStates] /\ att[e] \in AttemptStates /\ Books(e)
      /\ att[e].cost \in {Unknown} \cup Nat /\ att[e].bill \in Nat /\ spent \in Nat /\ MaxCost \in Nat
  BY Constants DEF Inv, TypeInv, TypeOK, AttemptStates
<1>2. ASSUME NEW kind \in {"route", "recovery"}, Claim(e, kind) PROVE Inv'
  <2>1. /\ \A d \in Attempts \ {e} : att'[d] = att[d]
        /\ att'[e].pc = "queue"
    BY <1>1, <1>2 DEF Claim, AttemptStates
  <2>2. \A d \in Attempts : ~Alive(d)
    BY <1>2 DEF Claim
  <2>3. Solo'
    BY <2>1, <2>2 DEF Solo, Alive, Attempts
  <2>4. \A d \in Attempts : Books(d)'
    BY <2>1, <2>2 DEF Books, Known, Alive
  <2>5. row'.status = "running"
    BY <1>2 DEF Claim
  <2>6. Ledger'
    BY <1>2, <2>5 DEF Claim, KeepFabric, fabric, Inv, Ledger, CostIsAccounted, OneCallOver
  <2>. QED  BY <2>3, <2>4, <2>6 DEF Inv, Attempts
<1>3. CASE Queue(e)
  <2>1. /\ \A d \in Attempts \ {e} : att'[d] = att[d]
        /\ att'[e].pc = "enter"
    BY <1>1, <1>3 DEF Queue, Goto, AttemptStates
  <2>2. Books(e)'
    BY <2>1 DEF Books, Known
  <2>3. Alive(e) /\ row.status # "complete"
    BY <1>3 DEF Queue, At, Alive, Inv, Ledger
  <2>4. \/ cost' = cost
        \/ cost \in {Absent, Unset} /\ cost' \in {0, Unset}
    BY <1>3 DEF Queue, emitStatus, queuedCost
  <2>5. ~unhandled /\ cost \in {Absent, Unset} => spent = 0
    BY DEF Inv, Ledger, Absent, Unset, Unknown
  <2>6. Ledger'
    BY <1>1, <1>3, <2>3, <2>4, <2>5
       DEF Queue, KeepRun, Inv, Ledger, CostIsAccounted, OneCallOver, Absent, Unset, Unknown
  <2>. QED  BY <2>1, <2>2, <2>3, <2>6, SoloStep
<1>4. CASE Refuse(e)
  <2>1. /\ \A d \in Attempts \ {e} : att'[d] = att[d]
        /\ att'[e].pc = "ending" /\ att'[e].result = "blocked"
    BY <1>1, <1>4 DEF Refuse, Return, AttemptStates
  <2>2. Books(e)'
    BY <1>1, <1>4, <2>1 DEF Refuse, Books, Known
  <2>. QED  BY <1>4, <2>1, <2>2, QuietStep DEF Refuse, At, Alive
<1>5. CASE AlreadyComplete(e)
  <2>1. /\ \A d \in Attempts \ {e} : att'[d] = att[d]
        /\ att'[e].pc = "ending"
    BY <1>1, <1>5 DEF AlreadyComplete, Return, AttemptStates
  <2>2. Books(e)'
    BY <1>1, <1>5, <2>1 DEF AlreadyComplete, KeepFabric, fabric, completedExecutionRun, Books, Known
  <2>. QED  BY <1>5, <2>1, <2>2, QuietStep DEF AlreadyComplete, At, Alive
<1>6. CASE Enter(e)
  <2>1. /\ \A d \in Attempts \ {e} : att'[d] = att[d]
        /\ att'[e].cost = persistedCost /\ att'[e].result # "complete"
        /\ att'[e].pc \in {"terminal", "planning", "planned"}
        /\ persistedCost = Unknown => att'[e].pc = "terminal"
    BY <1>1, <1>6 DEF Enter, AttemptStates
  <2>2. persistedCost \in {Unknown} \cup Nat
    BY CostTypes DEF Inv, TypeInv
  <2>3. ~unhandled /\ persistedCost >= 0 => persistedCost = spent
    BY DEF persistedCost, Inv, Ledger, CostIsAccounted, Absent, Unknown
  <2>4. Books(e)'
    BY <1>6, <2>1, <2>2, <2>3 DEF Enter, KeepFabric, KeepRun, fabric, Unknown, Books, Known
  <2>. QED  BY <1>6, <2>1, <2>4, QuietStep DEF Enter, At, Alive
<1>. QED  BY <1>2, <1>3, <1>4, <1>5, <1>6 DEF Start

LEMMA NextInv == ASSUME ~Overlap, Inv, [Next]_vars PROVE Inv'
<1>1. TypeInv'
  BY NextTypeInv DEF Inv
<1>2. CASE Cancel
  <2>1. row'.status = "cancelled"
    BY <1>2 DEF Cancel, Inv, TypeInv, TypeOK, Registry
  <2>2. Ledger'
    BY <1>2, <2>1 DEF Cancel, fabric, Inv, Ledger, CostIsAccounted, OneCallOver
  <2>3. Solo' /\ \A e \in Attempts : Books(e)'
    BY <1>2 DEF Cancel, fabric, Inv, Solo, Alive, Books, completedExecutionRun, Attempts
  <2>. QED  BY <1>1, <2>2, <2>3 DEF Inv, Attempts
<1>3. CASE UNCHANGED vars
  <2>1. Ledger'
    BY <1>3 DEF vars, fabric, Inv, Ledger, CostIsAccounted, OneCallOver, completedExecutionRun,
                Alive, Attempts
  <2>2. Solo' /\ \A e \in Attempts : Books(e)'
    BY <1>3 DEF vars, fabric, Inv, Solo, Alive, Books, completedExecutionRun, Attempts
  <2>. QED  BY <1>1, <2>1, <2>2 DEF Inv, Attempts
<1>4. ASSUME NEW e \in Attempts,
             Start(e) \/ Plan(e) \/ Work(e) \/ Judge(e) \/ EndAttempt(e) \/ Environment(e)
      PROVE  Inv'
  BY <1>1, <1>4, StartInv, PlanInv, WorkInv, JudgeInv, EndInv, EnvironmentInv
<1>. QED  BY <1>2, <1>3, <1>4 DEF Next

LEMMA InvAlways == ASSUME ~Overlap PROVE Spec => []Inv
<1>1. Inv /\ [Next]_vars => Inv'
  BY NextInv
<1>. QED  BY <1>1, InitInv, PTL DEF Spec

\* Whatever crashes, fails or is resumed, an amount in the fabric is what the
\* calls of all attempts cost, unless the route zeroed it (emitStatus, addCost,
\* the null written before each call).
THEOREM CostAccounted == ASSUME ~Overlap PROVE Spec => []CostIsAccounted
<1>1. Inv => CostIsAccounted
  BY DEF Inv, Ledger
<1>. QED  BY <1>1, InvAlways, PTL

\* Over all attempts a run exceeds max_cost_usd by at most one call, and one
\* the registry calls complete does not exceed it.
THEOREM OverrunBounded == ASSUME ~Overlap PROVE Spec => []OverrunIsOneCall
<1>1. ASSUME Inv, ~unhandled, row.status = "complete"
      PROVE  spent <= MaxCost
  BY <1>1 DEF Inv, Ledger, CostIsAccounted, completedExecutionRun
<1>2. Inv => OverrunIsOneCall
  BY <1>1 DEF Inv, Ledger, OneCallOver, OverrunIsOneCall
<1>. QED  BY <1>2, InvAlways, PTL

\* A run the registry calls complete is found by completedExecutionRun().
THEOREM CompletedAnswerable == ASSUME ~Overlap PROVE Spec => []CompletedIsAnswerable
<1>1. Inv => CompletedIsAnswerable
  BY DEF Inv, Ledger, CompletedIsAnswerable
<1>. QED  BY <1>1, InvAlways, PTL

-----------------------------------------------------------------------------
(***************************************************************************)
(* What was verified.  This part holds even when attempts overlap: a       *)
(* completed assignment stays completed, so what one attempt has seen done *)
(* no other takes back.                                                    *)
(***************************************************************************)
Holding == {"storing", "accepting", "planned", "loop", "pending", "await", "verify",
            "completing", "settling", "verdict", "assuring"}

Looping == {"planned", "loop", "pending", "await", "verify", "completing", "settling"}

\* The plan is exhausted, and codex or Victoria is asked.
Judging(a) ==
  \/ a.pc \in {"pending", "await", "verdict"} /\ a.stage # "openhands"
  \/ a.pc = "assuring"

\* One assignment of the plan is being executed.
Executing(a) ==
  \/ a.pc \in {"pending", "await"} /\ a.stage = "openhands"
  \/ a.pc \in {"verify", "completing", "settling"}

\* What attempt a has behind it, t being the state of the assignments.
Progress(a, t) ==
  /\ a.pc \in {"none", "queue", "enter", "planning"} => a.at = 1 /\ a.plan = <<>>
  /\ a.pc \in {"accepting", "planned"} => a.at = 1
  /\ a.pc \in Holding => a.plan # <<>>
  /\ a.pc \in Looping => \A i \in 1 .. Len(a.plan) : i < a.at => t[a.plan[i]] = "complete"
  /\ Executing(a) => a.at <= Len(a.plan)
  /\ a.pc = "settling" => t[a.plan[a.at]] = "complete"
  /\ a.pc = "verdict" => a.stage # "openhands"
  /\ Judging(a) => \A i \in 1 .. Len(a.plan) : t[a.plan[i]] = "complete"

\* A plan, all assignments of which were verified.
DonePlan(p, t) == p # <<>> /\ \A i \in 1 .. Len(p) : t[p[i]] = "complete"

ProgressInv ==
  /\ \A e \in Attempts : Progress(att[e], task)
  /\ \A e \in Attempts : e > row.attempts => att[e].pc = "none"
  /\ assured => \E e \in Attempts : DonePlan(att[e].plan, task)

\* Completed assignments stay completed.
TasksKept == \A x \in Assignments : task[x] = "complete" => task'[x] = "complete"

LEMMA DoneStays ==
  ASSUME TasksKept, NEW p \in Seq(Assignments), DonePlan(p, task)
  PROVE  DonePlan(p, task')
BY DEF TasksKept, DonePlan

LEMMA ProgressStays ==
  ASSUME TasksKept, NEW a \in AttemptStates, Progress(a, task)
  PROVE  Progress(a, task')
<1>1. a.plan \in Seq(Assignments) /\ a.at \in Nat \ {0}
  BY DEF AttemptStates
<1>2. \A i \in 1 .. Len(a.plan) : a.plan[i] \in Assignments
  BY <1>1
<1>3. a.pc = "settling" => a.at \in 1 .. Len(a.plan)
  BY <1>1 DEF Progress, Executing
<1>4. \A i \in 1 .. Len(a.plan) : task[a.plan[i]] = "complete" => task'[a.plan[i]] = "complete"
  BY <1>2 DEF TasksKept
<1>. QED  BY <1>3, <1>4, Zenon DEF Progress

\* The shape of every step of an attempt.
LEMMA ProgressStep ==
  ASSUME TypeInv, ProgressInv, NEW e \in Attempts, TasksKept,
         \A d \in Attempts \ {e} : att'[d] = att[d],
         att[e].plan # <<>> => att'[e].plan = att[e].plan,
         Progress(att'[e], task'),
         assured' => assured \/ DonePlan(att[e].plan, task'),
         \/ row'.attempts = row.attempts /\ att[e].pc # "none"
         \/ row'.attempts = e /\ e = row.attempts + 1
  PROVE  ProgressInv'
<1>1. att \in [Attempts -> AttemptStates] /\ row.attempts \in Nat /\ e \in Nat
  BY DEF TypeInv, TypeOK, Registry, Attempts
<1>2. \A d \in Attempts : d \in Nat /\ att[d] \in AttemptStates /\ att[d].plan \in Seq(Assignments)
  BY <1>1 DEF Attempts, AttemptStates
<1>3. ASSUME NEW d \in Attempts PROVE Progress(att'[d], task')
  BY <1>2, ProgressStays DEF ProgressInv
<1>4. ASSUME NEW d \in Attempts, d > row'.attempts PROVE att'[d].pc = "none"
  <2>1. d > row.attempts
    BY <1>1, <1>2, <1>4
  <2>2. att[d].pc = "none" /\ d # e
    BY <1>1, <1>4, <2>1 DEF ProgressInv
  <2>. QED  BY <2>2
<1>5. ASSUME assured' PROVE \E d \in Attempts : DonePlan(att'[d].plan, task')
  <2>1. CASE assured
    <3>1. PICK d \in Attempts : DonePlan(att[d].plan, task)
      BY <2>1 DEF ProgressInv
    <3>2. DonePlan(att[d].plan, task') /\ att[d].plan # <<>>
      BY <1>2, <3>1, DoneStays DEF DonePlan
    <3>3. att'[d].plan = att[d].plan
      BY <3>2
    <3>. QED  BY <3>2, <3>3
  <2>2. CASE DonePlan(att[e].plan, task')
    <3>1. att'[e].plan = att[e].plan
      BY <2>2 DEF DonePlan
    <3>. QED  BY <2>2, <3>1
  <2>. QED  BY <1>5, <2>1, <2>2
<1>6. \A d \in Attempts : Progress(att'[d], task')
  BY <1>3
<1>7. \A d \in Attempts : d > row'.attempts => att'[d].pc = "none"
  BY <1>4
<1>. QED  BY <1>5, <1>6, <1>7, Zenon DEF ProgressInv, Attempts

\* An attempt that keeps its plan and has nothing more to show.
LEMMA EndingStep ==
  ASSUME TypeInv, ProgressInv, NEW e \in Attempts, UNCHANGED task,
         \A d \in Attempts \ {e} : att'[d] = att[d],
         att'[e].plan = att[e].plan,
         att'[e].pc \in {"terminal", "unhandled", "ending", "gone"},
         assured' => assured \/ DonePlan(att[e].plan, task'),
         row'.attempts = row.attempts, att[e].pc # "none"
  PROVE  ProgressInv'
<1>1. Progress(att'[e], task')
  BY DEF Progress, Holding, Looping, Judging, Executing
<1>2. TasksKept
  BY DEF TasksKept
<1>. QED  BY <1>1, <1>2, ProgressStep

LEMMA InitProgress == Init => ProgressInv
<1>. SUFFICES ASSUME Init PROVE ProgressInv
  OBVIOUS
<1>1. NoAttempt.pc = "none" /\ NoAttempt.at = 1 /\ NoAttempt.plan = <<>>
  BY DEF NoAttempt
<1>2. Progress(NoAttempt, task)
  BY <1>1 DEF Progress, Holding, Looping, Judging, Executing
<1>. QED  BY <1>1, <1>2 DEF Init, ProgressInv

LEMMA StartProgress ==
  ASSUME TypeInv, ProgressInv, NEW e \in Attempts, Start(e)
  PROVE  ProgressInv'
<1>. USE DEF KeepFabric, KeepRun, fabric, At
<1>1. /\ att \in [Attempts -> AttemptStates] /\ att[e] \in AttemptStates
      /\ Progress(att[e], task) /\ row \in Registry /\ row.attempts \in Nat /\ e \in Nat
  BY DEF TypeInv, TypeOK, Registry, Attempts, ProgressInv
<1>2. ASSUME NEW kind \in {"route", "recovery"}, Claim(e, kind) PROVE ProgressInv'
  <2>1. /\ \A d \in Attempts \ {e} : att'[d] = att[d]
        /\ att'[e].pc = "queue" /\ att'[e].at = att[e].at /\ att'[e].plan = att[e].plan
    BY <1>1, <1>2 DEF Claim, AttemptStates
  <2>2. /\ row'.attempts = e /\ e = row.attempts + 1 /\ task' = task /\ assured' = assured
    BY <1>2 DEF Claim
  <2>3. att[e].at = 1 /\ att[e].plan = <<>>
    <3>1. att[e].pc = "none"
      BY <1>1, <2>2 DEF ProgressInv
    <3>. QED  BY <1>1, <3>1 DEF Progress
  <2>4. Progress(att'[e], task')
    BY <2>1, <2>3 DEF Progress, Holding, Looping, Judging, Executing
  <2>5. TasksKept
    BY <2>2 DEF TasksKept
  <2>. QED  BY <2>1, <2>2, <2>4, <2>5, ProgressStep
<1>3. CASE Queue(e)
  <2>1. /\ \A d \in Attempts \ {e} : att'[d] = att[d]
        /\ att'[e].pc = "enter" /\ att'[e].at = att[e].at /\ att'[e].plan = att[e].plan
        /\ att[e].pc = "queue" /\ UNCHANGED <<task, assured, row>>
    BY <1>1, <1>3 DEF Queue, Goto, AttemptStates
  <2>2. Progress(att'[e], task')
    BY <1>1, <2>1 DEF Progress, Holding, Looping, Judging, Executing
  <2>3. TasksKept
    BY <2>1 DEF TasksKept
  <2>. QED  BY <2>1, <2>2, <2>3, ProgressStep
<1>4. CASE Refuse(e) \/ AlreadyComplete(e)
  <2>1. /\ \A d \in Attempts \ {e} : att'[d] = att[d]
        /\ att'[e].pc = "ending" /\ att'[e].plan = att[e].plan
        /\ att[e].pc = "enter" /\ UNCHANGED <<task, assured, row>>
    BY <1>1, <1>4 DEF Refuse, AlreadyComplete, Return, AttemptStates
  <2>. QED  BY <2>1, EndingStep
<1>5. CASE Enter(e)
  <2>1. /\ \A d \in Attempts \ {e} : att'[d] = att[d]
        /\ att[e].pc = "enter" /\ att'[e].at = att[e].at
        /\ UNCHANGED <<task, assured, row>>
        /\ \/ att'[e].pc = "terminal"
           \/ att'[e].pc = "planning" /\ att'[e].plan = <<>>
           \/ att'[e].pc = "planned" /\ att'[e].plan # <<>>
    BY <1>1, <1>5 DEF Enter, AttemptStates
  <2>2. att[e].at = 1 /\ att[e].plan = <<>>
    BY <1>1, <2>1 DEF Progress
  <2>3. Progress(att'[e], task')
    <3>1. CASE att'[e].pc = "terminal"
      BY <3>1 DEF Progress, Holding, Looping, Judging, Executing
    <3>2. CASE att'[e].pc = "planning" /\ att'[e].plan = <<>>
      BY <2>1, <2>2, <3>2 DEF Progress, Holding, Looping, Judging, Executing
    <3>3. CASE att'[e].pc = "planned" /\ att'[e].plan # <<>>
      <4>1. \A i \in 1 .. Len(att'[e].plan) : ~(i < att'[e].at)
        BY <2>1, <2>2
      <4>. QED  BY <2>1, <2>2, <3>3, <4>1 DEF Progress, Holding, Looping, Judging, Executing
    <3>. QED  BY <2>1, <3>1, <3>2, <3>3
  <2>4. TasksKept
    BY <2>1 DEF TasksKept
  <2>. QED  BY <2>1, <2>2, <2>3, <2>4, ProgressStep
<1>. QED  BY <1>2, <1>3, <1>4, <1>5 DEF Start

LEMMA PlanProgress ==
  ASSUME TypeInv, ProgressInv, NEW e \in Attempts, Plan(e)
  PROVE  ProgressInv'
<1>. USE DEF KeepFabric, KeepRun, fabric, At
<1>1. /\ att \in [Attempts -> AttemptStates] /\ att[e] \in AttemptStates
      /\ Progress(att[e], task) /\ att[e].plan \in Seq(Assignments)
  BY DEF TypeInv, TypeOK, ProgressInv, AttemptStates
<1>2. CASE Planned(e)
  <2>1. PICK p \in Plans : att' = [att EXCEPT ![e].pc = "storing", ![e].plan = p, ![e].at = 1]
    BY <1>2 DEF Planned
  <2>2. /\ \A d \in Attempts \ {e} : att'[d] = att[d]
        /\ att'[e].pc = "storing" /\ att'[e].plan = p
        /\ att[e].pc = "planning" /\ UNCHANGED <<task, assured, row>>
    BY <1>1, <1>2, <2>1 DEF Planned, AttemptStates
  <2>3. p # <<>> /\ att[e].plan = <<>>
    BY <1>1, <2>2, Constants DEF Progress
  <2>4. Progress(att'[e], task')
    BY <2>2, <2>3 DEF Progress, Holding, Looping, Judging, Executing
  <2>5. TasksKept
    BY <2>2 DEF TasksKept
  <2>. QED  BY <2>2, <2>3, <2>4, <2>5, ProgressStep
<1>3. CASE PlanningFails(e)
  <2>1. /\ \A d \in Attempts \ {e} : att'[d] = att[d]
        /\ att'[e].pc = "terminal" /\ att'[e].plan = att[e].plan
        /\ att[e].pc = "planning" /\ UNCHANGED <<task, assured, row>>
    BY <1>1, <1>3 DEF PlanningFails, Stop, AttemptStates
  <2>. QED  BY <2>1, EndingStep
<1>4. CASE StoreItem(e)
  <2>1. /\ \A d \in Attempts \ {e} : att'[d] = att[d]
        /\ att'[e].pc = "storing" \/ (att'[e].pc = "accepting" /\ att'[e].at = 1)
        /\ att'[e].plan = att[e].plan
        /\ att[e].pc = "storing" /\ UNCHANGED <<task, assured, row>>
    BY <1>1, <1>4 DEF StoreItem, AttemptStates
  <2>2. Progress(att'[e], task')
    BY <1>1, <2>1 DEF Progress, Holding, Looping, Judging, Executing
  <2>3. TasksKept
    BY <2>1 DEF TasksKept
  <2>. QED  BY <2>1, <2>2, <2>3, ProgressStep
<1>5. CASE StorePlan(e)
  <2>1. /\ \A d \in Attempts \ {e} : att'[d] = att[d]
        /\ att'[e].pc = "planned" /\ att'[e].at = att[e].at /\ att'[e].plan = att[e].plan
        /\ att[e].pc = "accepting" /\ UNCHANGED <<task, assured, row>>
    BY <1>1, <1>5 DEF StorePlan, Goto, AttemptStates
  <2>2. att'[e].at = 1 /\ att'[e].plan # <<>>
    BY <1>1, <2>1 DEF Progress, Holding
  <2>3. \A i \in 1 .. Len(att'[e].plan) : ~(i < att'[e].at)
    BY <2>2
  <2>4. Progress(att'[e], task')
    BY <2>1, <2>2, <2>3 DEF Progress, Holding, Looping, Judging, Executing
  <2>5. TasksKept
    BY <2>1 DEF TasksKept
  <2>. QED  BY <2>1, <2>4, <2>5, ProgressStep
<1>6. CASE BeginWork(e)
  <2>1. /\ \A d \in Attempts \ {e} : att'[d] = att[d]
        /\ att'[e].pc = "loop" /\ att'[e].at = att[e].at /\ att'[e].plan = att[e].plan
        /\ att[e].pc = "planned" /\ UNCHANGED <<task, assured, row>>
    BY <1>1, <1>6 DEF BeginWork, Goto, AttemptStates
  <2>2. Progress(att'[e], task')
    BY <1>1, <2>1 DEF Progress, Holding, Looping, Judging, Executing
  <2>3. TasksKept
    BY <2>1 DEF TasksKept
  <2>. QED  BY <2>1, <2>2, <2>3, ProgressStep
<1>. QED  BY <1>2, <1>3, <1>4, <1>5, <1>6 DEF Plan

LEMMA WorkProgress ==
  ASSUME TypeInv, ProgressInv, NEW e \in Attempts, Work(e)
  PROVE  ProgressInv'
<1>. USE DEF KeepFabric, KeepRun, fabric, At
<1>1. /\ att \in [Attempts -> AttemptStates] /\ att[e] \in AttemptStates
      /\ Progress(att[e], task) /\ att[e].plan \in Seq(Assignments)
      /\ att[e].at \in Nat \ {0} /\ Len(att[e].plan) \in Nat
      /\ task \in [Assignments -> {"none", "executing", "complete"}]
  BY DEF TypeInv, TypeOK, ProgressInv, AttemptStates
<1>2. CASE SkipCompleted(e)
  <2>1. /\ \A d \in Attempts \ {e} : att'[d] = att[d]
        /\ att'[e].pc = "loop" /\ att'[e].at = att[e].at + 1 /\ att'[e].plan = att[e].plan
        /\ att[e].pc = "loop" /\ UNCHANGED <<task, assured, row>>
        /\ task[att[e].plan[att[e].at]] = "complete"
    BY <1>1, <1>2 DEF SkipCompleted, Completed, Assignment, AttemptStates
  <2>2. \A i \in 1 .. Len(att[e].plan) : i < att[e].at + 1 => task[att[e].plan[i]] = "complete"
    <3>1. \A i \in 1 .. Len(att[e].plan) : i < att[e].at => task[att[e].plan[i]] = "complete"
      BY <1>1, <2>1 DEF Progress, Looping
    <3>2. \A i \in 1 .. Len(att[e].plan) : i < att[e].at + 1 => i < att[e].at \/ i = att[e].at
      BY <1>1
    <3>. QED  BY <2>1, <3>1, <3>2
  <2>3. Progress(att'[e], task')
    BY <1>1, <2>1, <2>2 DEF Progress, Holding, Looping, Judging, Executing
  <2>4. TasksKept
    BY <2>1 DEF TasksKept
  <2>. QED  BY <2>1, <2>3, <2>4, ProgressStep
<1>3. CASE HaltWork(e) \/ VerificationFails(e)
  <2>1. /\ \A d \in Attempts \ {e} : att'[d] = att[d]
        /\ att'[e].pc = "terminal" /\ att'[e].plan = att[e].plan
        /\ att[e].pc \in {"loop", "verify"} /\ UNCHANGED <<task, assured, row>>
    BY <1>1, <1>3 DEF HaltWork, VerificationFails, Stop, AttemptStates
  <2>. QED  BY <2>1, EndingStep
<1>4. CASE StartTask(e)
  <2>1. /\ \A d \in Attempts \ {e} : att'[d] = att[d]
        /\ att'[e].pc = "pending" /\ att'[e].stage = "openhands"
        /\ att'[e].at = att[e].at /\ att'[e].plan = att[e].plan
        /\ att[e].pc = "loop" /\ UNCHANGED <<assured, row>>
    BY <1>1, <1>4 DEF StartTask, AttemptStates
  <2>2. /\ att[e].at <= Len(att[e].plan)
        /\ task[att[e].plan[att[e].at]] # "complete"
        /\ task' = [task EXCEPT ![att[e].plan[att[e].at]] = "executing"]
    BY <1>1, <1>4 DEF StartTask, Exhausted, Completed, Assignment
  <2>3. TasksKept
    BY <1>1, <2>2 DEF TasksKept
  <2>4. Progress(att[e], task')
    BY <1>1, <2>3, ProgressStays
  <2>5. Progress(att'[e], task')
    BY <2>1, <2>2, <2>4 DEF Progress, Holding, Looping, Judging, Executing
  <2>. QED  BY <2>1, <2>3, <2>5, ProgressStep
<1>5. CASE Dispatch(e)
  <2>1. /\ \A d \in Attempts \ {e} : att'[d] = att[d]
        /\ att'[e].pc = "await" /\ att'[e].stage = att[e].stage
        /\ att'[e].at = att[e].at /\ att'[e].plan = att[e].plan
        /\ att[e].pc = "pending" /\ UNCHANGED <<task, assured, row>>
    BY <1>1, <1>5 DEF Dispatch, AttemptStates
  <2>2. Progress(att'[e], task')
    BY <1>1, <2>1 DEF Progress, Holding, Looping, Judging, Executing
  <2>3. TasksKept
    BY <2>1 DEF TasksKept
  <2>. QED  BY <2>1, <2>2, <2>3, ProgressStep
<1>6. CASE AdapterFails(e) \/ AccountingUnknown(e)
  <2>1. /\ \A d \in Attempts \ {e} : att'[d] = att[d]
        /\ att'[e].pc = "terminal" /\ att'[e].plan = att[e].plan
        /\ att[e].pc = "await" /\ UNCHANGED <<task, assured, row>>
    BY <1>1, <1>6 DEF AdapterFails, AccountingUnknown, AttemptStates
  <2>. QED  BY <2>1, EndingStep
<1>7. CASE Executed(e)
  <2>1. /\ \A d \in Attempts \ {e} : att'[d] = att[d]
        /\ att'[e].pc \in {"verify", "terminal"}
        /\ att'[e].at = att[e].at /\ att'[e].plan = att[e].plan
        /\ att[e].pc = "await" /\ att[e].stage = "openhands" /\ UNCHANGED <<task, assured, row>>
    BY <1>1, <1>7 DEF Executed, AttemptStates
  <2>2. CASE att'[e].pc = "terminal"
    BY <2>1, <2>2, EndingStep
  <2>3. CASE att'[e].pc = "verify"
    <3>1. Progress(att'[e], task')
      BY <1>1, <2>1, <2>3 DEF Progress, Holding, Looping, Judging, Executing
    <3>2. TasksKept
      BY <2>1 DEF TasksKept
    <3>. QED  BY <2>1, <3>1, <3>2, ProgressStep
  <2>. QED  BY <2>1, <2>2, <2>3
<1>8. CASE Verified(e)
  <2>1. /\ \A d \in Attempts \ {e} : att'[d] = att[d]
        /\ att'[e].pc = "completing"
        /\ att'[e].at = att[e].at /\ att'[e].plan = att[e].plan
        /\ att[e].pc = "verify" /\ UNCHANGED <<task, assured, row>>
    BY <1>1, <1>8 DEF Verified, Goto, AttemptStates
  <2>2. Progress(att'[e], task')
    BY <1>1, <2>1 DEF Progress, Holding, Looping, Judging, Executing
  <2>3. TasksKept
    BY <2>1 DEF TasksKept
  <2>. QED  BY <2>1, <2>2, <2>3, ProgressStep
<1>9. CASE CompleteTask(e)
  <2>1. /\ \A d \in Attempts \ {e} : att'[d] = att[d]
        /\ att'[e].pc = "settling"
        /\ att'[e].at = att[e].at /\ att'[e].plan = att[e].plan
        /\ att[e].pc = "completing" /\ UNCHANGED <<assured, row>>
        /\ task' = [task EXCEPT ![att[e].plan[att[e].at]] = "complete"]
    BY <1>1, <1>9 DEF CompleteTask, Goto, Assignment, AttemptStates
  <2>2. att[e].at \in 1 .. Len(att[e].plan)
    BY <1>1, <2>1 DEF Progress, Executing
  <2>3. att[e].plan[att[e].at] \in Assignments
    BY <1>1, <2>2
  <2>4. TasksKept /\ task'[att[e].plan[att[e].at]] = "complete"
    BY <1>1, <2>1, <2>3 DEF TasksKept
  <2>5. Progress(att[e], task')
    BY <1>1, <2>4, ProgressStays
  <2>6. Progress(att'[e], task')
    BY <2>1, <2>2, <2>4, <2>5 DEF Progress, Holding, Looping, Judging, Executing
  <2>. QED  BY <2>1, <2>4, <2>6, ProgressStep
<1>10. CASE Settle(e)
  <2>1. /\ \A d \in Attempts \ {e} : att'[d] = att[d]
        /\ att'[e].pc = "loop" /\ att'[e].at = att[e].at + 1 /\ att'[e].plan = att[e].plan
        /\ att[e].pc = "settling" /\ UNCHANGED <<task, assured, row>>
    BY <1>1, <1>10 DEF Settle, AttemptStates
  <2>2. \A i \in 1 .. Len(att[e].plan) : i < att[e].at + 1 => task[att[e].plan[i]] = "complete"
    <3>1. /\ \A i \in 1 .. Len(att[e].plan) : i < att[e].at => task[att[e].plan[i]] = "complete"
          /\ task[att[e].plan[att[e].at]] = "complete"
      BY <1>1, <2>1 DEF Progress, Looping
    <3>2. \A i \in 1 .. Len(att[e].plan) : i < att[e].at + 1 => i < att[e].at \/ i = att[e].at
      BY <1>1
    <3>. QED  BY <3>1, <3>2
  <2>3. Progress(att'[e], task')
    BY <1>1, <2>1, <2>2 DEF Progress, Holding, Looping, Judging, Executing
  <2>4. TasksKept
    BY <2>1 DEF TasksKept
  <2>. QED  BY <2>1, <2>3, <2>4, ProgressStep
<1>. QED  BY <1>2, <1>3, <1>4, <1>5, <1>6, <1>7, <1>8, <1>9, <1>10 DEF Work

LEMMA JudgeProgress ==
  ASSUME TypeInv, ProgressInv, NEW e \in Attempts, Judge(e)
  PROVE  ProgressInv'
<1>. USE DEF KeepFabric, KeepRun, fabric, At
<1>1. /\ att \in [Attempts -> AttemptStates] /\ att[e] \in AttemptStates
      /\ Progress(att[e], task) /\ att[e].at \in Nat \ {0} /\ Len(att[e].plan) \in Nat
  BY DEF TypeInv, TypeOK, ProgressInv, AttemptStates
<1>2. CASE EnterVerification(e)
  <2>1. /\ \A d \in Attempts \ {e} : att'[d] = att[d]
        /\ att'[e].at = att[e].at /\ att'[e].plan = att[e].plan
        /\ att[e].pc = "loop" /\ UNCHANGED <<task, assured, row>>
        /\ att[e].at > Len(att[e].plan)
        /\ att'[e].pc = "terminal" \/ (att'[e].pc = "pending" /\ att'[e].stage = "codex")
    BY <1>1, <1>2 DEF EnterVerification, Stop, Exhausted, AttemptStates
  <2>2. CASE att'[e].pc = "terminal"
    BY <2>1, <2>2, EndingStep
  <2>3. CASE att'[e].pc = "pending" /\ att'[e].stage = "codex"
    <3>1. \A i \in 1 .. Len(att[e].plan) : i < att[e].at
      BY <1>1, <2>1
    <3>2. \A i \in 1 .. Len(att[e].plan) : task[att[e].plan[i]] = "complete"
      BY <1>1, <2>1, <3>1 DEF Progress, Looping
    <3>3. Progress(att'[e], task')
      BY <1>1, <2>1, <2>3, <3>2 DEF Progress, Holding, Looping, Judging, Executing
    <3>4. TasksKept
      BY <2>1 DEF TasksKept
    <3>. QED  BY <2>1, <3>3, <3>4, ProgressStep
  <2>. QED  BY <2>1, <2>2, <2>3
<1>3. CASE Verdict(e)
  <2>1. /\ \A d \in Attempts \ {e} : att'[d] = att[d]
        /\ att'[e].pc = "verdict" /\ att'[e].stage = att[e].stage /\ att'[e].plan = att[e].plan
        /\ att[e].pc = "await" /\ att[e].stage # "openhands" /\ UNCHANGED <<task, assured, row>>
    BY <1>1, <1>3 DEF Verdict, AttemptStates
  <2>2. Progress(att'[e], task')
    BY <1>1, <2>1 DEF Progress, Holding, Looping, Judging, Executing
  <2>3. TasksKept
    BY <2>1 DEF TasksKept
  <2>. QED  BY <2>1, <2>2, <2>3, ProgressStep
<1>4. CASE RecordVerdict(e)
  <2>1. /\ \A d \in Attempts \ {e} : att'[d] = att[d]
        /\ att'[e].pc \in {"assuring", "terminal"} /\ att'[e].plan = att[e].plan
        /\ att[e].pc = "verdict" /\ UNCHANGED <<task, row>>
    BY <1>1, <1>4 DEF RecordVerdict, AttemptStates
  <2>2. DonePlan(att[e].plan, task')
    BY <1>1, <2>1 DEF Progress, Holding, Judging, DonePlan
  <2>3. CASE att'[e].pc = "terminal"
    BY <2>1, <2>2, <2>3, EndingStep
  <2>4. CASE att'[e].pc = "assuring"
    <3>1. Progress(att'[e], task')
      BY <2>1, <2>2, <2>4 DEF Progress, DonePlan, Holding, Looping, Judging, Executing
    <3>2. TasksKept
      BY <2>1 DEF TasksKept
    <3>. QED  BY <2>1, <2>2, <3>1, <3>2, ProgressStep
  <2>. QED  BY <2>1, <2>3, <2>4
<1>5. CASE EnterAssurance(e)
  <2>1. /\ \A d \in Attempts \ {e} : att'[d] = att[d]
        /\ att'[e].pc \in {"terminal", "pending"} /\ att'[e].stage = "assurance"
        /\ att'[e].plan = att[e].plan
        /\ att[e].pc = "assuring" /\ UNCHANGED <<task, assured, row>>
    BY <1>1, <1>5 DEF EnterAssurance, AttemptStates
  <2>2. Progress(att'[e], task')
    BY <1>1, <2>1 DEF Progress, Holding, Looping, Judging, Executing
  <2>3. TasksKept
    BY <2>1 DEF TasksKept
  <2>. QED  BY <2>1, <2>2, <2>3, ProgressStep
<1>. QED  BY <1>2, <1>3, <1>4, <1>5 DEF Judge

LEMMA EndProgress ==
  ASSUME TypeInv, ProgressInv, NEW e \in Attempts, EndAttempt(e) \/ Crash(e)
  PROVE  ProgressInv'
<1>. USE DEF KeepFabric, KeepRun, fabric, At
<1>1. /\ att \in [Attempts -> AttemptStates] /\ att[e] \in AttemptStates /\ row \in Registry
  BY DEF TypeInv, TypeOK
<1>2. CASE Terminal(e) \/ Throw(e)
  <2>1. /\ \A d \in Attempts \ {e} : att'[d] = att[d]
        /\ att'[e].pc \in {"ending", "unhandled"} /\ att'[e].plan = att[e].plan
        /\ att[e].pc # "none" /\ UNCHANGED <<task, assured, row>>
    BY <1>1, <1>2 DEF Terminal, Throw, Goto, Inside, Awaiting, AttemptStates
  <2>. QED  BY <2>1, EndingStep
<1>3. CASE UnhandledFailure(e) \/ RecoveryFailure(e) \/ HandlerThrows(e)
  <2>1. /\ \A d \in Attempts \ {e} : att'[d] = att[d]
        /\ att'[e].pc = "ending" /\ att'[e].plan = att[e].plan
        /\ att[e].pc # "none" /\ UNCHANGED <<task, assured, row>>
    BY <1>1, <1>3 DEF UnhandledFailure, RecoveryFailure, HandlerThrows, Return, AttemptStates
  <2>. QED  BY <2>1, EndingStep
<1>4. CASE Finish(e) \/ Crash(e)
  <2>1. /\ \A d \in Attempts \ {e} : att'[d] = att[d]
        /\ att'[e].pc = "gone" /\ att'[e].plan = att[e].plan
    BY <1>1, <1>4 DEF Finish, Crash, Leave, NoAttempt
  <2>2. att[e].pc # "none" /\ UNCHANGED <<task, assured>> /\ row'.attempts = row.attempts
    BY <1>1, <1>4 DEF Finish, Crash, Alive, Registry
  <2>. QED  BY <2>1, <2>2, EndingStep
<1>. QED  BY <1>2, <1>3, <1>4 DEF EndAttempt

LEMMA SignalProgress ==
  ASSUME TypeInv, ProgressInv, NEW e \in Attempts, Abort(e) \/ Expire(e)
  PROVE  ProgressInv'
<1>. USE DEF KeepFabric, KeepRun, fabric
<1>1. /\ att \in [Attempts -> AttemptStates] /\ att[e] \in AttemptStates
      /\ Progress(att[e], task)
  BY DEF TypeInv, TypeOK, ProgressInv
<1>2. /\ \A d \in Attempts \ {e} : att'[d] = att[d]
      /\ att'[e].pc = att[e].pc /\ att'[e].stage = att[e].stage
      /\ att'[e].at = att[e].at /\ att'[e].plan = att[e].plan
      /\ att[e].pc # "none" /\ UNCHANGED <<task, assured, row>>
  BY <1>1 DEF Abort, Expire, Alive, AttemptStates
<1>3. Progress(att'[e], task')
  BY <1>1, <1>2 DEF Progress, Judging, Executing
<1>4. TasksKept
  BY <1>2 DEF TasksKept
<1>. QED  BY <1>2, <1>3, <1>4, ProgressStep

LEMMA NextProgress == ASSUME TypeInv, ProgressInv, [Next]_vars PROVE ProgressInv'
<1>1. CASE Cancel
  <2>1. UNCHANGED <<task, assured, att>> /\ row'.attempts = row.attempts
    BY <1>1 DEF Cancel, fabric, TypeInv, TypeOK, Registry
  <2>. QED  BY <2>1 DEF ProgressInv
<1>2. ASSUME NEW e \in Attempts,
             Start(e) \/ Plan(e) \/ Work(e) \/ Judge(e) \/ EndAttempt(e) \/ Environment(e)
      PROVE  ProgressInv'
  BY <1>2, StartProgress, PlanProgress, WorkProgress, JudgeProgress, EndProgress, SignalProgress
     DEF Environment
<1>3. CASE UNCHANGED vars
  BY <1>3 DEF vars, fabric, ProgressInv
<1>. QED  BY <1>1, <1>2, <1>3 DEF Next

\* Whatever overlaps: Victoria passed only a run with a plan, all assignments
\* of which were verified and recorded as complete.
LEMMA ProgressAlways == Spec => []ProgressInv
<1>1. Spec => []TypeInv
  BY InitTypeInv, NextTypeInv, PTL DEF Spec
<1>. QED  BY <1>1, InitProgress, NextProgress, PTL DEF Spec

\* Who ends with "complete" has Victoria's pass in the fabric; on the way to
\* Victoria nobody has that result yet.
Passed(a, v) ==
  /\ a.pc \in {"terminal", "ending"} /\ a.result = "complete" => v
  /\ a.pc = "assuring" => a.result # "complete"

PassInv ==
  /\ \A e \in Attempts : Passed(att[e], assured)
  /\ row.status = "complete" => assured

LEMMA InitPass == Init => PassInv
BY DEF Init, PassInv, Passed, NoAttempt

LEMMA PassStep ==
  ASSUME PassInv, NEW e \in Attempts, \A d \in Attempts \ {e} : att'[d] = att[d],
         assured => assured', Passed(att'[e], assured'),
         row'.status = "complete" => row.status = "complete" \/ assured
  PROVE  PassInv'
BY DEF PassInv, Passed, Attempts

\* Steps that neither record a pass nor end with "complete".
LEMMA PlainPass ==
  ASSUME PassInv, NEW e \in Attempts, \A d \in Attempts \ {e} : att'[d] = att[d],
         assured' = assured, row' = row \/ row'.status = "running",
         \/ att'[e].pc \notin {"terminal", "ending", "assuring"}
         \/ att'[e].result # "complete"
         \/ att'[e].pc = att[e].pc /\ att'[e].result = att[e].result
  PROVE  PassInv'
<1>1. Passed(att[e], assured)
  BY DEF PassInv
<1>2. Passed(att'[e], assured')
  BY <1>1 DEF Passed
<1>. QED  BY <1>2, PassStep

LEMMA NextPass == ASSUME TypeInv, PassInv, [Next]_vars PROVE PassInv'
<1>. USE DEF KeepFabric, KeepRun, fabric, At
<1>1. att \in [Attempts -> AttemptStates] /\ row \in Registry
  BY DEF TypeInv, TypeOK
<1>2. CASE Cancel \/ UNCHANGED vars
  <2>1. UNCHANGED <<att, assured>> /\ (row'.status = "cancelled" \/ row' = row)
    BY <1>1, <1>2 DEF Cancel, vars, Registry
  <2>. QED  BY <2>1 DEF PassInv
<1>3. ASSUME NEW e \in Attempts, Start(e) PROVE PassInv'
  <2>1. CASE AlreadyComplete(e)
    <3>1. /\ \A d \in Attempts \ {e} : att'[d] = att[d]
          /\ att'[e].pc = "ending" /\ UNCHANGED <<assured, row>> /\ assured
      BY <1>1, <2>1 DEF AlreadyComplete, completedExecutionRun, Return, AttemptStates
    <3>2. Passed(att'[e], assured')
      BY <3>1 DEF Passed
    <3>. QED  BY <3>1, <3>2, PassStep
  <2>2. CASE ~AlreadyComplete(e)
    <3>1. /\ \A d \in Attempts \ {e} : att'[d] = att[d]
          /\ assured' = assured /\ (row' = row \/ row'.status = "running")
          /\ \/ att'[e].pc \notin {"terminal", "ending", "assuring"}
             \/ att'[e].result # "complete"
      BY <1>1, <1>3, <2>2 DEF Start, Claim, Queue, Refuse, Enter, Goto, Return, AttemptStates
    <3>. QED  BY <3>1, PlainPass
  <2>. QED  BY <2>1, <2>2
<1>4. ASSUME NEW e \in Attempts, Plan(e) PROVE PassInv'
  <2>1. /\ \A d \in Attempts \ {e} : att'[d] = att[d]
        /\ UNCHANGED <<assured, row>>
        /\ \/ att'[e].pc \notin {"terminal", "ending", "assuring"}
           \/ att'[e].result # "complete"
    <3>1. CASE Planned(e)
      <4>1. att'[e].pc = "storing" /\ \A d \in Attempts \ {e} : att'[d] = att[d]
        BY <1>1, <3>1 DEF Planned, AttemptStates
      <4>. QED  BY <3>1, <4>1 DEF Planned
    <3>4. CASE PlanningFails(e)
      BY <1>1, <3>4 DEF PlanningFails, Stop, AttemptStates
    <3>2. CASE StoreItem(e)
      <4>1. att'[e].pc \in {"accepting", "storing"} /\ \A d \in Attempts \ {e} : att'[d] = att[d]
        BY <1>1, <3>2 DEF StoreItem, AttemptStates
      <4>. QED  BY <3>2, <4>1 DEF StoreItem
    <3>3. CASE StorePlan(e) \/ BeginWork(e)
      BY <1>1, <3>3 DEF StorePlan, BeginWork, Goto, AttemptStates
    <3>. QED  BY <1>4, <3>1, <3>2, <3>3, <3>4 DEF Plan
  <2>. QED  BY <2>1, PlainPass
<1>5. ASSUME NEW e \in Attempts, Work(e) PROVE PassInv'
  <2>1. /\ \A d \in Attempts \ {e} : att'[d] = att[d]
        /\ UNCHANGED <<assured, row>>
        /\ \/ att'[e].pc \notin {"terminal", "ending", "assuring"}
           \/ att'[e].result # "complete"
    <3>. USE DEF Goto, Stop, AttemptStates
    <3>1. CASE SkipCompleted(e)
      <4>1. att'[e].pc = "loop" /\ \A d \in Attempts \ {e} : att'[d] = att[d]
        BY <1>1, <3>1 DEF SkipCompleted, AttemptStates
      <4>. QED  BY <3>1, <4>1 DEF SkipCompleted
    <3>4. CASE HaltWork(e)
      BY <1>1, <3>4 DEF HaltWork
    <3>5. CASE StartTask(e) \/ Dispatch(e)
      BY <1>1, <3>5 DEF StartTask, Dispatch
    <3>2. CASE AdapterFails(e) \/ AccountingUnknown(e) \/ Executed(e)
      <4>1. att'[e].result \in {"failed", "blocked"} /\ \A d \in Attempts \ {e} : att'[d] = att[d]
        <5>1. CASE AdapterFails(e)
          BY <1>1, <5>1 DEF AdapterFails
        <5>2. CASE AccountingUnknown(e)
          BY <1>1, <5>2 DEF AccountingUnknown
        <5>3. CASE Executed(e)
          BY <1>1, <5>3 DEF Executed
        <5>. QED  BY <3>2, <5>1, <5>2, <5>3
      <4>. QED  BY <3>2, <4>1 DEF AdapterFails, AccountingUnknown, Executed
    <3>3. CASE Verified(e) \/ VerificationFails(e) \/ CompleteTask(e) \/ Settle(e)
      BY <1>1, <3>3 DEF Verified, VerificationFails, CompleteTask, Settle
    <3>. QED  BY <1>5, <3>1, <3>2, <3>3, <3>4, <3>5 DEF Work
  <2>. QED  BY <2>1, PlainPass
<1>6. ASSUME NEW e \in Attempts, Judge(e) PROVE PassInv'
  <2>1. CASE EnterVerification(e) \/ Verdict(e)
    <3>1. /\ \A d \in Attempts \ {e} : att'[d] = att[d]
          /\ UNCHANGED <<assured, row>>
          /\ \/ att'[e].pc \notin {"terminal", "ending", "assuring"}
             \/ att'[e].result # "complete"
      BY <1>1, <2>1 DEF EnterVerification, Verdict, Stop, AttemptStates
    <3>. QED  BY <3>1, PlainPass
  <2>2. CASE RecordVerdict(e)
    <3>1. /\ \A d \in Attempts \ {e} : att'[d] = att[d]
          /\ row' = row
          /\ assured' = (assured \/ (att[e].stage = "assurance" /\ att[e].pass))
          /\ att'[e].result = "complete" =>
               att[e].pass /\ att[e].stage = "assurance" /\ att'[e].pc = "terminal"
      BY <1>1, <2>2 DEF RecordVerdict, accepted, AttemptStates
    <3>2. Passed(att'[e], assured')
      BY <3>1 DEF Passed
    <3>. QED  BY <3>1, <3>2, PassStep
  <2>3. CASE EnterAssurance(e)
    <3>1. /\ \A d \in Attempts \ {e} : att'[d] = att[d]
          /\ UNCHANGED <<assured, row>>
          /\ att'[e].result = att[e].result /\ att[e].pc = "assuring"
      BY <1>1, <2>3 DEF EnterAssurance, AttemptStates
    <3>2. att[e].result # "complete"
      BY <3>1 DEF PassInv, Passed
    <3>. QED  BY <3>1, <3>2, PlainPass
  <2>. QED  BY <1>6, <2>1, <2>2, <2>3 DEF Judge
<1>7. ASSUME NEW e \in Attempts, EndAttempt(e) PROVE PassInv'
  <2>1. CASE Terminal(e)
    <3>1. /\ \A d \in Attempts \ {e} : att'[d] = att[d]
          /\ UNCHANGED <<assured, row>> /\ att[e].pc = "terminal"
          /\ att'[e].pc = "ending" /\ att'[e].result = att[e].result
      BY <1>1, <2>1 DEF Terminal, Goto, AttemptStates
    <3>2. Passed(att'[e], assured')
      BY <3>1 DEF PassInv, Passed
    <3>. QED  BY <3>1, <3>2, PassStep
  <2>2. CASE Throw(e) \/ UnhandledFailure(e) \/ RecoveryFailure(e) \/ HandlerThrows(e)
    <3>1. /\ \A d \in Attempts \ {e} : att'[d] = att[d]
          /\ UNCHANGED <<assured, row>>
          /\ att'[e].pc = "unhandled" \/ att'[e].result = "failed"
      BY <1>1, <2>2 DEF Throw, UnhandledFailure, RecoveryFailure, HandlerThrows, Goto, Return,
                        AttemptStates
    <3>. QED  BY <3>1, PlainPass
  <2>3. CASE Finish(e)
    <3>1. /\ \A d \in Attempts \ {e} : att'[d] = att[d]
          /\ assured' = assured /\ att'[e].pc = "gone" /\ att[e].pc = "ending"
          /\ row'.status = "complete" => row.status = "complete" \/ att[e].result = "complete"
      BY <1>1, <2>3 DEF Finish, Leave, NoAttempt, Registry
    <3>2. Passed(att'[e], assured') /\ (att[e].result = "complete" => assured)
      BY <3>1 DEF PassInv, Passed
    <3>. QED  BY <3>1, <3>2, PassStep
  <2>. QED  BY <1>7, <2>1, <2>2, <2>3 DEF EndAttempt
<1>8. ASSUME NEW e \in Attempts, Environment(e) PROVE PassInv'
  <2>1. /\ \A d \in Attempts \ {e} : att'[d] = att[d]
        /\ UNCHANGED <<assured, row>>
        /\ \/ att'[e].pc = "gone"
           \/ att'[e].pc = att[e].pc /\ att'[e].result = att[e].result
    <3>1. CASE Crash(e)
      BY <1>1, <3>1 DEF Crash, Leave, NoAttempt
    <3>2. CASE Abort(e)
      BY <1>1, <3>2 DEF Abort, AttemptStates
    <3>3. CASE Expire(e)
      BY <1>1, <3>3 DEF Expire, AttemptStates
    <3>. QED  BY <1>8, <3>1, <3>2, <3>3 DEF Environment
  <2>. QED  BY <2>1, PlainPass
<1>. QED  BY <1>2, <1>3, <1>4, <1>5, <1>6, <1>7, <1>8 DEF Next

\* finish('complete') is reached only with Victoria's pass in the fabric and a plan
\* of which every assignment was verified, whatever attempts overlap.
THEOREM CompletionIsVerified == Spec => []CompleteIsVerified
<1>1. ASSUME TypeInv, ProgressInv, PassInv PROVE CompleteIsVerified
  <2>. SUFFICES ASSUME row.status = "complete"
       PROVE  assured /\ \E e \in Attempts : att[e].plan # <<>> /\ Done(att[e].plan)
    BY DEF CompleteIsVerified
  <2>1. assured
    BY <1>1 DEF PassInv
  <2>2. PICK e \in Attempts : DonePlan(att[e].plan, task)
    BY <1>1, <2>1 DEF ProgressInv
  <2>3. att[e].plan \in Seq(Assignments)
    BY <1>1 DEF TypeInv, TypeOK, AttemptStates
  <2>4. att[e].plan # <<>> /\ Done(att[e].plan)
    BY <2>2, <2>3 DEF DonePlan, Done
  <2>. QED  BY <2>1, <2>4
<1>. QED  BY <1>1, InitTypeInv, NextTypeInv, InitPass, NextPass, ProgressAlways, PTL DEF Spec

-----------------------------------------------------------------------------
(***************************************************************************)
(* The plan of a run whose attempts do not overlap.                        *)
(***************************************************************************)
\* Induction over the natural numbers, for the set of those that are Good.
LEMMA CountingUp ==
  ASSUME NEW Good, 0 \in Good, \A n \in Nat : n \in Good => n + 1 \in Good
  PROVE  Nat \subseteq Good
<1>. DEFINE R == OpToRel(<, Nat)
            Bad == Nat \ Good
<1>. SUFFICES ASSUME Bad # {} PROVE FALSE
  OBVIOUS
<1>1. IsWellFoundedOn(R, Nat)
  BY NatLessThanWellFounded
<1>2. \A m, n \in Nat : m < n => <<m, n>> \in R
  BY DEF OpToRel
<1>. HIDE DEF R
<1>3. PICK n \in Bad : \A m \in Bad : <<m, n>> \notin R
  BY <1>1, WFMin
<1>4. n - 1 \in Nat /\ n - 1 < n
  OBVIOUS
<1>5. n - 1 \in Good
  BY <1>2, <1>3, <1>4
<1>. QED  BY <1>4, <1>5

\* g[i] is what FlattenSeq() makes of the first i sequences of s.
Flattens(g, s, n) ==
  g = [i \in 1 .. n |-> IF i = 1 THEN s[i] ELSE g[i - 1] \o s[i]]

LEMMA FlattensAt ==
  ASSUME NEW s, NEW n \in Nat, NEW g, Flattens(g, s, n)
  PROVE  \A i \in 1 .. n : g[i] = IF i = 1 THEN s[i] ELSE g[i - 1] \o s[i]
<1>1. g = [i \in 1 .. n |-> IF i = 1 THEN s[i] ELSE g[i - 1] \o s[i]]
  BY DEF Flattens
<1>. QED  BY <1>1

LEMMA FlatteningExists ==
  ASSUME NEW s, NEW n \in Nat
  PROVE  \E g : Flattens(g, s, n)
<1>. DEFINE Good == {k \in Nat : \E g : Flattens(g, s, k)}
<1>1. 0 \in Good
  <2>. DEFINE g == [i \in 1 .. 0 |-> s[i]]
  <2>1. Flattens(g, s, 0)
    BY DEF Flattens
  <2>. QED  BY <2>1
<1>2. ASSUME NEW k \in Nat, k \in Good PROVE k + 1 \in Good
  <2>1. PICK g : Flattens(g, s, k)
    BY <1>2
  <2>2. PICK last : last = IF k = 0 THEN s[1] ELSE g[k] \o s[k + 1]
    OBVIOUS
  <2>. DEFINE h == [i \in 1 .. k + 1 |-> IF i = k + 1 THEN last ELSE g[i]]
  <2>3. \A i \in 1 .. k : g[i] = IF i = 1 THEN s[i] ELSE g[i - 1] \o s[i]
    BY <2>1, FlattensAt
  <2>4. ASSUME NEW i \in 1 .. k + 1
        PROVE  h[i] = IF i = 1 THEN s[i] ELSE h[i - 1] \o s[i]
    <3>1. CASE i \in 1 .. k
      <4>1. h[i] = g[i] /\ (i # 1 => h[i - 1] = g[i - 1])
        BY <3>1
      <4>. HIDE DEF h
      <4>. QED  BY <2>3, <3>1, <4>1
    <3>2. CASE i = k + 1
      <4>1. h[i] = last /\ (i # 1 => h[i - 1] = g[k] /\ k # 0) /\ (i = 1 => k = 0)
        BY <3>2
      <4>. HIDE DEF h
      <4>. QED  BY <2>2, <3>2, <4>1
    <3>. QED  BY <3>1, <3>2
  <2>5. h = [i \in 1 .. k + 1 |-> h[i]]
    OBVIOUS
  <2>. HIDE DEF h
  <2>6. h = [i \in 1 .. k + 1 |-> IF i = 1 THEN s[i] ELSE h[i - 1] \o s[i]]
    BY <2>4, <2>5
  <2>7. Flattens(h, s, k + 1)
    BY <2>6 DEF Flattens
  <2>. QED  BY <2>7
<1>. HIDE DEF Good
<1>3. Nat \subseteq Good
  BY <1>1, <1>2, CountingUp
<1>. QED  BY <1>3 DEF Good

\* The second part of Unambiguous.
Short == \A i \in 1 .. MaxPlan : Len(items[i]) <= 1

\* The items hold plan p up to position k, and nothing else.
ItemsHold(p, k) == \A i \in 1 .. MaxPlan : items[i] = IF i <= k THEN <<p[i]>> ELSE <<>>

\* Read back, they are that plan.
LEMMA PlanReadBack ==
  ASSUME TypeInv, NEW p \in Plans, ItemsHold(p, Len(p))
  PROVE  planItems = p
<1>. DEFINE flat == CHOOSE g : Flattens(g, items, MaxPlan)
<1>0. PICK g : g = flat
  OBVIOUS
<1>. DEFINE Good == {k \in Nat : k + 1 <= MaxPlan =>
                      /\ g[k + 1] \in Seq(Assignments)
                      /\ Len(g[k + 1]) = IF k + 1 <= Len(p) THEN k + 1 ELSE Len(p)
                      /\ \A j \in 1 .. Len(g[k + 1]) : g[k + 1][j] = p[j]}
<1>1. MaxPlan \in Nat /\ p \in Seq(Assignments) /\ Len(p) \in 1 .. MaxPlan
  BY PlansAssumption
<1>2. items \in [1 .. MaxPlan -> Seq(Assignments)]
  BY DEF TypeInv, TypeOK
<1>3. Len(items) = MaxPlan
  BY <1>1, <1>2
<1>4. Flattens(g, items, MaxPlan)
  BY <1>0, <1>1, FlatteningExists
<1>5. planItems = g[MaxPlan]
  <2>1. Len(items) # 0
    BY <1>1, <1>3
  <2>2. planItems = flat[MaxPlan]
    BY <1>3, <2>1, Zenon DEF planItems, FlattenSeq, Flattens
  <2>. QED  BY <1>0, <2>2
<1>. HIDE DEF flat
<1>6. \A i \in 1 .. MaxPlan : g[i] = IF i = 1 THEN items[i] ELSE g[i - 1] \o items[i]
  BY <1>1, <1>4, FlattensAt
<1>. HIDE DEF Good
<1>7. \A i \in 1 .. MaxPlan : items[i] = IF i <= Len(p) THEN <<p[i]>> ELSE <<>>
  BY DEF ItemsHold
<1>8. 0 \in Good
  <2>1. 1 \in 1 .. MaxPlan /\ 1 <= Len(p) /\ p[1] \in Assignments
    BY <1>1
  <2>2. PICK x \in Assignments : x = p[1]
    BY <2>1
  <2>3. g[1] = <<x>>
    BY <1>6, <1>7, <2>1, <2>2
  <2>4. PICK s \in Seq(Assignments) : s = <<x>> /\ Len(s) = 1 /\ s[1] = x
    <3>1. <<x>> \in Seq(Assignments) /\ Len(<<x>>) = 1 /\ <<x>>[1] = x
      OBVIOUS
    <3>. QED  BY <3>1
  <2>5. 0 + 1 = 1 /\ g[1] = s /\ \A j \in 1 .. Len(s) : s[j] = p[j]
    BY <2>2, <2>3, <2>4
  <2>6. /\ g[0 + 1] \in Seq(Assignments) /\ Len(g[0 + 1]) = 1 /\ 0 + 1 <= Len(p)
        /\ \A j \in 1 .. Len(g[0 + 1]) : g[0 + 1][j] = p[j]
    BY <2>1, <2>4, <2>5
  <2>. QED  BY <2>6 DEF Good
<1>9. ASSUME NEW k \in Nat, k \in Good PROVE k + 1 \in Good
  <2>1. SUFFICES ASSUME k + 2 <= MaxPlan
        PROVE  /\ g[k + 2] \in Seq(Assignments)
               /\ Len(g[k + 2]) = IF k + 2 <= Len(p) THEN k + 2 ELSE Len(p)
               /\ \A j \in 1 .. Len(g[k + 2]) : g[k + 2][j] = p[j]
    BY DEF Good
  <2>2. PICK s \in Seq(Assignments) :
          /\ s = g[k + 1] /\ Len(s) = IF k + 1 <= Len(p) THEN k + 1 ELSE Len(p)
          /\ \A j \in 1 .. Len(s) : s[j] = p[j]
    BY <1>1, <1>9, <2>1 DEF Good
  <2>3. k + 2 \in 1 .. MaxPlan /\ k + 2 # 1 /\ (k + 2) - 1 = k + 1
    BY <1>1, <2>1
  <2>4. g[k + 2] = s \o items[k + 2]
    BY <1>6, <2>2, <2>3
  <2>5. CASE k + 2 <= Len(p)
    <3>1. k + 2 \in 1 .. Len(p) /\ Len(s) = k + 1
      BY <1>1, <2>2, <2>3, <2>5
    <3>2. PICK x \in Assignments : x = p[k + 2]
      BY <1>1, <3>1
    <3>3. items[k + 2] = <<x>>
      BY <1>7, <2>3, <2>5, <3>2
    <3>4. s \o <<x>> \in Seq(Assignments) /\ Len(s \o <<x>>) = Len(s) + 1
      OBVIOUS
    <3>5. \A j \in 1 .. Len(s) + 1 : (s \o <<x>>)[j] = IF j <= Len(s) THEN s[j] ELSE x
      OBVIOUS
    <3>. QED  BY <1>1, <2>2, <2>4, <3>1, <3>2, <3>3, <3>4, <3>5
  <2>6. CASE ~(k + 2 <= Len(p))
    <3>1. items[k + 2] = <<>>
      BY <1>7, <2>3, <2>6
    <3>2. g[k + 2] = s
      BY <2>2, <2>4, <3>1
    <3>. QED  BY <1>1, <2>2, <2>6, <3>2
  <2>. QED  BY <2>5, <2>6
<1>10. MaxPlan - 1 \in Good
  BY <1>1, <1>8, <1>9, CountingUp
<1>11. PICK s \in Seq(Assignments) :
         s = g[MaxPlan] /\ Len(s) = Len(p) /\ \A j \in 1 .. Len(s) : s[j] = p[j]
  BY <1>1, <1>10 DEF Good
<1>12. s = p
  BY <1>1, <1>11
<1>. QED  BY <1>5, <1>11, <1>12

Carrying == Looping \cup {"verdict", "assuring"}

\* What an attempt knows of the plan: before it stored one none is accepted, while
\* it stores one the items hold what it stored, and then they are its plan; all of
\* that unless an earlier attempt left items behind.
Keeps(a) ==
  /\ a.pc \in {"planning", "storing", "accepting"} => ~Unambiguous
  /\ a.pc \in {"storing", "accepting"} => a.plan \in Plans
  /\ a.pc = "storing" /\ a.at > 1 =>
       items[1] # <<>> /\ (Short => ItemsHold(a.plan, a.at - 1))
  /\ a.pc = "accepting" => (Short => ItemsHold(a.plan, Len(a.plan)))
  /\ a.pc \in Carrying /\ Unambiguous => a.plan = planItems

KeptInv ==
  /\ \A i \in 1 .. MaxPlan : items[i] # <<>> => items[1] # <<>>
  /\ Unambiguous => planItems \in Plans
  /\ \A e \in Attempts : Keeps(att[e])

LEMMA InitKept == Init => KeptInv
<1>. SUFFICES ASSUME Init PROVE KeptInv
  OBVIOUS
<1>1. \A e \in Attempts : att[e].pc = "none"
  BY DEF Init, NoAttempt
<1>2. ~Unambiguous /\ \A i \in 1 .. MaxPlan : items[i] = <<>>
  BY DEF Init, Unambiguous
<1>. QED  BY <1>1, <1>2 DEF KeptInv, Keeps, Carrying, Looping

\* The items and the checkpoint stay: what was known before is known after.
LEMMA KeptStep ==
  ASSUME KeptInv, UNCHANGED <<items, planned>>, NEW e \in Attempts,
         \A d \in Attempts \ {e} : att'[d] = att[d],
         /\ att'[e].pc \in {"planning", "storing", "accepting"} => ~Unambiguous
         /\ att'[e].pc \in {"storing", "accepting"} => att'[e].plan \in Plans
         /\ att'[e].pc = "storing" /\ att'[e].at > 1 =>
              items[1] # <<>> /\ (Short => ItemsHold(att'[e].plan, att'[e].at - 1))
         /\ att'[e].pc = "accepting" => (Short => ItemsHold(att'[e].plan, Len(att'[e].plan)))
         /\ att'[e].pc \in Carrying /\ Unambiguous => att'[e].plan = planItems
  PROVE  KeptInv'
<1>1. Unambiguous' = Unambiguous /\ Short' = Short /\ planItems' = planItems
  BY DEF Unambiguous, Short, planItems
<1>2. \A p, k : ItemsHold(p, k)' = ItemsHold(p, k)
  BY DEF ItemsHold
<1>3. ASSUME NEW d \in Attempts PROVE Keeps(att[d])'
  BY <1>1, <1>2, <1>3 DEF KeptInv, Keeps
<1>. QED  BY <1>1, <1>3 DEF KeptInv, Attempts

\* Of the attempt only what does not concern the plan changed, or it went on with
\* the plan it carries, or it is on its way out.
LEMMA CarryStep ==
  ASSUME KeptInv, UNCHANGED <<items, planned>>, NEW e \in Attempts,
         \A d \in Attempts \ {e} : att'[d] = att[d],
         \/ /\ att'[e].pc = att[e].pc /\ att'[e].plan = att[e].plan /\ att'[e].at = att[e].at
         \/ /\ att[e].pc \in Carrying /\ att'[e].pc \in Carrying
            /\ att'[e].plan = att[e].plan
         \/ att'[e].pc \notin {"planning", "storing", "accepting"} \cup Carrying
  PROVE  KeptInv'
<1>1. Keeps(att[e])
  BY DEF KeptInv
<1>2. "planning" \notin Carrying /\ "storing" \notin Carrying /\ "accepting" \notin Carrying
  BY DEF Carrying, Looping
<1>. QED  BY <1>1, <1>2, KeptStep DEF Keeps

LEMMA StartKept ==
  ASSUME TypeInv, KeptInv, NEW e \in Attempts, Start(e)
  PROVE  KeptInv'
<1>1. att \in [Attempts -> AttemptStates]
  BY DEF TypeInv, TypeOK
<1>2. ASSUME Claim(e, "route") \/ Claim(e, "recovery") \/ Queue(e) \/ Refuse(e) \/ AlreadyComplete(e)
      PROVE  KeptInv'
  <2>1. /\ UNCHANGED <<items, planned>>
        /\ \A d \in Attempts \ {e} : att'[d] = att[d]
        /\ att'[e].pc \in {"queue", "enter", "ending"}
    BY <1>1, <1>2 DEF Claim, Queue, Refuse, AlreadyComplete, KeepFabric, fabric, Goto, Return,
                      AttemptStates
  <2>. QED  BY <2>1, CarryStep DEF Carrying, Looping
<1>3. ASSUME Enter(e) PROVE KeptInv'
  <2>1. /\ UNCHANGED <<items, planned>>
        /\ \A d \in Attempts \ {e} : att'[d] = att[d]
        /\ \/ att'[e].pc = "terminal"
           \/ storedPlan = <<>> /\ att'[e].pc = "planning"
           \/ storedPlan # <<>> /\ att'[e].pc = "planned" /\ att'[e].plan = storedPlan
    BY <1>1, <1>3 DEF Enter, KeepFabric, fabric, AttemptStates
  <2>2. Unambiguous => storedPlan = planItems /\ planItems # <<>>
    <3>. SUFFICES ASSUME Unambiguous PROVE storedPlan = planItems /\ planItems # <<>>
      OBVIOUS
    <3>1. PICK p \in Plans : p = planItems
      BY DEF KeptInv
    <3>2. p \in Seq(Assignments) /\ Len(p) \in 1 .. MaxPlan /\ IsInjective(p) /\ planned
      BY PlansAssumption DEF Unambiguous
    <3>3. p # <<>>
      BY <3>2
    <3>. QED  BY <3>1, <3>2, <3>3 DEF storedPlan
  <2>. QED  BY <2>1, <2>2, KeptStep DEF Carrying, Looping
<1>. QED  BY <1>2, <1>3 DEF Start

LEMMA PlanKept ==
  ASSUME Inv, KeptInv, NEW e \in Attempts, Plan(e)
  PROVE  KeptInv'
<1>1. /\ att \in [Attempts -> AttemptStates] /\ att[e] \in AttemptStates /\ Keeps(att[e])
      /\ items \in [1 .. MaxPlan -> Seq(Assignments)] /\ MaxPlan \in Nat
      /\ att[e].at \in Nat \ {0} /\ att[e].plan \in Seq(Assignments)
  BY Constants DEF Inv, TypeInv, TypeOK, AttemptStates, KeptInv
<1>2. CASE Planned(e)
  <2>1. /\ UNCHANGED <<items, planned>> /\ att[e].pc = "planning"
        /\ \A d \in Attempts \ {e} : att'[d] = att[d]
        /\ att'[e].pc = "storing" /\ att'[e].plan \in Plans /\ att'[e].at = 1
    BY <1>1, <1>2 DEF Planned, At, KeepFabric, fabric, AttemptStates
  <2>. QED  BY <1>1, <2>1, KeptStep DEF Keeps, Carrying, Looping
<1>3. CASE PlanningFails(e)
  <2>1. /\ UNCHANGED <<items, planned>>
        /\ \A d \in Attempts \ {e} : att'[d] = att[d]
        /\ att'[e].pc = "terminal"
    BY <1>1, <1>3 DEF PlanningFails, Stop, KeepFabric, fabric, AttemptStates
  <2>. QED  BY <2>1, CarryStep DEF Carrying, Looping
<1>4. CASE StoreItem(e)
  <2>1. PICK p, k : p = att[e].plan /\ k = att[e].at
    OBVIOUS
  <2>2. /\ att[e].pc = "storing" /\ k \in 1 .. Len(p) /\ p \in Plans /\ ~Unambiguous
        /\ p \in Seq(Assignments) /\ Len(p) <= MaxPlan
    BY <1>1, <1>4, <2>1, PlansAssumption DEF StoreItem, At, Keeps, Inv, TypeInv, StoringInPlan
  <2>3. k \in 1 .. MaxPlan /\ p[k] \in Assignments
    BY <1>1, <2>2
  <2>4. /\ planned' = planned
        /\ \A d \in Attempts \ {e} : att'[d] = att[d]
        /\ att'[e].plan = p
        /\ \/ k = Len(p) /\ att'[e].pc = "accepting"
           \/ k < Len(p) /\ att'[e].pc = "storing" /\ att'[e].at = k + 1
    BY <1>1, <1>4, <2>1, <2>2 DEF StoreItem, AttemptStates
  <2>5. /\ items'[k] = Append(items[k], p[k])
        /\ \A i \in 1 .. MaxPlan : i # k => items'[i] = items[i]
    BY <1>1, <1>4, <2>1, <2>3 DEF StoreItem, Assignment
  <2>6. /\ items'[k] # <<>> /\ Len(items'[k]) = Len(items[k]) + 1 /\ Len(items[k]) \in Nat
        /\ items[k] = <<>> => items'[k] = <<p[k]>>
    <3>1. PICK s \in Seq(Assignments) : s = items[k]
      BY <1>1, <2>3
    <3>2. PICK x \in Assignments : x = p[k]
      BY <2>3
    <3>3. /\ Append(s, x) \in Seq(Assignments) /\ Len(Append(s, x)) = Len(s) + 1
          /\ Len(s) \in Nat
      OBVIOUS
    <3>4. Append(s, x) # <<>>
      BY <3>3
    <3>5. s = <<>> => Append(s, x) = <<x>>
      OBVIOUS
    <3>. QED  BY <2>5, <3>1, <3>2, <3>3, <3>4, <3>5
  \* An item stored twice never becomes single again.
  <2>7. Short' => Short /\ items[k] = <<>>
    <3>. SUFFICES ASSUME Short' PROVE Short /\ items[k] = <<>>
      OBVIOUS
    <3>1. Len(items'[k]) <= 1 /\ \A i \in 1 .. MaxPlan : i # k => Len(items[i]) <= 1
      BY <2>3, <2>5 DEF Short
    <3>2. Len(items[k]) = 0
      BY <2>6, <3>1
    <3>3. items[k] = <<>>
      BY <1>1, <2>3, <3>2
    <3>. QED  BY <3>1, <3>2, <3>3 DEF Short
  <2>8. ~Unambiguous'
    BY <2>2, <2>4, <2>7 DEF Unambiguous, Short
  <2>9. items'[1] # <<>>
    BY <1>1, <2>1, <2>2, <2>3, <2>5, <2>6 DEF Keeps
  <2>10. Short' => ItemsHold(p, k)'
    <3>. SUFFICES ASSUME Short' PROVE ItemsHold(p, k)'
      OBVIOUS
    <3>1. \A i \in 1 .. MaxPlan : i # k => items[i] = IF i < k THEN <<p[i]>> ELSE <<>>
      <4>1. CASE k = 1
        <5>1. \A i \in 1 .. MaxPlan : items[i] = <<>>
          BY <2>3, <2>7, <4>1 DEF KeptInv
        <5>. QED  BY <4>1, <5>1
      <4>2. CASE k > 1
        <5>1. ItemsHold(p, k - 1)
          BY <1>1, <2>1, <2>2, <2>7, <4>2 DEF Keeps
        <5>. QED  BY <2>3, <4>2, <5>1 DEF ItemsHold
      <4>. QED  BY <2>3, <4>1, <4>2
    <3>2. ASSUME NEW i \in 1 .. MaxPlan PROVE items'[i] = IF i <= k THEN <<p[i]>> ELSE <<>>
      <4>1. CASE i = k
        BY <2>3, <2>6, <2>7, <4>1
      <4>2. CASE i # k
        <5>1. items'[i] = items[i] /\ items[i] = IF i < k THEN <<p[i]>> ELSE <<>>
          BY <2>5, <3>1, <4>2
        <5>. QED  BY <2>3, <4>2, <5>1
      <4>. QED  BY <4>1, <4>2
    <3>. QED  BY <3>2 DEF ItemsHold
  <2>11. \A d \in Attempts \ {e} : Keeps(att[d])'
    <3>1. \A d \in Attempts \ {e} : att'[d].pc \notin {"planning", "storing", "accepting"}
      BY <2>2, <2>4 DEF Inv, Solo, Alive
    <3>. QED  BY <2>8, <3>1 DEF Keeps
  <2>12. Keeps(att[e])'
    <3>1. att'[e].pc = "storing" => ItemsHold(p, k)' = ItemsHold(att[e].plan, att[e].at - 1)'
      <4>. SUFFICES ASSUME att'[e].pc = "storing" PROVE p = att'[e].plan /\ k = att'[e].at - 1
        BY DEF ItemsHold
      <4>. QED  BY <2>3, <2>4
    <3>2. att'[e].pc = "accepting" => ItemsHold(p, k)' = ItemsHold(att[e].plan, Len(att[e].plan))'
      <4>. SUFFICES ASSUME att'[e].pc = "accepting" PROVE p = att'[e].plan /\ k = Len(att'[e].plan)
        BY DEF ItemsHold
      <4>. QED  BY <2>3, <2>4
    <3>3. att'[e].pc \in {"accepting", "storing"} /\ att'[e].pc \notin Carrying
      BY <2>4 DEF Carrying, Looping
    <3>. QED  BY <2>2, <2>4, <2>8, <2>9, <2>10, <3>1, <3>2, <3>3 DEF Keeps
  <2>. QED  BY <2>8, <2>9, <2>11, <2>12 DEF KeptInv, Attempts
<1>5. CASE StorePlan(e)
  <2>1. /\ items' = items /\ planned' /\ att[e].pc = "accepting"
        /\ \A d \in Attempts \ {e} : att'[d] = att[d]
        /\ att'[e].pc = "planned" /\ att'[e].plan = att[e].plan
    BY <1>1, <1>5 DEF StorePlan, At, Goto, AttemptStates
  <2>2. Unambiguous' => planItems = att[e].plan /\ att[e].plan \in Plans
    BY <1>1, <2>1, PlanReadBack DEF Keeps, Unambiguous, Short, Inv
  <2>3. planItems' = planItems
    BY <2>1 DEF planItems
  <2>4. \A d \in Attempts \ {e} : att'[d].pc \notin {"planning", "storing", "accepting"} \cup Carrying
    BY <2>1 DEF Inv, Solo, Alive, Carrying, Looping
  <2>5. \A d \in Attempts : Keeps(att[d])'
    BY <2>1, <2>2, <2>3, <2>4 DEF Keeps
  <2>. QED  BY <2>1, <2>2, <2>3, <2>5 DEF KeptInv, Attempts
<1>6. CASE BeginWork(e)
  <2>1. /\ UNCHANGED <<items, planned>> /\ att[e].pc = "planned"
        /\ \A d \in Attempts \ {e} : att'[d] = att[d]
        /\ att'[e].pc = "loop" /\ att'[e].plan = att[e].plan
    BY <1>1, <1>6 DEF BeginWork, At, Goto, AttemptStates
  <2>. QED  BY <2>1, CarryStep DEF Carrying, Looping
<1>. QED  BY <1>2, <1>3, <1>4, <1>5, <1>6 DEF Plan

LEMMA WorkKept ==
  ASSUME TypeInv, KeptInv, NEW e \in Attempts, Work(e)
  PROVE  KeptInv'
<1>1. att \in [Attempts -> AttemptStates] /\ att[e] \in AttemptStates
  BY DEF TypeInv, TypeOK
<1>2. /\ UNCHANGED <<items, planned>>
      /\ \A d \in Attempts \ {e} : att'[d] = att[d]
      /\ \/ att'[e].pc = "terminal"
         \/ att[e].pc \in Carrying /\ att'[e].pc \in Carrying /\ att'[e].plan = att[e].plan
  <2>. USE DEF At, Goto, Stop, KeepFabric, fabric, AttemptStates, Carrying, Looping
  <2>1. CASE SkipCompleted(e)
    BY <1>1, <2>1 DEF SkipCompleted
  <2>2. CASE HaltWork(e)
    BY <1>1, <2>2 DEF HaltWork
  <2>3. CASE StartTask(e)
    BY <1>1, <2>3 DEF StartTask
  <2>4. CASE Dispatch(e)
    BY <1>1, <2>4 DEF Dispatch
  <2>5. CASE AdapterFails(e)
    BY <1>1, <2>5 DEF AdapterFails
  <2>6. CASE AccountingUnknown(e)
    BY <1>1, <2>6 DEF AccountingUnknown
  <2>7. CASE Executed(e)
    BY <1>1, <2>7 DEF Executed
  <2>8. CASE Verified(e)
    BY <1>1, <2>8 DEF Verified
  <2>9. CASE VerificationFails(e)
    BY <1>1, <2>9 DEF VerificationFails
  <2>10. CASE CompleteTask(e)
    BY <1>1, <2>10 DEF CompleteTask
  <2>11. CASE Settle(e)
    BY <1>1, <2>11 DEF Settle
  <2>. QED  BY <2>1, <2>2, <2>3, <2>4, <2>5, <2>6, <2>7, <2>8, <2>9, <2>10, <2>11 DEF Work
<1>3. "terminal" \notin {"planning", "storing", "accepting"} \cup Carrying
  BY DEF Carrying, Looping
<1>. QED  BY <1>2, <1>3, CarryStep

LEMMA JudgeKept ==
  ASSUME TypeInv, KeptInv, NEW e \in Attempts, Judge(e)
  PROVE  KeptInv'
<1>1. att \in [Attempts -> AttemptStates] /\ att[e] \in AttemptStates
  BY DEF TypeInv, TypeOK
<1>2. /\ UNCHANGED <<items, planned>>
      /\ \A d \in Attempts \ {e} : att'[d] = att[d]
      /\ \/ att'[e].pc = "terminal"
         \/ att[e].pc \in Carrying /\ att'[e].pc \in Carrying /\ att'[e].plan = att[e].plan
  <2>. USE DEF At, Stop, KeepFabric, fabric, AttemptStates, Carrying, Looping
  <2>1. CASE EnterVerification(e)
    BY <1>1, <2>1 DEF EnterVerification
  <2>2. CASE Verdict(e)
    BY <1>1, <2>2 DEF Verdict
  <2>3. CASE RecordVerdict(e)
    BY <1>1, <2>3 DEF RecordVerdict
  <2>4. CASE EnterAssurance(e)
    BY <1>1, <2>4 DEF EnterAssurance
  <2>. QED  BY <2>1, <2>2, <2>3, <2>4 DEF Judge
<1>3. "terminal" \notin {"planning", "storing", "accepting"} \cup Carrying
  BY DEF Carrying, Looping
<1>. QED  BY <1>2, <1>3, CarryStep

LEMMA EndKept ==
  ASSUME TypeInv, KeptInv, NEW e \in Attempts, EndAttempt(e) \/ Environment(e)
  PROVE  KeptInv'
<1>1. att \in [Attempts -> AttemptStates] /\ att[e] \in AttemptStates
  BY DEF TypeInv, TypeOK
<1>2. /\ UNCHANGED <<items, planned>>
      /\ \A d \in Attempts \ {e} : att'[d] = att[d]
      /\ \/ att'[e].pc = att[e].pc /\ att'[e].plan = att[e].plan /\ att'[e].at = att[e].at
         \/ att'[e].pc \in {"ending", "unhandled", "gone"}
  <2>. USE DEF Goto, Return, Leave, KeepFabric, fabric, AttemptStates
  <2>1. CASE Terminal(e)
    BY <1>1, <2>1 DEF Terminal
  <2>2. CASE Throw(e)
    BY <1>1, <2>2 DEF Throw
  <2>3. CASE UnhandledFailure(e)
    BY <1>1, <2>3 DEF UnhandledFailure
  <2>4. CASE RecoveryFailure(e)
    BY <1>1, <2>4 DEF RecoveryFailure
  <2>5. CASE HandlerThrows(e)
    BY <1>1, <2>5 DEF HandlerThrows
  <2>6. CASE Finish(e)
    BY <1>1, <2>6 DEF Finish, NoAttempt
  <2>7. CASE Crash(e)
    BY <1>1, <2>7 DEF Crash, NoAttempt
  <2>8. CASE Abort(e)
    BY <1>1, <2>8 DEF Abort
  <2>9. CASE Expire(e)
    BY <1>1, <2>9 DEF Expire
  <2>. QED  BY <2>1, <2>2, <2>3, <2>4, <2>5, <2>6, <2>7, <2>8, <2>9 DEF EndAttempt, Environment
<1>3. \A pc \in {"ending", "unhandled", "gone"} :
        pc \notin {"planning", "storing", "accepting"} \cup Carrying
  BY DEF Carrying, Looping
<1>. QED  BY <1>2, <1>3, CarryStep

LEMMA NextKept == ASSUME Inv, KeptInv, [Next]_vars PROVE KeptInv'
<1>1. CASE Cancel \/ UNCHANGED vars
  <2>1. UNCHANGED <<items, planned, att>>
    BY <1>1 DEF Cancel, fabric, vars
  <2>2. /\ planItems' = planItems /\ Short' = Short /\ Unambiguous' = Unambiguous
        /\ \A p, k : ItemsHold(p, k)' = ItemsHold(p, k)
    BY <2>1 DEF planItems, Short, Unambiguous, ItemsHold
  <2>3. \A d \in Attempts : Keeps(att[d])'
    BY <2>1, <2>2 DEF KeptInv, Keeps
  <2>. QED  BY <2>1, <2>2, <2>3 DEF KeptInv
<1>2. ASSUME NEW e \in Attempts,
             Start(e) \/ Plan(e) \/ Work(e) \/ Judge(e) \/ EndAttempt(e) \/ Environment(e)
      PROVE  KeptInv'
  BY <1>2, StartKept, PlanKept, WorkKept, JudgeKept, EndKept DEF Inv
<1>. QED  BY <1>1, <1>2 DEF Next

\* The items and the checkpoint change only where no plan was accepted.
LEMMA ItemsStay ==
  ASSUME KeptInv, Unambiguous, [Next]_vars
  PROVE  UNCHANGED <<items, planned>>
<1>. USE DEF KeepFabric, fabric
<1>1. CASE Cancel \/ UNCHANGED vars
  BY <1>1 DEF Cancel, vars
<1>2. ASSUME NEW e \in Attempts, Start(e) PROVE UNCHANGED <<items, planned>>
  BY <1>2 DEF Start, Claim, Queue, Refuse, AlreadyComplete, Enter
<1>3. ASSUME NEW e \in Attempts, Plan(e) PROVE UNCHANGED <<items, planned>>
  <2>1. ~StoreItem(e) /\ ~StorePlan(e)
    BY DEF KeptInv, Keeps, StoreItem, StorePlan, At
  <2>. QED  BY <1>3, <2>1 DEF Plan, Planned, PlanningFails, BeginWork
<1>4. ASSUME NEW e \in Attempts, Work(e) PROVE UNCHANGED <<items, planned>>
  BY <1>4 DEF Work, SkipCompleted, HaltWork, StartTask, Dispatch, AdapterFails, AccountingUnknown,
              Executed, Verified, VerificationFails, CompleteTask, Settle
<1>5. ASSUME NEW e \in Attempts, Judge(e) PROVE UNCHANGED <<items, planned>>
  BY <1>5 DEF Judge, EnterVerification, Verdict, RecordVerdict, EnterAssurance
<1>6. ASSUME NEW e \in Attempts, EndAttempt(e) \/ Environment(e)
      PROVE  UNCHANGED <<items, planned>>
  BY <1>6 DEF EndAttempt, Terminal, Throw, UnhandledFailure, RecoveryFailure, HandlerThrows, Finish,
              Environment, Crash, Abort, Expire
<1>. QED  BY <1>1, <1>2, <1>3, <1>4, <1>5, <1>6 DEF Next

\* Attempts that do not overlap carry out one plan: the first that was stored
\* whole and accepted.  No later attempt adds an item to it or works from another.
THEOREM PlanKeptThroughout == ASSUME ~Overlap PROVE Spec => PlanIsKept
<1>1. ASSUME Inv, KeptInv, KeptInv', [Next]_vars, Unambiguous
      PROVE  items' = items /\ \A e \in Attempts : att'[e].pc = "loop" => att'[e].plan = planItems
  <2>1. UNCHANGED <<items, planned>>
    BY <1>1, ItemsStay
  <2>2. Unambiguous' /\ planItems' = planItems
    BY <1>1, <2>1 DEF Unambiguous, planItems
  <2>3. ASSUME NEW e \in Attempts, att'[e].pc = "loop" PROVE att'[e].plan = planItems
    <3>1. Keeps(att[e])'
      BY <1>1 DEF KeptInv, Attempts
    <3>. QED  BY <2>2, <2>3, <3>1 DEF Keeps, Carrying, Looping
  <2>. QED  BY <2>1, <2>3
<1>. QED  BY <1>1, InvAlways, InitKept, NextKept, PTL DEF Spec, PlanIsKept
=============================================================================
