---------------------------- MODULE TelegramBot ----------------------------
(***************************************************************************)
(* The Telegram bridge (src/interfaces/telegram): its approval store, the  *)
(* commands that create and settle approvals, the energy-trading dialogue, *)
(* and the two services it settles against: the runtime, which holds a     *)
(* mission until it is settled, and the trading arm (external).            *)
(*                                                                         *)
(* A handler is one update being processed.  It stops at every await; in   *)
(* polling mode the loop awaits each update, so one handler is busy at a   *)
(* time, in webhook mode updates are handled concurrently.                 *)
(***************************************************************************)
EXTENDS Naturals, Sequences, FiniteSets, FiniteSetsExt

CONSTANTS
    Handlers,
    Users,
    Allowed,            \* TELEGRAM_ALLOWED_USER_IDS
    ApproverIds,        \* TELEGRAM_APPROVER_USER_IDS
    RoleMap,            \* user -> role, "none" for a user without one
    TradingApprovers,   \* TELEGRAM_TRADING_APPROVERS
    RateLimitPerMinute,
    ApprovalTtl,        \* approvalTtlMinutes
    RuntimeTtl,         \* RONOR_APPROVAL_TTL of the runtime
    UploadCaseTtl,
    PruneAge,
    MaxClock,           \* bound: ticks of a minute or more
    MaxApprovals,       \* bound: approvals created
    MaxUpdates,         \* bound: updates handled
    MaxFaults           \* bound: failed sends, lost requests, restarts

Roles == {"sovereign", "trading_trainer", "trading_observer", "none"}

ASSUME TelegramAssumption ==
    /\ Allowed \subseteq Users /\ ApproverIds \subseteq Users /\ TradingApprovers \subseteq Users
    /\ RoleMap \in [Users -> Roles]
    /\ \A n \in {RateLimitPerMinute, ApprovalTtl, RuntimeTtl, UploadCaseTtl, PruneAge, MaxClock,
                 MaxApprovals, MaxUpdates, MaxFaults} : n \in Nat

VARIABLES
    mode,       \* "polling" or "webhook"
    now,
    store,      \* the approvals in the order of their creation; "gone" once deleted
    handler,    \* handler[h]: [at, op, user, a]
    rate,       \* rate[u]: commands in the current minute
    upload,     \* upload[u]: when the intent of /upload_case was set, None if there is none
    held,       \* held[a]: what the runtime has for the mission of approval a
    released,   \* released[a]: how often what a gates was carried out
    by,         \* by[a]: the users whose command released it
    disturbed,  \* approvals that met a failed send, a lost request or a timeout
    updates, faults

vars == <<mode, now, store, handler, rate, upload, held, released, by, disturbed, updates, faults>>

Ids == 1..MaxApprovals

None == 0

Free == [at |-> "idle", op |-> "none", user |-> "none", a |-> None]

NoHold == [state |-> "none", expires |-> 0]

(* loadTelegramConfig(): the bridge throws at boot unless somebody is       *)
(* allowed, somebody approves, every approver and every holder of a role is *)
(* allowed, and every trade approver approves base gates as well.           *)
loadTelegramConfig ==
    LET assigned == {u \in Users : RoleMap[u] # "none"}
    IN  /\ Allowed # {}
        /\ ApproverIds # {} /\ ApproverIds \subseteq Allowed
        /\ assigned # {} /\ assigned \subseteq Allowed
        /\ TradingApprovers \subseteq ApproverIds
        /\ RateLimitPerMinute \in 1..600

Init ==
    /\ loadTelegramConfig
    /\ mode \in {"polling", "webhook"}
    /\ now = 1
    /\ store = <<>>
    /\ handler = [h \in Handlers |-> Free]
    /\ rate = [u \in Users |-> 0]
    /\ upload = [u \in Users |-> None]
    /\ held = [a \in Ids |-> NoHold]
    /\ released = [a \in Ids |-> 0]
    /\ by = [a \in Ids |-> {}]
    /\ disturbed = {}
    /\ updates = 0
    /\ faults = 0

----------------------------------------------------------------------------
(* The approval store.                                                      *)

createApproval(kind, user) ==
    store' = Append(store, [kind |-> kind, requester |-> user, status |-> "pending",
                            created |-> now, expires |-> now + ApprovalTtl])

expired(approval) == approval.expires < now

(* What listPendingApprovals() and findLatestPending() leave behind.        *)
lazilyExpired(s) ==
    [a \in DOMAIN s |-> IF s[a].status = "pending" /\ expired(s[a])
                        THEN [s[a] EXCEPT !.status = "expired"] ELSE s[a]]

pendingIn(s) == {a \in DOMAIN s : s[a].status = "pending"}

findLatestPending(s) == IF pendingIn(lazilyExpired(s)) = {} THEN None ELSE Max(pendingIn(lazilyExpired(s)))

settleApproval(s, a, decision) ==
    [s EXCEPT ![a].status = IF @ # "pending" THEN @ ELSE IF expired(s[a]) THEN "expired" ELSE decision]

pruneApprovals(s) ==
    [a \in DOMAIN s |-> IF s[a].status # "pending" /\ s[a].created + PruneAge < now
                        THEN [s[a] EXCEPT !.status = "gone"] ELSE s[a]]

----------------------------------------------------------------------------
(* Who may do what.                                                         *)

roleOf(u) == RoleMap[u]

tradingBucketFor(command) ==
    CASE command \in {"energy_status", "energy_report", "day", "pl", "brief"} -> "read"
      [] command \in {"upload_case", "feedback", "correct", "dispute"} -> "contribute"
      [] command \in {"trade_request", "history"} -> "initiate"

authoriseTradingCommand(bucket, role) ==
    CASE bucket = "read" -> role # "none"
      [] bucket \in {"contribute", "initiate"} -> role \in {"sovereign", "trading_trainer"}
      [] OTHER -> role = "sovereign"

gateTrading(u, command) == authoriseTradingCommand(tradingBucketFor(command), roleOf(u))

isTradeCoSigner(u) ==
    /\ u \in ApproverIds
    /\ roleOf(u) = "sovereign"
    /\ TradingApprovers # {} => u \in TradingApprovers

mayApprove(u, kind) == u \in ApproverIds /\ (kind = "trade" => isTradeCoSigner(u))

isRateLimited(u) == rate[u] >= RateLimitPerMinute

----------------------------------------------------------------------------
(* Updates.  A command passes the allowlist and the rate limit; a press of  *)
(* a button only has to come from an approver.                              *)

canHandle(h) ==
    /\ handler[h] = Free
    /\ mode = "polling" => \A g \in Handlers : handler[g] = Free
    /\ updates < MaxUpdates

handles(h, at, op, u, a) == handler' = [handler EXCEPT ![h] = [at |-> at, op |-> op, user |-> u, a |-> a]]

counted(u) ==
    /\ rate' = [rate EXCEPT ![u] = @ + 1]
    /\ updates' = updates + 1

(* The message is refused, or only reads and answers.                       *)
Refused(h, u) ==
    /\ canHandle(h)
    /\ u \notin Allowed \/ isRateLimited(u)
    /\ rate' = IF u \in Allowed THEN [rate EXCEPT ![u] = @ + 1] ELSE rate
    /\ updates' = updates + 1
    /\ UNCHANGED <<mode, now, store, handler, upload, held, released, by, disturbed, faults>>

admitted(h, u) == canHandle(h) /\ u \in Allowed /\ ~isRateLimited(u)

(* A stale intent is dropped by the next message; a slash command leaves a  *)
(* fresh one alone.                                                         *)
fresh(u) == upload[u] # None /\ now - upload[u] <= UploadCaseTtl

intentAfter(u) == [upload EXCEPT ![u] = IF fresh(u) THEN @ ELSE None]

Ask(h, u, kind) ==
    /\ admitted(h, u) /\ counted(u)
    /\ upload' = intentAfter(u)
    /\ IF kind = "trade" /\ ~gateTrading(u, "trade_request") THEN UNCHANGED handler
       ELSE handles(h, "asking", kind, u, None)
    /\ UNCHANGED <<mode, now, store, held, released, by, disturbed, faults>>

cmdUploadCase(h, u) ==
    /\ admitted(h, u) /\ counted(u)
    /\ upload' = IF gateTrading(u, "upload_case") THEN [upload EXCEPT ![u] = now] ELSE intentAfter(u)
    /\ UNCHANGED <<mode, now, store, handler, held, released, by, disturbed, faults>>

(* Text without a slash, or a document: the case that was announced; else   *)
(* text is a query, and a document is turned away.                          *)
Plain(h, u, document) ==
    /\ admitted(h, u) /\ counted(u)
    /\ upload' = [upload EXCEPT ![u] = None]
    /\ CASE fresh(u) -> IF gateTrading(u, "upload_case") THEN handles(h, "uploading", "case", u, None)
                        ELSE UNCHANGED handler
         [] ~fresh(u) /\ ~document -> handles(h, "asking", "query", u, None)
         [] OTHER -> UNCHANGED handler
    /\ UNCHANGED <<mode, now, store, held, released, by, disturbed, faults>>

Uploaded(h) ==
    /\ handler[h].at = "uploading"
    /\ handler' = [handler EXCEPT ![h] = Free]
    /\ UNCHANGED <<mode, now, store, rate, upload, held, released, by, disturbed, updates, faults>>

(* The runtime answered, at once or by asking for a co-signature, or the    *)
(* arm proposed trades or none, or the call failed.  The prompt is sent     *)
(* after the approval exists, so a failure to send it changes nothing.      *)
Answered(h) ==
    LET kind == handler[h].op
        a == Len(store) + 1
    IN  /\ handler[h].at = "asking"
        /\ handler' = [handler EXCEPT ![h] = Free]
        /\ \/ UNCHANGED <<store, held>>
           \/ /\ Len(store) < MaxApprovals
              /\ createApproval(kind, handler[h].user)
              /\ held' = [held EXCEPT ![a] = IF kind # "mission" THEN @
                                             ELSE [state |-> "held", expires |-> now + RuntimeTtl]]
        /\ UNCHANGED <<mode, now, rate, upload, released, by, disturbed, updates, faults>>

cmdPending(h, u) ==
    /\ admitted(h, u) /\ counted(u)
    /\ upload' = intentAfter(u)
    /\ store' = lazilyExpired(store)
    /\ UNCHANGED <<mode, now, handler, held, released, by, disturbed, faults>>

----------------------------------------------------------------------------
(* Settling.  An approval is looked up by its id, whatever its age, or as   *)
(* the latest that is pending and not expired.                              *)

lookup(a) == IF a = None THEN findLatestPending(store) ELSE IF a \in DOMAIN store THEN a ELSE None

afterLookup(a) == IF a = None THEN lazilyExpired(store) ELSE store

(* doApprove() and doReject() up to their first await.                      *)
doApprove(h, u, a) ==
    LET found == lookup(a)
    IN  /\ store' = afterLookup(a)
        /\ IF found # None /\ store[found].status = "pending" /\ mayApprove(u, store[found].kind)
           THEN handles(h, CASE store[found].kind = "query" -> "sending"
                             [] store[found].kind = "mission" -> "settling"
                             [] OTHER -> "nominating", "approve", u, found)
           ELSE UNCHANGED handler

doReject(h, u, a) ==
    LET found == lookup(a)
    IN  IF found = None \/ store[found].status # "pending"
        THEN store' = afterLookup(a) /\ UNCHANGED handler
        ELSE IF store[found].kind = "query"
        THEN store' = settleApproval(afterLookup(a), found, "rejected") /\ UNCHANGED handler
        ELSE /\ store' = afterLookup(a)
             /\ handles(h, IF store[found].kind = "trade" THEN "sending" ELSE "settling", "reject", u, found)

settles(h, u, a, decision) == IF decision = "approve" THEN doApprove(h, u, a) ELSE doReject(h, u, a)

(* /approve and /reject, with or without an id.                             *)
cmdSettle(h, u, a, decision) ==
    /\ admitted(h, u) /\ counted(u)
    /\ upload' = intentAfter(u)
    /\ IF u \in ApproverIds THEN settles(h, u, a, decision) ELSE UNCHANGED <<store, handler>>
    /\ UNCHANGED <<mode, now, held, released, by, disturbed, faults>>

handleCallbackQuery(h, u, a, decision) ==
    /\ canHandle(h) /\ u \in ApproverIds
    /\ updates' = updates + 1
    /\ settles(h, u, a, decision)
    /\ UNCHANGED <<mode, now, rate, upload, held, released, by, disturbed, faults>>

carriedOut(h) ==
    LET a == handler[h].a
    IN  /\ released' = [released EXCEPT ![a] = @ + 1]
        /\ by' = [by EXCEPT ![a] = @ \cup {handler[h].user}]

(* Mutant: the record stays with the runtime while its mission runs. *)
consumeRecord_Kept(a, to) == IF to = "run" THEN held ELSE [held EXCEPT ![a].state = to]

consumeRecord(a, to) == [held EXCEPT ![a].state = to]

holds(a) == held[a].state = "held" /\ held[a].expires >= now

(* The settlement request reaches the runtime: a held mission is run or     *)
(* dropped, anything else is refused with a 4xx that the client does not    *)
(* tell from a success.  A refused approval has no result to format and     *)
(* throws; a refused rejection is taken for an accepted one.                *)
RuntimeSettles(h) ==
    LET a == handler[h].a
        approving == handler[h].op = "approve"
    IN  /\ handler[h].at = "settling"
        /\ IF holds(a)
           THEN /\ held' = consumeRecord(a, IF approving THEN "run" ELSE "rejected")
                /\ IF approving THEN carriedOut(h) ELSE UNCHANGED <<released, by>>
           ELSE /\ held' = IF held[a].state = "held" THEN [held EXCEPT ![a].state = "expired"] ELSE held
                /\ UNCHANGED <<released, by>>
        /\ IF approving
           THEN /\ handler' = [handler EXCEPT ![h] = IF holds(a) THEN [@ EXCEPT !.at = "running"] ELSE Free]
                /\ UNCHANGED store
           ELSE /\ store' = settleApproval(store, a, "rejected")
                /\ handler' = [handler EXCEPT ![h] = Free]
        /\ UNCHANGED <<mode, now, rate, upload, disturbed, updates, faults>>

MissionEnds(h) ==
    /\ handler[h].at = "running"
    /\ handler' = [handler EXCEPT ![h].at = "sending"]
    /\ UNCHANGED <<mode, now, store, rate, upload, held, released, by, disturbed, updates, faults>>

fault(a) == faults < MaxFaults /\ faults' = faults + 1 /\ disturbed' = disturbed \cup {a}

(* The connection fails or the client's ten minutes pass: the handler gives *)
(* up and the gate stays pending; a mission that has begun goes on.         *)
SettlementLost(h) ==
    /\ handler[h].at \in {"settling", "running"}
    /\ fault(handler[h].a)
    /\ handler' = [handler EXCEPT ![h] = Free]
    /\ UNCHANGED <<mode, now, store, rate, upload, held, released, by, updates>>

(* settleTradeTicket(): nominate, then close the book.  Either may fail,    *)
(* and the failure becomes the text that is sent.                           *)
Nominate(h) ==
    /\ handler[h].at = "nominating"
    /\ \/ /\ carriedOut(h)
          /\ handler' = [handler EXCEPT ![h].at = "closing"]
          /\ UNCHANGED <<disturbed, faults>>
       \/ /\ fault(handler[h].a)
          /\ handler' = [handler EXCEPT ![h].at = "sending"]
          /\ carriedOut(h) \/ UNCHANGED <<released, by>>
    /\ UNCHANGED <<mode, now, store, rate, upload, held, updates>>

SettleBook(h) ==
    /\ handler[h].at = "closing"
    /\ handler' = [handler EXCEPT ![h].at = "sending"]
    /\ UNCHANGED <<mode, now, store, rate, upload, held, released, by, disturbed, updates, faults>>

(* The text is delivered, which for a query is the release, and the gate is *)
(* closed in the same turn.                                                 *)
Sent(h) ==
    LET a == handler[h].a
        decision == IF handler[h].op = "approve" THEN "approved" ELSE "rejected"
    IN  /\ handler[h].at = "sending"
        /\ IF store[a].kind = "query" THEN carriedOut(h) ELSE UNCHANGED <<released, by>>
        /\ store' = settleApproval(store, a, decision)
        /\ handler' = [handler EXCEPT ![h] = Free]
        /\ UNCHANGED <<mode, now, rate, upload, held, disturbed, updates, faults>>

(* Mutant: the gate is closed whether or not the answer went out. *)
closesUnsent_Always(op) == TRUE

(* A rejected trade is closed even if the notice was not delivered.         *)
closesUnsent(op) == op = "reject"

SendFails(h) ==
    LET a == handler[h].a
    IN  /\ handler[h].at = "sending"
        /\ fault(a)
        /\ store' = IF closesUnsent(handler[h].op)
                    THEN settleApproval(store, a, IF handler[h].op = "approve" THEN "approved" ELSE "rejected")
                    ELSE store
        /\ handler' = [handler EXCEPT ![h] = Free]
        /\ UNCHANGED <<mode, now, rate, upload, held, released, by, updates>>

----------------------------------------------------------------------------
(* stop(), start(): what the bridge had in memory is gone.                  *)
Restart ==
    /\ faults < MaxFaults
    /\ faults' = faults + 1
    /\ store' = [a \in DOMAIN store |-> [store[a] EXCEPT !.status = "gone"]]
    /\ handler' = [h \in Handlers |-> Free]
    /\ rate' = [u \in Users |-> 0]
    /\ upload' = [u \in Users |-> None]
    /\ UNCHANGED <<mode, now, held, released, by, disturbed, updates>>

RuntimeRestarts ==
    /\ faults < MaxFaults
    /\ faults' = faults + 1
    /\ held' = [a \in Ids |-> IF held[a].state = "held" THEN NoHold ELSE held[a]]
    /\ UNCHANGED <<mode, now, store, handler, rate, upload, released, by, disturbed, updates>>

(* The timer of the polling mode.                                           *)
Prune ==
    /\ mode = "polling"
    /\ store' = pruneApprovals(store)
    /\ UNCHANGED <<mode, now, handler, rate, upload, held, released, by, disturbed, updates, faults>>

(* A minute and more: the rate windows are over.                            *)
Tick ==
    /\ now < MaxClock
    /\ now' = now + 1
    /\ rate' = [u \in Users |-> 0]
    /\ UNCHANGED <<mode, store, handler, upload, held, released, by, disturbed, updates, faults>>

Update(h, u) ==
    \/ Refused(h, u) \/ cmdUploadCase(h, u) \/ cmdPending(h, u)
    \/ \E kind \in {"query", "mission", "trade"} : Ask(h, u, kind)
    \/ \E document \in BOOLEAN : Plain(h, u, document)
    \/ \E a \in {None} \cup Ids, decision \in {"approve", "reject"} : cmdSettle(h, u, a, decision)
    \/ \E a \in Ids, decision \in {"approve", "reject"} : handleCallbackQuery(h, u, a, decision)

Step(h) ==
    \/ Uploaded(h) \/ Answered(h) \/ RuntimeSettles(h) \/ MissionEnds(h) \/ SettlementLost(h)
    \/ Nominate(h) \/ SettleBook(h) \/ Sent(h) \/ SendFails(h)

Next ==
    \/ \E h \in Handlers : Step(h) \/ \E u \in Users : Update(h, u)
    \/ Restart \/ RuntimeRestarts \/ Prune \/ Tick

Spec == Init /\ [][Next]_vars

----------------------------------------------------------------------------
(* A mission is run at most once for its approval, whatever is pressed,     *)
(* retried, lost or restarted: the runtime forgets the record before it     *)
(* runs (approval-settlement.ts, routes.ts).                                *)
MissionRunsOnce ==
    \A a \in DOMAIN store : store[a].kind = "mission" => released[a] <= 1

(* What the bridge reports as approved has been carried out, except a trade *)
(* whose nomination failed: its error is sent as the answer (bot.ts,        *)
(* doApprove and completeApproved).                                         *)
ApprovedWasDone ==
    \A a \in DOMAIN store :
        store[a].status = "approved" =>
            released[a] >= 1 \/ (store[a].kind = "trade" /\ a \in disturbed)

(* Everything released was commanded by users entitled to release it: an    *)
(* approver, and for a trade a co-signer of trades (roles.ts).              *)
ReleasedByApprover ==
    \A a \in DOMAIN store :
        /\ by[a] \subseteq ApproverIds
        /\ store[a].kind = "trade" =>
               \A u \in by[a] : RoleMap[u] = "sovereign"
                                /\ (TradingApprovers = {} \/ u \in TradingApprovers)
=============================================================================
