------------------------- MODULE TelegramBotProofs -------------------------
(***************************************************************************)
(* Proofs about TelegramBot, for any number of users, handlers, approvals  *)
(* and faults: a mission runs once, what is reported as approved was done, *)
(* and only by those entitled to it.                                       *)
(*                                                                         *)
(* An approval is looked at before an await and settled after it, and two  *)
(* handlers may be past the look at the same approval.  The invariant      *)
(* therefore says of each handler what it has established about the        *)
(* approval it works on (WorkOk), which no step of another one takes back. *)
(***************************************************************************)
EXTENDS TelegramBot, SequenceTheorems, WellFoundedInduction, TLAPS

Kinds == {"query", "mission", "trade"}

Approval ==
    [kind : Kinds, requester : Users,
     status : {"pending", "approved", "rejected", "expired", "gone"},
     created : Nat, expires : Nat]

(* The places of a handler that settles an approval.                        *)
Working == {"sending", "settling", "running", "nominating", "closing"}

Work == [at : {"idle", "asking", "uploading"} \cup Working,
         op : {"none", "case", "approve", "reject"} \cup Kinds,
         user : Users \cup {"none"}, a : Nat]

Hold == [state : {"none", "held", "run", "rejected", "expired"}, expires : Nat]

Typed ==
    /\ now \in Nat
    /\ store \in Seq(Approval) /\ Len(store) <= MaxApprovals
    /\ handler \in [Handlers -> Work]
    /\ held \in [Ids -> Hold]
    /\ released \in [Ids -> Nat]
    /\ by \in [Ids -> SUBSET Users]

(* What the approval gates was carried out, or its nomination failed.       *)
Done(a) == released[a] >= 1 \/ (store[a].kind = "trade" /\ a \in disturbed)

(* What a handler at work knows of its approval.                            *)
WorkOk(h) ==
    LET a == handler[h].a
        at == handler[h].at
        approving == handler[h].op = "approve"
    IN  /\ at = "asking" => handler[h].op \in Kinds /\ handler[h].user \in Users
        /\ at \in Working =>
              /\ a \in 1 .. Len(store)
              /\ handler[h].user \in Users
              /\ handler[h].op \in {"approve", "reject"}
              /\ approving => mayApprove(handler[h].user, store[a].kind)
        /\ at \in {"settling", "running"} => store[a].kind = "mission"
        /\ at \in {"nominating", "closing"} => store[a].kind = "trade"
        /\ at \in {"running", "nominating", "closing"} => approving
        /\ at \in {"running", "closing"} => released[a] >= 1
        /\ at = "sending" /\ store[a].kind = "query" => approving
        /\ at = "sending" /\ approving => store[a].kind = "query" \/ Done(a)

(* The runtime's record counts the runs of a mission.                       *)
ApprovalOk(a) ==
    /\ store[a].kind = "mission" => released[a] = IF held[a].state = "run" THEN 1 ELSE 0
    /\ store[a].status = "approved" => Done(a)
    /\ \A u \in by[a] : mayApprove(u, store[a].kind)

(* Nothing was done under an approval that does not exist yet.              *)
Unused == \A a \in Ids : a > Len(store) => released[a] = 0 /\ by[a] = {}

(* The inductive invariant.                                                 *)
Inv ==
    /\ Typed
    /\ \A h \in Handlers : WorkOk(h)
    /\ \A a \in 1 .. Len(store) : ApprovalOk(a)
    /\ Unused

----------------------------------------------------------------------------
(* The approval store.                                                      *)

(* t is s, possibly with approvals added and others marked.                 *)
Alike(s, t) ==
    /\ t \in Seq(Approval) /\ Len(t) >= Len(s)
    /\ \A a \in 1 .. Len(s) : t[a].kind = s[a].kind

(* No approval of s is approved in t that was not.                          *)
NoneApproved(s, t) ==
    Len(t) = Len(s) /\ \A a \in 1 .. Len(s) : t[a].status = "approved" => s[a].status = "approved"

(* Approvals that are marked one by one.                                    *)
LEMMA Marked ==
    ASSUME NEW s \in Seq(Approval), NEW t, DOMAIN t = DOMAIN s,
           t = [a \in DOMAIN s |-> t[a]],
           \A a \in DOMAIN s : /\ t[a] \in Approval /\ t[a].kind = s[a].kind
                               /\ t[a].status = "approved" => s[a].status = "approved"
    PROVE  Alike(s, t) /\ NoneApproved(s, t)
  <1>1. DOMAIN s = 1 .. Len(s) /\ Len(s) \in Nat
    OBVIOUS
  <1>2. t \in [1 .. Len(s) -> Approval]
    BY <1>1
  <1>3. t \in Seq(Approval) /\ Len(t) = Len(s)
    BY <1>1, <1>2
  <1>4. QED
    BY <1>1, <1>3 DEF Alike, NoneApproved

LEMMA LazyMarks ==
    ASSUME NEW s \in Seq(Approval)
    PROVE  /\ Alike(s, lazilyExpired(s)) /\ NoneApproved(s, lazilyExpired(s))
           /\ \A a \in 1 .. Len(s) :
                 lazilyExpired(s)[a].status = "pending" => s[a].status = "pending"
  <1>1. /\ DOMAIN lazilyExpired(s) = DOMAIN s
        /\ lazilyExpired(s) = [a \in DOMAIN s |-> lazilyExpired(s)[a]]
    BY DEF lazilyExpired
  <1>2. ASSUME NEW a \in DOMAIN s
        PROVE  /\ lazilyExpired(s)[a] \in Approval /\ lazilyExpired(s)[a].kind = s[a].kind
               /\ lazilyExpired(s)[a].status \in {s[a].status, "expired"}
    <2>1. s[a] \in Approval
      OBVIOUS
    <2>2. QED
      BY <2>1 DEF lazilyExpired, Approval
  <1>3. \A a \in DOMAIN s : lazilyExpired(s)[a].status = "approved" => s[a].status = "approved"
    BY <1>2
  <1>4. Alike(s, lazilyExpired(s)) /\ NoneApproved(s, lazilyExpired(s))
    BY <1>1, <1>2, <1>3, Marked
  <1>5. QED
    BY <1>2, <1>4

LEMMA PruneMarks ==
    ASSUME NEW s \in Seq(Approval)
    PROVE  Alike(s, pruneApprovals(s)) /\ NoneApproved(s, pruneApprovals(s))
  <1>1. /\ DOMAIN pruneApprovals(s) = DOMAIN s
        /\ pruneApprovals(s) = [a \in DOMAIN s |-> pruneApprovals(s)[a]]
    BY DEF pruneApprovals
  <1>2. ASSUME NEW a \in DOMAIN s
        PROVE  /\ pruneApprovals(s)[a] \in Approval /\ pruneApprovals(s)[a].kind = s[a].kind
               /\ pruneApprovals(s)[a].status \in {s[a].status, "gone"}
    <2>1. s[a] \in Approval
      OBVIOUS
    <2>2. QED
      BY <2>1 DEF pruneApprovals, Approval
  <1>3. \A a \in DOMAIN s : pruneApprovals(s)[a].status = "approved" => s[a].status = "approved"
    BY <1>2
  <1>4. QED
    BY <1>1, <1>2, <1>3, Marked

(* A settlement marks one approval, and only a pending one.                 *)
LEMMA SettleMarks ==
    ASSUME NEW s \in Seq(Approval), NEW a \in 1 .. Len(s),
           NEW decision \in {"approved", "rejected"}
    PROVE  /\ Alike(s, settleApproval(s, a, decision))
           /\ Len(settleApproval(s, a, decision)) = Len(s)
           /\ \A b \in 1 .. Len(s) :
                 settleApproval(s, a, decision)[b].status = "approved" =>
                     s[b].status = "approved" \/ (b = a /\ decision = "approved")
           /\ decision = "rejected" => NoneApproved(s, settleApproval(s, a, decision))
  <1> DEFINE t == settleApproval(s, a, decision)
  <1>1. DOMAIN s = 1 .. Len(s) /\ Len(s) \in Nat /\ s[a] \in Approval
    OBVIOUS
  <1>2. /\ DOMAIN t = DOMAIN s /\ t = [b \in DOMAIN s |-> t[b]]
        /\ \A b \in DOMAIN s : b # a => t[b] = s[b]
    BY DEF settleApproval
  <1>3. \E st \in {s[a].status, "expired", decision} : t[a] = [s[a] EXCEPT !.status = st]
    BY <1>1 DEF settleApproval
  <1>4. /\ t[a] \in Approval /\ t[a].kind = s[a].kind
        /\ t[a].status \in {s[a].status, "expired", decision}
    BY <1>1, <1>3 DEF Approval
  <1> HIDE DEF t
  <1>5. \A b \in DOMAIN s : t[b] \in Approval /\ t[b].kind = s[b].kind
    BY <1>1, <1>2, <1>4
  <1>6. t \in [1 .. Len(s) -> Approval]
    BY <1>1, <1>2, <1>5
  <1>7. t \in Seq(Approval) /\ Len(t) = Len(s)
    BY <1>1, <1>6
  <1>8. \A b \in 1 .. Len(s) : t[b].status = "approved" =>
            s[b].status = "approved" \/ (b = a /\ decision = "approved")
    BY <1>1, <1>2, <1>4
  <1>9. Alike(s, t)
    BY <1>1, <1>5, <1>7 DEF Alike
  <1>10. decision = "rejected" => NoneApproved(s, t)
    BY <1>7, <1>8 DEF NoneApproved
  <1>11. QED
    BY <1>7, <1>8, <1>9, <1>10 DEF t

(* The latest pending approval exists.                                      *)
LEMMA Greatest ==
    ASSUME NEW n \in Nat, NEW S \in SUBSET (1 .. n), S # {}
    PROVE  Max(S) \in S
  <1> DEFINE R == OpToRel(<, Nat)
             T == {k \in Nat : n - k \in S}
  <1>1. IsWellFoundedOn(R, Nat)
    BY NatLessThanWellFounded
  <1>2. \A m, k \in Nat : m < k => <<m, k>> \in R
    BY DEF OpToRel
  <1>3. \A x \in S : x \in Nat /\ n - x \in T
    OBVIOUS
  <1>4. T \in SUBSET Nat /\ T # {}
    BY <1>3
  <1> HIDE DEF R
  <1>5. PICK k \in T : \A m \in T : <<m, k>> \notin R
    BY <1>1, <1>4, WFMin
  <1>6. \A m \in T : ~(m < k)
    BY <1>2, <1>4, <1>5, Zenon
  <1>7. n - k \in S /\ k \in Nat
    BY <1>5
  <1>8. \A y \in S : n - k >= y
    BY <1>3, <1>6, <1>7
  <1>9. \E x \in S : \A y \in S : x >= y
    BY <1>7, <1>8
  <1>10. QED
    BY <1>9, Zenon DEF Max

(* A lookup finds an approval that exists, or nothing.                      *)
LEMMA Lookup ==
    ASSUME Typed, NEW a
    PROVE  /\ lookup(a) = None \/ lookup(a) \in 1 .. Len(store)
           /\ Alike(store, afterLookup(a)) /\ NoneApproved(store, afterLookup(a))
  <1> DEFINE s == lazilyExpired(store)
  <1>1. store \in Seq(Approval) /\ DOMAIN store = 1 .. Len(store) /\ Len(store) \in Nat
    BY DEF Typed
  <1>2. DOMAIN s = 1 .. Len(store)
    BY <1>1 DEF lazilyExpired
  <1>3. pendingIn(s) \in SUBSET (1 .. Len(store))
    BY <1>2 DEF pendingIn
  <1>4. pendingIn(s) # {} => Max(pendingIn(s)) \in 1 .. Len(store)
    BY <1>1, <1>3, Greatest
  <1>5. findLatestPending(store) = None \/ findLatestPending(store) \in 1 .. Len(store)
    BY <1>4 DEF findLatestPending
  <1>6. lookup(a) = None \/ lookup(a) \in 1 .. Len(store)
    BY <1>1, <1>5 DEF lookup
  <1>7. Alike(store, store) /\ NoneApproved(store, store)
    BY <1>1 DEF Alike, NoneApproved
  <1>8. QED
    BY <1>1, <1>6, <1>7, LazyMarks DEF afterLookup

----------------------------------------------------------------------------
(* What another handler established stays true.                             *)

Grows ==
    /\ \A a \in Ids : released'[a] \in Nat /\ released'[a] >= released[a]
    /\ disturbed \subseteq disturbed'

LEMMA KeepsWork ==
    ASSUME Inv, NEW h \in Handlers, handler'[h] = handler[h], Alike(store, store'), Grows
    PROVE  WorkOk(h)'
  <1>1. WorkOk(h) /\ Typed
    BY DEF Inv
  <1>2. CASE handler[h].at \notin Working
    BY <1>1, <1>2 DEF WorkOk, Working
  <1>3. CASE handler[h].at \in Working
    <2> DEFINE a == handler[h].a
    <2>1. a \in 1 .. Len(store) /\ Len(store) \in Nat /\ a \in Ids
      BY <1>1, <1>3, TelegramAssumption DEF WorkOk, Typed, Ids
    <2>2. store'[a].kind = store[a].kind /\ a \in 1 .. Len(store')
      BY <2>1 DEF Alike
    <2>3. released[a] >= 1 => released'[a] >= 1
      <3>1. /\ released[a] \in Nat /\ released'[a] \in Nat
            /\ released'[a] >= released[a]
        BY <1>1, <2>1 DEF Typed, Grows
      <3>2. QED
        BY <3>1
    <2>4. a \in disturbed => a \in disturbed'
      BY DEF Grows
    <2>5. Done(a) => (released'[a] >= 1 \/ (store'[a].kind = "trade" /\ a \in disturbed'))
      BY <2>2, <2>3, <2>4, Zenon DEF Done
    <2>6. QED
      BY <1>1, <1>3, <2>1, <2>2, <2>3, <2>5, Zenon DEF WorkOk, Done
  <1>4. QED
    BY <1>2, <1>3

(* A step under which nothing is carried out: the store and the handlers    *)
(* may change.                                                              *)
LEMMA QuietStep ==
    ASSUME Inv, UNCHANGED <<released, by, held>>, disturbed \subseteq disturbed', now' \in Nat,
           Alike(store, store'), Len(store') = Len(store),
           \A a \in 1 .. Len(store) :
              store'[a].status = "approved" => store[a].status = "approved" \/ Done(a),
           handler' \in [Handlers -> Work],
           \A h \in Handlers : handler'[h] = handler[h] \/ WorkOk(h)'
    PROVE  Inv'
  <1>1. Typed /\ Len(store) \in Nat /\ 1 .. Len(store) \subseteq Ids
    BY TelegramAssumption DEF Inv, Typed, Ids
  <1>2. Typed'
    BY <1>1 DEF Typed, Alike
  <1>3. Grows
    BY <1>1 DEF Grows, Typed
  <1>4. \A h \in Handlers : WorkOk(h)'
    BY <1>3, KeepsWork
  <1>5. ASSUME NEW a \in 1 .. Len(store) PROVE ApprovalOk(a)'
    <2>1. ApprovalOk(a) /\ store'[a].kind = store[a].kind
      BY DEF Inv, Alike
    <2>2. Done(a) => Done(a)'
      BY <2>1 DEF Done
    <2>3. QED
      BY <2>1, <2>2 DEF ApprovalOk
  <1>6. Unused'
    BY DEF Inv, Unused
  <1>7. QED
    BY <1>2, <1>4, <1>5, <1>6 DEF Inv

(* A step that leaves the store alone as well.                              *)
LEMMA HandlerStep ==
    ASSUME Inv, UNCHANGED <<released, by, held, store>>, disturbed \subseteq disturbed',
           now' \in Nat, handler' \in [Handlers -> Work],
           \A h \in Handlers : handler'[h] = handler[h] \/ WorkOk(h)'
    PROVE  Inv'
  <1>1. store \in Seq(Approval)
    BY DEF Inv, Typed
  <1>2. Alike(store, store') /\ Len(store') = Len(store)
    BY <1>1 DEF Alike
  <1>3. QED
    BY <1>2, QuietStep

(* A handler that takes no approval has nothing to show.                    *)
LEMMA Idles ==
    ASSUME Inv, NEW h \in Handlers, NEW w \in Work, w.at \notin Working,
           w.at = "asking" => w.op \in Kinds /\ w.user \in Users,
           handler' = [handler EXCEPT ![h] = w]
    PROVE  /\ handler' \in [Handlers -> Work] /\ WorkOk(h)'
           /\ \A g \in Handlers : handler'[g] = handler[g] \/ WorkOk(g)'
  <1>1. handler \in [Handlers -> Work]
    BY DEF Inv, Typed
  <1>2. handler' \in [Handlers -> Work] /\ handler'[h] = w
        /\ \A g \in Handlers : g # h => handler'[g] = handler[g]
    BY <1>1
  <1>3. WorkOk(h)'
    BY <1>2 DEF WorkOk, Working
  <1>4. QED
    BY <1>2, <1>3

LEMMA FreeIsWork == Free \in Work /\ Free.at = "idle"
  BY DEF Free, Work, None

LEMMA InitInv == Init => Inv
  <1> SUFFICES ASSUME Init PROVE Inv
    OBVIOUS
  <1>1. Typed
    <2>1. NoHold \in Hold
      BY DEF NoHold, Hold
    <2>2. store = <<>> /\ store \in Seq(Approval) /\ Len(store) = 0
      BY DEF Init
    <2>3. QED
      BY <2>1, <2>2, FreeIsWork, TelegramAssumption DEF Init, Typed
  <1>2. ASSUME NEW h \in Handlers PROVE WorkOk(h)
    BY FreeIsWork DEF Init, WorkOk, Working
  <1>3. Len(store) = 0
    BY DEF Init
  <1>4. Unused
    BY DEF Init, Unused
  <1>5. QED
    BY <1>1, <1>2, <1>3, <1>4 DEF Inv

----------------------------------------------------------------------------
(* Updates up to their first await.                                         *)

LEMMA UserTypes ==
    /\ ApproverIds \subseteq Users /\ Allowed \subseteq Users
    /\ MaxApprovals \in Nat /\ RuntimeTtl \in Nat /\ ApprovalTtl \in Nat
  BY TelegramAssumption

(* An approver's command leaves a handler that knows its approval.          *)
LEMMA SettlesWell ==
    ASSUME Inv, NEW h \in Handlers, NEW u \in ApproverIds, NEW a \in Nat,
           NEW decision \in {"approve", "reject"}, settles(h, u, a, decision),
           UNCHANGED released
    PROVE  /\ Alike(store, store') /\ NoneApproved(store, store')
           /\ handler' \in [Handlers -> Work]
           /\ \A g \in Handlers : handler'[g] = handler[g] \/ WorkOk(g)'
  <1> DEFINE found == lookup(a)
             kind == store[found].kind
  <1>1. Typed /\ store \in Seq(Approval) /\ handler \in [Handlers -> Work] /\ Len(store) \in Nat
    BY DEF Inv, Typed
  <1>2. /\ found = None \/ found \in 1 .. Len(store)
        /\ Alike(store, afterLookup(a)) /\ NoneApproved(store, afterLookup(a))
    BY <1>1, Lookup
  <1>3. ASSUME found # None PROVE kind \in Kinds /\ found \in Nat
    <2>1. found \in 1 .. Len(store)
      BY <1>2, <1>3
    <2>2. store[found] \in Approval /\ found \in Nat
      BY <1>1, <2>1
    <2>3. QED
      BY <2>2 DEF Approval
  <1> HIDE DEF found
  <1>4. ASSUME NEW at \in Working \ {"running", "closing"}, NEW op \in {"approve", "reject"},
               store' = afterLookup(a), found # None, handles(h, at, op, u, found),
               op = "approve" => mayApprove(u, kind),
               at = "settling" => kind = "mission",
               at = "nominating" => kind = "trade" /\ op = "approve",
               at = "sending" => kind = IF op = "approve" THEN "query" ELSE "trade"
        PROVE  /\ Alike(store, store') /\ NoneApproved(store, store')
               /\ handler' \in [Handlers -> Work]
               /\ \A g \in Handlers : handler'[g] = handler[g] \/ WorkOk(g)'
    <2> DEFINE w == [at |-> at, op |-> op, user |-> u, a |-> found]
    <2>1. w \in Work
      BY <1>3, <1>4, UserTypes DEF Work, Working
    <2>2. handler' \in [Handlers -> Work] /\ handler'[h] = w
          /\ \A g \in Handlers : g # h => handler'[g] = handler[g]
      BY <1>1, <1>4, <2>1 DEF handles
    <2>3. /\ store' = afterLookup(a) /\ found \in 1 .. Len(store)
          /\ found \in 1 .. Len(store') /\ store'[found].kind = kind
      BY <1>1, <1>2, <1>4 DEF Alike
    <2>4. /\ handler'[h].at = at /\ handler'[h].op = op /\ handler'[h].user = u
          /\ handler'[h].a = found
      BY <2>2
    <2>5. u \in Users
      BY UserTypes
    <2> HIDE DEF w, kind
    <2>6. WorkOk(h)'
      BY <1>4, <2>3, <2>4, <2>5 DEF WorkOk, Working
    <2>7. QED
      BY <1>2, <1>4, <2>2, <2>6
  <1>5. CASE handler' = handler /\ store' = afterLookup(a)
    BY <1>1, <1>2, <1>5
  <1>6. CASE decision = "approve"
    <2>1. doApprove(h, u, a)
      BY <1>6 DEF settles
    <2>2. CASE found # None /\ store[found].status = "pending" /\ mayApprove(u, kind)
      <3> DEFINE at == CASE kind = "query" -> "sending"
                         [] kind = "mission" -> "settling"
                         [] OTHER -> "nominating"
      <3>1. store' = afterLookup(a) /\ handles(h, at, "approve", u, found)
        BY <2>1, <2>2 DEF doApprove, found
      <3>2. CASE kind = "query"
        <4>1. at = "sending"
          BY <3>2
        <4>2. QED
          BY <1>4, <2>2, <3>1, <3>2, <4>1 DEF Working
      <3>3. CASE kind = "mission"
        <4>1. at = "settling"
          BY <3>3
        <4>2. QED
          BY <1>4, <2>2, <3>1, <3>3, <4>1 DEF Working
      <3>4. CASE kind = "trade"
        <4>1. at = "nominating"
          BY <3>4
        <4>2. QED
          BY <1>4, <2>2, <3>1, <3>4, <4>1 DEF Working
      <3>5. QED
        BY <1>3, <2>2, <3>2, <3>3, <3>4 DEF Kinds
    <2>3. CASE ~(found # None /\ store[found].status = "pending" /\ mayApprove(u, kind))
      BY <1>5, <2>1, <2>3 DEF doApprove, found
    <2>4. QED
      BY <2>2, <2>3
  <1>7. CASE decision = "reject"
    <2>1. doReject(h, u, a)
      BY <1>7 DEF settles
    <2>2. CASE found = None \/ store[found].status # "pending"
      BY <1>5, <2>1, <2>2 DEF doReject, found
    <2>3. CASE found # None /\ store[found].status = "pending" /\ kind = "query"
      <3>1. store' = settleApproval(afterLookup(a), found, "rejected") /\ handler' = handler
        BY <2>1, <2>3 DEF doReject, found
      <3>2. afterLookup(a) \in Seq(Approval) /\ Len(afterLookup(a)) = Len(store)
        BY <1>2 DEF Alike, NoneApproved
      <3>3. found \in 1 .. Len(afterLookup(a))
        BY <1>2, <2>3, <3>2
      <3>4. Alike(afterLookup(a), store') /\ NoneApproved(afterLookup(a), store')
        BY <3>1, <3>2, <3>3, SettleMarks
      <3>5. Alike(store, store') /\ NoneApproved(store, store')
        BY <1>2, <3>2, <3>4 DEF Alike, NoneApproved
      <3>6. QED
        BY <1>1, <3>1, <3>5
    <2>4. CASE found # None /\ store[found].status = "pending" /\ kind # "query"
      <3>1. /\ store' = afterLookup(a)
            /\ handles(h, IF kind = "trade" THEN "sending" ELSE "settling", "reject", u, found)
        BY <2>1, <2>4 DEF doReject, found
      <3>2. CASE kind = "trade"
        <4>1. handles(h, "sending", "reject", u, found)
          BY <3>1, <3>2
        <4>2. QED
          BY <1>4, <2>4, <3>1, <3>2, <4>1 DEF Working
      <3>3. CASE kind = "mission"
        <4>1. handles(h, "settling", "reject", u, found)
          BY <3>1, <3>3
        <4>2. QED
          BY <1>4, <2>4, <3>1, <3>3, <4>1 DEF Working
      <3>4. QED
        BY <1>3, <2>4, <3>2, <3>3 DEF Kinds
    <2>5. QED
      BY <2>2, <2>3, <2>4
  <1>8. QED
    BY <1>6, <1>7

LEMMA UpdateInv ==
    ASSUME Inv, NEW h \in Handlers, NEW u \in Users, Update(h, u)
    PROVE  Inv'
  <1>1. /\ Typed /\ now \in Nat /\ handler \in [Handlers -> Work] /\ store \in Seq(Approval)
        /\ Alike(store, store) /\ NoneApproved(store, store)
    BY DEF Inv, Typed, Alike, NoneApproved
  <1>2. CASE Refused(h, u) \/ cmdUploadCase(h, u)
    <2>1. UNCHANGED <<now, store, handler, held, released, by, disturbed>>
      BY <1>2 DEF Refused, cmdUploadCase
    <2>2. QED
      BY <1>1, <2>1, HandlerStep
  <1>3. CASE cmdPending(h, u)
    <2>1. /\ UNCHANGED <<now, handler, held, released, by, disturbed>>
          /\ store' = lazilyExpired(store)
      BY <1>3 DEF cmdPending
    <2>2. Alike(store, store') /\ NoneApproved(store, store')
      BY <1>1, <2>1, LazyMarks
    <2>3. QED
      BY <1>1, <2>1, <2>2, QuietStep DEF NoneApproved
  <1>4. ASSUME NEW at \in {"asking", "uploading"}, NEW op \in Kinds \cup {"case"},
               at = "asking" => op \in Kinds, handles(h, at, op, u, None),
               UNCHANGED <<now, store, held, released, by, disturbed>>
        PROVE  Inv'
    <2> DEFINE w == [at |-> at, op |-> op, user |-> u, a |-> None]
    <2>1. w \in Work /\ w.at \notin Working /\ w.user = u /\ w.op = op /\ w.at = at
      BY DEF Work, Working, None
    <2>2. handler' = [handler EXCEPT ![h] = w]
      BY <1>4 DEF handles
    <2> HIDE DEF w
    <2>3. /\ handler' \in [Handlers -> Work]
          /\ \A g \in Handlers : handler'[g] = handler[g] \/ WorkOk(g)'
      BY <1>4, <2>1, <2>2, Idles
    <2>4. QED
      BY <1>1, <1>4, <2>3, HandlerStep
  <1>5. ASSUME NEW kind \in Kinds, Ask(h, u, kind) PROVE Inv'
    <2>1. /\ UNCHANGED <<now, store, held, released, by, disturbed>>
          /\ handler' = handler \/ handles(h, "asking", kind, u, None)
      BY <1>5 DEF Ask
    <2>2. CASE handler' = handler
      BY <1>1, <2>1, <2>2, HandlerStep
    <2>3. QED
      BY <1>4, <2>1, <2>2
  <1>6. ASSUME NEW document \in BOOLEAN, Plain(h, u, document) PROVE Inv'
    <2>1. /\ UNCHANGED <<now, store, held, released, by, disturbed>>
          /\ \/ handler' = handler
             \/ handles(h, "uploading", "case", u, None)
             \/ handles(h, "asking", "query", u, None)
      BY <1>6 DEF Plain
    <2>2. CASE handler' = handler
      BY <1>1, <2>1, <2>2, HandlerStep
    <2>3. QED
      BY <1>4, <2>1, <2>2 DEF Kinds
  <1>7. ASSUME NEW a \in Nat, NEW decision \in {"approve", "reject"}, u \in ApproverIds,
               settles(h, u, a, decision), UNCHANGED <<now, held, released, by, disturbed>>
        PROVE  Inv'
    <2>1. /\ Alike(store, store') /\ NoneApproved(store, store')
          /\ handler' \in [Handlers -> Work]
          /\ \A g \in Handlers : handler'[g] = handler[g] \/ WorkOk(g)'
      BY <1>7, SettlesWell
    <2>2. QED
      BY <1>1, <1>7, <2>1, QuietStep DEF NoneApproved
  <1>8. ASSUME NEW a \in {None} \cup Ids, NEW decision \in {"approve", "reject"},
               cmdSettle(h, u, a, decision) \/ handleCallbackQuery(h, u, a, decision)
        PROVE  Inv'
    <2>1. a \in Nat
      BY DEF None, Ids
    <2>2. /\ UNCHANGED <<now, held, released, by, disturbed>>
          /\ \/ u \in ApproverIds /\ settles(h, u, a, decision)
             \/ UNCHANGED <<store, handler>>
      BY <1>8 DEF cmdSettle, handleCallbackQuery
    <2>3. CASE UNCHANGED <<store, handler>>
      BY <1>1, <2>2, <2>3, HandlerStep
    <2>4. QED
      BY <1>7, <2>1, <2>2, <2>3
  <1>9. QED
    BY <1>2, <1>3, <1>5, <1>6, <1>8 DEF Update, Kinds

----------------------------------------------------------------------------
(* The steps of a handler.                                                  *)

(* A handler that ends.                                                     *)
LEMMA Frees ==
    ASSUME Inv, NEW h \in Handlers, handler' = [handler EXCEPT ![h] = Free]
    PROVE  /\ handler' \in [Handlers -> Work] /\ WorkOk(h)'
           /\ \A g \in Handlers : handler'[g] = handler[g] \/ WorkOk(g)'
  BY FreeIsWork, Idles DEF Working

LEMMA AnsweredInv ==
    ASSUME Inv, NEW h \in Handlers, Answered(h)
    PROVE  Inv'
  <1> DEFINE kind == handler[h].op
             n == Len(store) + 1
             r == [kind |-> kind, requester |-> handler[h].user, status |-> "pending",
                   created |-> now, expires |-> now + ApprovalTtl]
  <1>1. /\ Typed /\ now \in Nat /\ store \in Seq(Approval) /\ Len(store) \in Nat
        /\ held \in [Ids -> Hold] /\ released \in [Ids -> Nat]
    BY DEF Inv, Typed
  <1>2. /\ handler' \in [Handlers -> Work] /\ WorkOk(h)'
        /\ \A g \in Handlers : g # h => handler'[g] = handler[g]
    <2>1. handler' = [handler EXCEPT ![h] = Free] /\ handler \in [Handlers -> Work]
      BY <1>1 DEF Answered, Typed
    <2>2. QED
      BY <2>1, Frees
  <1>3. UNCHANGED <<now, released, by, disturbed>>
    BY DEF Answered
  <1>4. CASE UNCHANGED <<store, held>>
    BY <1>1, <1>2, <1>3, <1>4, HandlerStep
  <1>5. CASE /\ Len(store) < MaxApprovals
             /\ createApproval(kind, handler[h].user)
             /\ held' = [held EXCEPT ![n] = IF kind # "mission" THEN @
                                            ELSE [state |-> "held", expires |-> now + RuntimeTtl]]
    <2>1. kind \in Kinds /\ handler[h].user \in Users
      BY DEF Inv, WorkOk, Answered
    <2>2. r \in Approval /\ r.kind = kind /\ r.status = "pending"
      BY <1>1, <2>1, UserTypes DEF Approval
    <2>3. store' = Append(store, r)
      BY <1>5 DEF createApproval
    <2> HIDE DEF r
    <2>4. /\ store' \in Seq(Approval) /\ Len(store') = n
          /\ \A a \in 1 .. Len(store) : store'[a] = store[a]
          /\ store'[n] = r
      BY <1>1, <2>2, <2>3
    <2>5. n \in Ids /\ n \in Nat
      BY <1>1, <1>5, UserTypes DEF Ids
    <2>6. /\ held' \in [Ids -> Hold]
          /\ \A a \in Ids : a # n => held'[a] = held[a]
          /\ kind = "mission" => held'[n].state = "held"
      BY <1>1, <1>5, <2>5, UserTypes DEF Hold
    <2>7. Typed'
      BY <1>1, <1>2, <1>3, <1>5, <2>4, <2>5, <2>6, UserTypes DEF Typed
    <2>8. Alike(store, store') /\ Grows
      BY <1>1, <1>3, <2>4 DEF Alike, Grows
    <2>9. ASSUME NEW g \in Handlers PROVE WorkOk(g)'
      BY <1>2, <2>8, KeepsWork
    <2>10. ASSUME NEW a \in 1 .. Len(store) PROVE ApprovalOk(a)'
      <3>1. a \in Ids /\ a # n
        BY <1>1, <1>5, UserTypes DEF Ids
      <3>2. store'[a] = store[a] /\ held'[a] = held[a]
        BY <2>4, <2>6, <3>1
      <3>3. QED
        BY <1>3, <3>2 DEF Inv, ApprovalOk, Done
    <2>11. ASSUME NEW a \in Ids, a = n PROVE ApprovalOk(a)'
      <3>1. released[a] = 0 /\ by[a] = {}
        BY <1>1, <2>5, <2>11 DEF Inv, Unused
      <3>2. store'[a].kind = kind /\ store'[a].status = "pending"
        BY <2>2, <2>4, <2>11
      <3>3. kind = "mission" => held'[a].state = "held"
        BY <2>6, <2>11
      <3>4. QED
        BY <1>3, <3>1, <3>2, <3>3 DEF ApprovalOk
    <2>12. Unused'
      BY <1>1, <1>3, <2>4 DEF Inv, Unused, Ids
    <2>13. \A a \in 1 .. Len(store') : a \in 1 .. Len(store) \/ a = n
      BY <1>1, <2>4
    <2>14. QED
      BY <2>5, <2>7, <2>9, <2>10, <2>11, <2>12, <2>13, Zenon DEF Inv
  <1>6. QED
    BY <1>4, <1>5 DEF Answered

(* A step that carries out what the approval of handler h gates, and marks  *)
(* no other approval as approved.                                           *)
LEMMA CarriesOut ==
    ASSUME Inv, NEW h \in Handlers, handler[h].at \in Working, handler[h].op = "approve",
           carriedOut(h), now' \in Nat, disturbed \subseteq disturbed',
           Alike(store, store'), Len(store') = Len(store),
           \A b \in 1 .. Len(store) : store'[b].status = "approved" =>
              store[b].status = "approved" \/ b = handler[h].a,
           held' \in [Ids -> Hold],
           \A b \in Ids : b # handler[h].a => held'[b] = held[b],
           store[handler[h].a].kind = "mission" =>
              held[handler[h].a].state # "run" /\ held'[handler[h].a].state = "run",
           handler' \in [Handlers -> Work],
           \A g \in Handlers : g # h => handler'[g] = handler[g],
           WorkOk(h)'
    PROVE  Inv'
  <1>1. PICK c : c = handler[h].a
    OBVIOUS
  <1>2. /\ Typed /\ Len(store) \in Nat /\ 1 .. Len(store) \subseteq Ids
        /\ released \in [Ids -> Nat] /\ by \in [Ids -> SUBSET Users]
    BY UserTypes DEF Inv, Typed, Ids
  <1>3. c \in 1 .. Len(store) /\ handler[h].user \in Users
        /\ mayApprove(handler[h].user, store[c].kind)
    BY <1>1 DEF Inv, WorkOk
  <1>4. /\ released' = [released EXCEPT ![c] = @ + 1]
        /\ by' = [by EXCEPT ![c] = @ \cup {handler[h].user}]
    BY <1>1 DEF carriedOut
  <1>5. /\ released' \in [Ids -> Nat] /\ by' \in [Ids -> SUBSET Users]
        /\ released'[c] = released[c] + 1 /\ by'[c] = by[c] \cup {handler[h].user}
        /\ \A b \in Ids : b # c => released'[b] = released[b] /\ by'[b] = by[b]
    <2>1. c \in Ids /\ released[c] \in Nat /\ by[c] \in SUBSET Users
      BY <1>2, <1>3
    <2>2. /\ released' \in [Ids -> Nat] /\ released'[c] = released[c] + 1
          /\ \A b \in Ids : b # c => released'[b] = released[b]
      BY <1>2, <1>4, <2>1
    <2>3. /\ by' \in [Ids -> SUBSET Users] /\ by'[c] = by[c] \cup {handler[h].user}
          /\ \A b \in Ids : b # c => by'[b] = by[b]
      BY <1>2, <1>3, <1>4, <2>1
    <2>4. QED
      BY <2>2, <2>3
  <1>6. Typed'
    BY <1>2, <1>5 DEF Typed, Alike
  <1>7. Grows
    <2>1. ASSUME NEW b \in Ids PROVE released'[b] \in Nat /\ released'[b] >= released[b]
      <3>1. released[b] \in Nat /\ released'[b] \in {released[b], released[b] + 1}
        BY <1>2, <1>5
      <3>2. QED
        BY <3>1
    <2>2. QED
      BY <2>1 DEF Grows
  <1>8. ASSUME NEW g \in Handlers PROVE WorkOk(g)'
    BY <1>7, KeepsWork
  <1>9. ASSUME NEW b \in 1 .. Len(store) PROVE ApprovalOk(b)'
    <2>1. ApprovalOk(b) /\ store'[b].kind = store[b].kind /\ b \in Ids
      BY <1>2 DEF Inv, Alike
    <2>2. CASE b = c
      <3>1. released'[b] >= 1
        BY <1>2, <1>5, <2>1, <2>2
      <3>2. store[b].kind = "mission" => released'[b] = 1 /\ held'[b].state = "run"
        BY <1>1, <1>2, <1>5, <2>1, <2>2 DEF ApprovalOk
      <3>3. \A u \in by'[b] : mayApprove(u, store'[b].kind)
        BY <1>3, <1>5, <2>1, <2>2 DEF ApprovalOk
      <3>4. QED
        BY <2>1, <3>1, <3>2, <3>3 DEF ApprovalOk, Done
    <2>3. CASE b # c
      <3>1. released'[b] = released[b] /\ by'[b] = by[b] /\ held'[b] = held[b]
        BY <1>1, <1>5, <2>1, <2>3
      <3>2. Done(b) => Done(b)'
        BY <2>1, <3>1 DEF Done
      <3>3. store'[b].status = "approved" => store[b].status = "approved"
        BY <1>1, <2>3
      <3>4. QED
        BY <2>1, <3>1, <3>2, <3>3 DEF ApprovalOk
    <2>4. QED
      BY <2>2, <2>3
  <1>10. Unused'
    BY <1>2, <1>3, <1>5 DEF Inv, Unused
  <1>11. QED
    BY <1>6, <1>8, <1>9, <1>10 DEF Inv

LEMMA RuntimeSettlesInv ==
    ASSUME Inv, NEW h \in Handlers, RuntimeSettles(h)
    PROVE  Inv'
  <1> DEFINE a == handler[h].a
             approving == handler[h].op = "approve"
  <1>1. /\ Typed /\ now \in Nat /\ store \in Seq(Approval) /\ Len(store) \in Nat
        /\ handler \in [Handlers -> Work] /\ held \in [Ids -> Hold]
        /\ 1 .. Len(store) \subseteq Ids
    BY UserTypes DEF Inv, Typed, Ids
  <1>2. handler[h].at = "settling" /\ UNCHANGED <<now, disturbed>>
    BY DEF RuntimeSettles
  <1>3. /\ a \in 1 .. Len(store) /\ store[a].kind = "mission" /\ handler[h].user \in Users
        /\ handler[h].op \in {"approve", "reject"}
        /\ approving => mayApprove(handler[h].user, store[a].kind)
    BY <1>2 DEF Inv, WorkOk, Working
  <1>4. handler[h] \in Work
    BY <1>1
  <1>5. Alike(store, store) /\ NoneApproved(store, store)
    BY <1>1 DEF Alike, NoneApproved
  <1>6. CASE approving /\ holds(a)
    <2>1. /\ held' = [held EXCEPT ![a].state = "run"] /\ carriedOut(h) /\ store' = store
          /\ handler' = [handler EXCEPT ![h] = [@ EXCEPT !.at = "running"]]
      BY <1>6 DEF RuntimeSettles, consumeRecord
    <2>2. /\ held[a].state # "run" /\ held'[a].state = "run" /\ held' \in [Ids -> Hold]
          /\ \A b \in Ids : b # a => held'[b] = held[b]
      BY <1>1, <1>3, <1>6, <2>1 DEF holds, Hold
    <2>3. [handler[h] EXCEPT !.at = "running"] \in Work
      BY <1>4 DEF Work, Working
    <2>4. /\ handler' \in [Handlers -> Work]
          /\ handler'[h] = [handler[h] EXCEPT !.at = "running"]
          /\ \A g \in Handlers : g # h => handler'[g] = handler[g]
      BY <1>1, <2>1, <2>3
    <2>5. /\ handler'[h].at = "running" /\ handler'[h].op = "approve" /\ handler'[h].a = a
          /\ handler'[h].user = handler[h].user
      BY <1>4, <1>6, <2>4 DEF Work
    <2>6. released'[a] >= 1
      <3>1. released \in [Ids -> Nat] /\ released' = [released EXCEPT ![a] = @ + 1]
        BY <1>1, <2>1 DEF Typed, carriedOut
      <3>2. QED
        BY <1>1, <1>3, <3>1
    <2>7. WorkOk(h)'
      BY <1>3, <1>6, <2>1, <2>5, <2>6 DEF WorkOk, Working
    <2>8. QED
      BY <1>1, <1>2, <1>3, <1>5, <1>6, <2>1, <2>2, <2>4, <2>7, CarriesOut DEF Working
  <1>7. CASE ~(approving /\ holds(a))
    <2>1. /\ UNCHANGED <<released, by>>
          /\ handler' = [handler EXCEPT ![h] = Free]
          /\ store' = IF approving THEN store ELSE settleApproval(store, a, "rejected")
          /\ \/ held' = [held EXCEPT ![a].state = "rejected"] /\ held[a].state = "held"
             \/ held' = [held EXCEPT ![a].state = "expired"] /\ held[a].state = "held"
             \/ held' = held
      BY <1>7 DEF RuntimeSettles, consumeRecord, holds
    <2>2. Alike(store, store') /\ NoneApproved(store, store')
      BY <1>1, <1>3, <1>5, <2>1, SettleMarks
    <2>3. /\ held' \in [Ids -> Hold]
          /\ \A b \in Ids : held'[b].state = "run" <=> held[b].state = "run"
      <3>1. CASE held' = held
        BY <1>1, <3>1
      <3>2. ASSUME NEW over \in {"rejected", "expired"},
                   held' = [held EXCEPT ![a].state = over], held[a].state = "held"
            PROVE  /\ held' \in [Ids -> Hold]
                   /\ \A b \in Ids : held'[b].state = "run" <=> held[b].state = "run"
        <4>1. held[a] \in Hold /\ a \in Ids
          BY <1>1, <1>3
        <4>2. /\ [held[a] EXCEPT !.state = over] \in Hold
              /\ [held[a] EXCEPT !.state = over].state = over
          BY <4>1 DEF Hold
        <4>3. /\ held' \in [Ids -> Hold] /\ held'[a].state = over
              /\ \A b \in Ids : b # a => held'[b] = held[b]
          BY <1>1, <3>2, <4>1, <4>2
        <4>4. QED
          BY <3>2, <4>3
      <3>3. QED
        BY <2>1, <3>1, <3>2
    <2>4. /\ handler' \in [Handlers -> Work] /\ WorkOk(h)'
          /\ \A g \in Handlers : g # h => handler'[g] = handler[g]
      BY <1>1, <2>1, Frees
    <2>5. Typed'
      BY <1>1, <1>2, <2>1, <2>2, <2>3, <2>4 DEF Typed, Alike, NoneApproved
    <2>6. Grows
      BY <1>1, <1>2, <2>1 DEF Grows, Typed
    <2>7. ASSUME NEW g \in Handlers PROVE WorkOk(g)'
      BY <2>2, <2>4, <2>6, KeepsWork
    <2>8. ASSUME NEW b \in 1 .. Len(store) PROVE ApprovalOk(b)'
      <3>1. ApprovalOk(b) /\ store'[b].kind = store[b].kind /\ b \in Ids
        BY <1>1, <2>2 DEF Inv, Alike
      <3>2. store'[b].status = "approved" => store[b].status = "approved"
        BY <2>2 DEF NoneApproved
      <3>3. Done(b) => Done(b)'
        BY <1>2, <2>1, <3>1 DEF Done
      <3>4. QED
        BY <2>1, <2>3, <3>1, <3>2, <3>3 DEF ApprovalOk
    <2>9. Unused' /\ Len(store') = Len(store)
      BY <2>1, <2>2 DEF Inv, Unused, NoneApproved
    <2>10. QED
      BY <2>5, <2>7, <2>8, <2>9, Zenon DEF Inv
  <1>8. QED
    BY <1>6, <1>7

(* A handler that goes on to another place with the approval it has.        *)
LEMMA GoesOn ==
    ASSUME Inv, NEW h \in Handlers, NEW at \in Working,
           handler' = [handler EXCEPT ![h].at = at]
    PROVE  /\ handler' \in [Handlers -> Work]
           /\ handler'[h].at = at /\ handler'[h].op = handler[h].op
           /\ handler'[h].user = handler[h].user /\ handler'[h].a = handler[h].a
           /\ \A g \in Handlers : g # h => handler'[g] = handler[g]
  <1>1. handler \in [Handlers -> Work] /\ handler[h] \in Work
    BY DEF Inv, Typed
  <1>2. [handler[h] EXCEPT !.at = at] \in Work
    BY <1>1 DEF Work
  <1>3. handler' = [handler EXCEPT ![h] = [handler[h] EXCEPT !.at = at]]
    BY <1>1
  <1>4. QED
    BY <1>1, <1>2, <1>3 DEF Work

(* The mission ended, or the book was closed: the answer is to be sent.     *)
LEMMA PassesOnInv ==
    ASSUME Inv, NEW h \in Handlers, MissionEnds(h) \/ SettleBook(h)
    PROVE  Inv'
  <1>1. /\ handler[h].at \in {"running", "closing"}
        /\ handler' = [handler EXCEPT ![h].at = "sending"]
        /\ UNCHANGED <<now, store, held, released, by, disturbed>>
    BY DEF MissionEnds, SettleBook
  <1>2. handler \in [Handlers -> Work] /\ now \in Nat /\ WorkOk(h)
    BY DEF Inv, Typed
  <1>3. /\ handler' \in [Handlers -> Work]
        /\ handler'[h].at = "sending" /\ handler'[h].op = handler[h].op
        /\ handler'[h].user = handler[h].user /\ handler'[h].a = handler[h].a
        /\ \A g \in Handlers : g # h => handler'[g] = handler[g]
    <2>1. "sending" \in Working
      BY DEF Working
    <2>2. QED
      BY <1>1, <2>1, GoesOn
  <1>4. WorkOk(h)'
    BY <1>1, <1>2, <1>3 DEF WorkOk, Working, Done
  <1>5. QED
    BY <1>1, <1>2, <1>3, <1>4, HandlerStep

(* The handler gives up, with or without a notice that was not delivered.   *)
LEMMA GivesUpInv ==
    ASSUME Inv, NEW h \in Handlers, SettlementLost(h) \/ SendFails(h)
    PROVE  Inv'
  <1>1. /\ handler' = [handler EXCEPT ![h] = Free] /\ handler[h].at \in Working
        /\ UNCHANGED <<now, held, released, by>> /\ disturbed \subseteq disturbed'
        /\ \/ store' = store
           \/ store' = settleApproval(store, handler[h].a, "rejected")
    BY DEF SettlementLost, SendFails, fault, closesUnsent, Working
  <1>2. now \in Nat /\ store \in Seq(Approval) /\ handler[h].a \in 1 .. Len(store)
    BY <1>1 DEF Inv, Typed, WorkOk
  <1>3. Alike(store, store') /\ NoneApproved(store, store')
    <2>1. Alike(store, store) /\ NoneApproved(store, store)
      BY <1>2 DEF Alike, NoneApproved
    <2>2. QED
      BY <1>1, <1>2, <2>1, SettleMarks
  <1>4. /\ handler' \in [Handlers -> Work]
        /\ \A g \in Handlers : handler'[g] = handler[g] \/ WorkOk(g)'
    BY <1>1, Frees
  <1>5. QED
    BY <1>1, <1>2, <1>3, <1>4, QuietStep DEF NoneApproved

LEMMA NominateInv ==
    ASSUME Inv, NEW h \in Handlers, Nominate(h)
    PROVE  Inv'
  <1>1. PICK c : c = handler[h].a
    OBVIOUS
  <1>2. /\ handler[h].at = "nominating" /\ UNCHANGED <<now, store, held>>
        /\ disturbed \subseteq disturbed'
        /\ \/ /\ carriedOut(h) /\ handler' = [handler EXCEPT ![h].at = "closing"]
           \/ /\ handler' = [handler EXCEPT ![h].at = "sending"]
              /\ c \in disturbed'
              /\ carriedOut(h) \/ UNCHANGED <<released, by>>
    BY <1>1 DEF Nominate, fault
  <1>3. /\ handler \in [Handlers -> Work] /\ now \in Nat /\ held \in [Ids -> Hold]
        /\ store \in Seq(Approval) /\ released \in [Ids -> Nat]
        /\ Len(store) \in Nat /\ 1 .. Len(store) \subseteq Ids
    BY UserTypes DEF Inv, Typed, Ids
  <1>4. /\ c \in 1 .. Len(store) /\ store[c].kind = "trade" /\ handler[h].op = "approve"
        /\ mayApprove(handler[h].user, store[c].kind) /\ handler[h].user \in Users
    BY <1>1, <1>2 DEF Inv, WorkOk, Working
  <1>5. Alike(store, store') /\ Len(store') = Len(store)
    BY <1>2, <1>3 DEF Alike
  <1>6. PICK at \in {"closing", "sending"} :
            /\ handler' = [handler EXCEPT ![h].at = at]
            /\ at = "sending" => c \in disturbed'
            /\ carriedOut(h) \/ (at = "sending" /\ UNCHANGED <<released, by>>)
    BY <1>2
  <1>7. /\ handler' \in [Handlers -> Work]
        /\ handler'[h].at = at /\ handler'[h].op = handler[h].op
        /\ handler'[h].user = handler[h].user /\ handler'[h].a = handler[h].a
        /\ \A g \in Handlers : g # h => handler'[g] = handler[g]
    <2>1. at \in Working
      BY DEF Working
    <2>2. QED
      BY <1>6, <2>1, GoesOn
  <1>8. carriedOut(h) => released'[c] >= 1
    <2>1. carriedOut(h) => released' = [released EXCEPT ![c] = @ + 1]
      BY <1>1 DEF carriedOut
    <2>2. QED
      BY <1>3, <1>4, <2>1
  <1>9. WorkOk(h)'
    BY <1>1, <1>2, <1>4, <1>6, <1>7, <1>8 DEF WorkOk, Working, Done
  <1>10. CASE carriedOut(h)
    <2>1. handler[h].at \in Working
      BY <1>2 DEF Working
    <2>2. store[handler[h].a].kind # "mission"
      BY <1>1, <1>4
    <2>3. QED
      BY <1>2, <1>3, <1>4, <1>5, <1>7, <1>9, <1>10, <2>1, <2>2, CarriesOut
  <1>11. CASE UNCHANGED <<released, by>>
    BY <1>2, <1>3, <1>7, <1>9, <1>11, HandlerStep
  <1>12. QED
    BY <1>6, <1>10, <1>11

LEMMA SentInv ==
    ASSUME Inv, NEW h \in Handlers, Sent(h)
    PROVE  Inv'
  <1> DEFINE decision == IF handler[h].op = "approve" THEN "approved" ELSE "rejected"
  <1>1. PICK c : c = handler[h].a
    OBVIOUS
  <1>2. /\ handler[h].at = "sending" /\ UNCHANGED <<now, held, disturbed>>
        /\ handler' = [handler EXCEPT ![h] = Free]
        /\ store' = settleApproval(store, c, decision)
        /\ IF store[c].kind = "query" THEN carriedOut(h) ELSE UNCHANGED <<released, by>>
    BY <1>1 DEF Sent
  <1>3. /\ handler \in [Handlers -> Work] /\ now \in Nat /\ held \in [Ids -> Hold]
        /\ store \in Seq(Approval)
    BY DEF Inv, Typed
  <1>4. /\ c \in 1 .. Len(store) /\ handler[h].op \in {"approve", "reject"}
        /\ store[c].kind = "query" => handler[h].op = "approve"
        /\ handler[h].op = "approve" => store[c].kind = "query" \/ Done(c)
    BY <1>1, <1>2 DEF Inv, WorkOk, Working
  <1>5. decision \in {"approved", "rejected"}
    OBVIOUS
  <1>6. decision = "approved" => handler[h].op = "approve"
    OBVIOUS
  <1> HIDE DEF decision
  <1>7. /\ Alike(store, store') /\ Len(store') = Len(store)
        /\ \A b \in 1 .. Len(store) : store'[b].status = "approved" =>
              store[b].status = "approved" \/ (b = c /\ decision = "approved")
    BY <1>2, <1>3, <1>4, <1>5, SettleMarks
  <1>8. /\ handler' \in [Handlers -> Work] /\ WorkOk(h)'
        /\ \A g \in Handlers : g # h => handler'[g] = handler[g]
    BY <1>2, <1>3, Frees
  <1>9. CASE store[c].kind = "query"
    <2>1. handler[h].at \in Working /\ handler[h].op = "approve" /\ carriedOut(h)
      BY <1>2, <1>4, <1>9 DEF Working
    <2>2. store[handler[h].a].kind # "mission"
      BY <1>1, <1>9
    <2>3. QED
      BY <1>1, <1>2, <1>3, <1>7, <1>8, <2>1, <2>2, CarriesOut
  <1>10. CASE store[c].kind # "query"
    <2>1. UNCHANGED <<released, by>>
      BY <1>2, <1>10
    <2>2. \A b \in 1 .. Len(store) :
             store'[b].status = "approved" => store[b].status = "approved" \/ Done(b)
      BY <1>4, <1>6, <1>7, <1>10
    <2>3. QED
      BY <1>2, <1>3, <1>7, <1>8, <2>1, <2>2, QuietStep
  <1>11. QED
    BY <1>9, <1>10

----------------------------------------------------------------------------
LEMMA NextInv ==
    ASSUME Inv, [Next]_vars
    PROVE  Inv'
  <1>1. /\ Typed /\ now \in Nat /\ store \in Seq(Approval) /\ Len(store) \in Nat
        /\ handler \in [Handlers -> Work] /\ held \in [Ids -> Hold]
        /\ released \in [Ids -> Nat] /\ 1 .. Len(store) \subseteq Ids
    BY UserTypes DEF Inv, Typed, Ids
  <1>2. ASSUME NEW h \in Handlers, Step(h) PROVE Inv'
    <2>1. CASE Uploaded(h)
      <3>1. /\ handler' \in [Handlers -> Work]
            /\ \A g \in Handlers : handler'[g] = handler[g] \/ WorkOk(g)'
        BY <2>1, Frees DEF Uploaded
      <3>2. QED
        BY <1>1, <2>1, <3>1, HandlerStep DEF Uploaded
    <2>2. QED
      BY <1>2, <2>1, AnsweredInv, RuntimeSettlesInv, PassesOnInv, GivesUpInv, NominateInv,
         SentInv DEF Step
  <1>3. CASE Restart
    <2>1. /\ store' = [a \in DOMAIN store |-> [store[a] EXCEPT !.status = "gone"]]
          /\ handler' = [h \in Handlers |-> Free]
          /\ UNCHANGED <<now, held, released, by, disturbed>>
      BY <1>3 DEF Restart
    <2>2. \A a \in DOMAIN store :
             store'[a] \in Approval /\ store'[a].kind = store[a].kind /\ store'[a].status = "gone"
      <3>1. ASSUME NEW a \in DOMAIN store
            PROVE  store[a] \in Approval /\ store'[a] = [store[a] EXCEPT !.status = "gone"]
        <4>1. a \in 1 .. Len(store)
          BY <1>1
        <4>2. store[a] \in Approval
          BY <1>1, <4>1
        <4>3. QED
          BY <2>1, <4>2, Zenon
      <3>2. ASSUME NEW r \in Approval
            PROVE  /\ [r EXCEPT !.status = "gone"] \in Approval
                   /\ [r EXCEPT !.status = "gone"].kind = r.kind
                   /\ [r EXCEPT !.status = "gone"].status = "gone"
        BY DEF Approval
      <3>3. QED
        BY <3>1, <3>2, Zenon
    <2>3. DOMAIN store' = DOMAIN store /\ store' = [a \in DOMAIN store |-> store'[a]]
      BY <2>1
    <2>4. Alike(store, store') /\ NoneApproved(store, store')
      BY <1>1, <2>2, <2>3, Marked
    <2>5. handler' \in [Handlers -> Work] /\ \A h \in Handlers : WorkOk(h)'
      BY <2>1, FreeIsWork DEF WorkOk, Working
    <2>6. QED
      BY <1>1, <2>1, <2>4, <2>5, QuietStep DEF NoneApproved
  <1>4. CASE RuntimeRestarts
    <2>1. /\ held' = [a \in Ids |-> IF held[a].state = "held" THEN NoHold ELSE held[a]]
          /\ UNCHANGED <<now, store, handler, released, by, disturbed>>
      BY <1>4 DEF RuntimeRestarts
    <2>2. /\ held' \in [Ids -> Hold]
          /\ \A a \in Ids : held'[a].state = "run" <=> held[a].state = "run"
      BY <1>1, <2>1 DEF NoHold, Hold
    <2>3. Typed' /\ Unused'
      BY <1>1, <2>1, <2>2 DEF Inv, Typed, Unused
    <2>4. \A h \in Handlers : WorkOk(h)'
      BY <2>1 DEF Inv, WorkOk, Done
    <2>5. ASSUME NEW a \in 1 .. Len(store) PROVE ApprovalOk(a)'
      BY <1>1, <2>1, <2>2 DEF Inv, ApprovalOk, Done
    <2>6. QED
      BY <2>1, <2>3, <2>4, <2>5 DEF Inv
  <1>5. CASE Prune
    <2>1. /\ store' = pruneApprovals(store)
          /\ UNCHANGED <<now, handler, held, released, by, disturbed>>
      BY <1>5 DEF Prune
    <2>2. Alike(store, store') /\ NoneApproved(store, store')
      BY <1>1, <2>1, PruneMarks
    <2>3. QED
      BY <1>1, <2>1, <2>2, QuietStep DEF NoneApproved
  <1>6. CASE Tick
    <2>1. now' = now + 1 /\ UNCHANGED <<store, handler, held, released, by, disturbed>>
      BY <1>6 DEF Tick
    <2>2. QED
      BY <1>1, <2>1, HandlerStep
  <1>7. CASE UNCHANGED vars
    <2>1. UNCHANGED <<now, store, handler, held, released, by, disturbed>>
      BY <1>7 DEF vars
    <2>2. QED
      BY <1>1, <2>1, HandlerStep
  <1>8. QED
    BY <1>2, <1>3, <1>4, <1>5, <1>6, <1>7, UpdateInv DEF Next

LEMMA InvariantHolds == Spec => []Inv
  BY InitInv, NextInv, PTL DEF Spec

(* A mission is run at most once for its approval, whatever is pressed,     *)
(* retried, lost or restarted, in polling and in webhook mode: the runtime  *)
(* forgets the record before it runs, and the record counts the runs.       *)
THEOREM MissionsRunOnce == Spec => []MissionRunsOnce
  <1>1. ASSUME Inv PROVE MissionRunsOnce
    <2>1. DOMAIN store = 1 .. Len(store)
      BY <1>1 DEF Inv, Typed
    <2>2. QED
      BY <1>1, <2>1 DEF Inv, ApprovalOk, MissionRunsOnce
  <1>2. QED
    BY <1>1, InvariantHolds, PTL

(* What the bridge reports as approved has been carried out, except a trade *)
(* whose nomination failed, although the approval is marked after the       *)
(* awaits (bot.ts, doApprove and completeApproved).                         *)
THEOREM ApprovedIsDone == Spec => []ApprovedWasDone
  <1>1. ASSUME Inv PROVE ApprovedWasDone
    <2>1. DOMAIN store = 1 .. Len(store)
      BY <1>1 DEF Inv, Typed
    <2>2. QED
      BY <1>1, <2>1 DEF Inv, ApprovalOk, Done, ApprovedWasDone
  <1>2. QED
    BY <1>1, InvariantHolds, PTL

(* Everything released was commanded by an approver, and a trade by a       *)
(* co-signer of trades, whoever else pressed the button or sent a command   *)
(* in between (roles.ts).                                                   *)
THEOREM OnlyApproversRelease == Spec => []ReleasedByApprover
  <1>1. ASSUME Inv PROVE ReleasedByApprover
    <2>1. DOMAIN store = 1 .. Len(store)
      BY <1>1 DEF Inv, Typed
    <2>2. ASSUME NEW a \in 1 .. Len(store), NEW u \in by[a]
          PROVE  /\ u \in ApproverIds
                 /\ store[a].kind = "trade" =>
                       RoleMap[u] = "sovereign" /\ (TradingApprovers = {} \/ u \in TradingApprovers)
      <3>1. mayApprove(u, store[a].kind)
        BY <1>1 DEF Inv, ApprovalOk
      <3>2. QED
        BY <3>1 DEF mayApprove, isTradeCoSigner, roleOf
    <2>3. QED
      BY <2>1, <2>2 DEF ReleasedByApprover
  <1>2. QED
    BY <1>1, InvariantHolds, PTL
============================================================================
