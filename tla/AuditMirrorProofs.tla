-------------------------- MODULE AuditMirrorProofs --------------------------
(***************************************************************************)
(* The audit chain and its mirror, for any number of replicas, links and   *)
(* probes: the chain verifies, a healthy report misses no link, and the    *)
(* two are a log with copies.                                              *)
(*                                                                         *)
(* The health report counts holes in a window that is compacted as answers *)
(* come in, and it is sent after an await.  The invariant says what the    *)
(* window's start and the confirmed links stand for (Window), and what a   *)
(* count that was taken before the await still means after it (Stored).    *)
(***************************************************************************)
EXTENDS AuditMirror, FiniteSetTheorems, WellFoundedInduction, TLAPS

-----------------------------------------------------------------------------
(***************************************************************************)
(* Compaction of the confirmed prefix.                                     *)
(***************************************************************************)
\* A non-empty set of numbers has a smallest element.
LEMMA Smallest ==
  ASSUME NEW T \in SUBSET Nat, T # {}
  PROVE  \E n \in T : \A m \in T : n <= m
<1>. DEFINE R == OpToRel(<, Nat)
<1>1. IsWellFoundedOn(R, Nat)
  BY NatLessThanWellFounded
<1>2. \A m, n \in Nat : m < n => <<m, n>> \in R
  BY DEF OpToRel
<1>. HIDE DEF R
<1>3. PICK n \in T : \A m \in T : <<m, n>> \notin R
  BY <1>1, WFMin
<1>4. \A m \in T : ~(m < n)
  BY <1>2, <1>3, Zenon
<1>. QED  BY <1>4

\* The compacted base is the first link from `from` on that is not confirmed.
LEMMA CompactedBase ==
  ASSUME NEW from \in Nat, NEW set \in SUBSET Nat, IsFiniteSet(set)
  PROVE  /\ compactedBase(from, set) \in Nat
         /\ compactedBase(from, set) >= from
         /\ compactedBase(from, set) \notin set
         /\ \A s \in from .. compactedBase(from, set) - 1 : s \in set
<1>. DEFINE I == from .. from + Cardinality(set)
            T == {n \in I : n \notin set}
<1>1. Cardinality(set) \in Nat
  BY FS_CardinalityType
<1>2. T # {}
  <2>1. SUFFICES ASSUME I \subseteq set PROVE FALSE
    OBVIOUS
  <2>2. Cardinality(I) <= Cardinality(set)
    BY <2>1, FS_Subset
  <2>3. Cardinality(I) = Cardinality(set) + 1
    BY <1>1, FS_Interval
  <2>. QED  BY <1>1, <2>2, <2>3
<1>3. PICK n \in T : \A m \in T : n <= m
  <2>1. T \in SUBSET Nat
    BY <1>1
  <2>. QED  BY <1>2, <2>1, Smallest
<1>4. n \in I /\ n \notin set /\ \A s \in from .. n - 1 : s \in set
  <2>1. \A s \in from .. n - 1 : s \in I /\ s < n
    BY <1>1
  <2>. QED  BY <1>1, <1>3, <2>1
<1>. QED  BY <1>1, <1>4 DEF compactedBase

-----------------------------------------------------------------------------
(***************************************************************************)
(* The inductive invariant.                                                *)
(***************************************************************************)
\* The links a process had seen when it was asked are stored.
Stored(m, reg) ==
  \A s \in Links : m.first # None /\ s >= m.first /\ s <= m.asked => reg[s] > 0

\* What the counters of a process m say of the register, n links being recorded.
Window(m, n, reg) ==
  /\ m.first = None <=> m.seq_baza = None
  /\ m.first <= m.seq_baza
  /\ m.asked <= n
  /\ \A s \in Links : m.first # None /\ s >= m.first /\ s < m.seq_baza => reg[s] > 0
  /\ \A s \in m.seq_oglindite : reg[s] > 0
  /\ (m.waiting \/ m.healthy) /\ m.holes = 0 => Stored(m, reg)
  /\ m.healthy => m.holes = 0
  /\ m.memo => m.confirmed

\* An insert that is out is the only one of its link, and the link is recorded.
OneRowPerLink ==
  /\ \A s \in wire : s <= Len(rows) /\ register[s] = 0
  /\ \A s \in Links : register[s] <= 1 /\ (register[s] > 0 => s <= Len(rows))

\* The inductive invariant.
Inv ==
  /\ TypeOK
  /\ OneRowPerLink
  /\ ChainVerifies
  /\ \A p \in Replicas : Window(proc[p], Len(rows), register)

-----------------------------------------------------------------------------
(***************************************************************************)
(* What the operators on a process's memory return.                        *)
(***************************************************************************)
\* A process that starts has a well-formed memory and claims nothing.
LEMMA FreshMemory ==
  ASSUME NEW c \in BOOLEAN, NEW n \in Nat, NEW reg
  PROVE  /\ Fresh(c) \in Memory /\ Window(Fresh(c), n, reg)
         /\ [Fresh(c) EXCEPT !.up = FALSE] \in Memory
         /\ Window([Fresh(c) EXCEPT !.up = FALSE], n, reg)
<1>1. (CHOOSE d \in Payloads : TRUE) \in Payloads
  BY PayloadsAssumption
<1>2. GENESIS_HASH \in Seq(Payloads)
  BY DEF GENESIS_HASH
<1>3. Fresh(c) \in Memory
  BY <1>1, <1>2 DEF Fresh, Memory, None
<1>4. Window(Fresh(c), n, reg)
  BY DEF Fresh, Window, Stored, None
<1>5. [Fresh(c) EXCEPT !.up = FALSE] \in Memory
  BY <1>3 DEF Memory
<1>6. Window([Fresh(c) EXCEPT !.up = FALSE], n, reg)
  BY DEF Fresh, Window, Stored, None
<1>. QED  BY <1>3, <1>4, <1>5, <1>6

\* The answer to a health request.
LEMMA AnsweredMemory ==
  ASSUME NEW m \in Memory, NEW ok \in BOOLEAN, NEW n \in Nat, NEW reg,
         Window(m, n, reg), m.holes = 0 => Stored(m, reg), ok => m.confirmed
  PROVE  /\ answered(m, ok) \in Memory /\ Window(answered(m, ok), n, reg)
         /\ answered(m, ok).healthy => m.confirmed
         /\ answered(m, ok).confirmed = m.confirmed
<1>. DEFINE healthy == m.configured /\ ok /\ m.holes = 0
            e == answered(m, ok)
<1>1. healthy \in BOOLEAN
  OBVIOUS
<1>2. e \in Memory
  BY <1>1 DEF answered, Memory
<1>3. /\ e.waiting = FALSE /\ e.healthy = healthy /\ e.holes = 0
      /\ e.asked = IF healthy THEN m.asked ELSE 0
      /\ e.first = m.first /\ e.seq_baza = m.seq_baza /\ e.seq_oglindite = m.seq_oglindite
      /\ e.memo = m.memo /\ e.confirmed = m.confirmed
  BY DEF answered, Memory
<1>. HIDE DEF e
<1>4. Window(e, n, reg)
  <2>1. CASE healthy
    <3>1. e.healthy = TRUE /\ e.asked = m.asked /\ e.holes = m.holes
      BY <1>3, <2>1
    <3>. QED  BY <1>3, <2>1, <3>1 DEF Window, Stored
  <2>2. CASE ~healthy
    <3>1. e.healthy = FALSE /\ e.asked = 0
      BY <1>3, <2>2
    <3>. QED  BY <1>3, <3>1 DEF Window
  <2>. QED  BY <2>1, <2>2
<1>. QED  BY <1>2, <1>3, <1>4 DEF e

\* A confirmed link enters the window, whose start moves over confirmed links only.
LEMMA ConfirmedMemory ==
  ASSUME NEW m \in Memory, NEW s \in Links, NEW n \in Nat, NEW reg, Window(m, n, reg),
         reg[s] > 0
  PROVE  LET e == [noteazaSeqOglindit(m, s) EXCEPT !.writes = @ \ {s}, !.acked = @ \cup {s}]
         IN e \in Memory /\ Window(e, n, reg) /\ e.healthy = m.healthy
<1>. DEFINE set == m.seq_oglindite \cup {s}
            base == compactedBase(m.seq_baza, set)
            w == noteazaSeqOglindit(m, s)
            e == [w EXCEPT !.writes = @ \ {s}, !.acked = @ \cup {s}]
<1>1. set \subseteq Links /\ set \in SUBSET Nat /\ IsFiniteSet(set) /\ m.seq_baza \in Nat
  <2>1. set \subseteq Links /\ m.seq_baza \in Nat
    BY DEF Memory
  <2>2. IsFiniteSet(Links) /\ Links \in SUBSET Nat
    <3>1. MaxLinks \in Int /\ 1 \in Int
      BY BoundsAssumption
    <3>2. IsFiniteSet(1 .. MaxLinks)
      BY <3>1, FS_Interval
    <3>3. \A x \in Links : x \in Nat
      BY <3>1 DEF Links
    <3>. QED  BY <3>2, <3>3 DEF Links
  <2>. QED  BY <2>1, <2>2, FS_Subset
<1>2. /\ base \in Nat /\ base >= m.seq_baza
      /\ \A x \in m.seq_baza .. base - 1 : x \in set
  BY <1>1, CompactedBase
<1>. HIDE DEF base
<1>3. w \in {m, [m EXCEPT !.seq_baza = base, !.seq_oglindite = {x \in set : x >= base}]}
  BY DEF noteazaSeqOglindit, base
<1>4. PICK b \in Nat, ogl \in SUBSET set :
        /\ w = [m EXCEPT !.seq_baza = b, !.seq_oglindite = ogl]
        /\ b >= m.seq_baza /\ \A x \in m.seq_baza .. b - 1 : x \in set
  <2>1. CASE w = m
    <3>1. m = [m EXCEPT !.seq_baza = m.seq_baza, !.seq_oglindite = m.seq_oglindite]
      BY DEF Memory
    <3>2. \A x \in m.seq_baza .. m.seq_baza - 1 : x \in set
      BY <1>1
    <3>3. m.seq_oglindite \in SUBSET set /\ m.seq_baza >= m.seq_baza
      BY <1>1
    <3>. QED  BY <1>1, <2>1, <3>1, <3>2, <3>3
  <2>2. CASE w = [m EXCEPT !.seq_baza = base, !.seq_oglindite = {x \in set : x >= base}]
    BY <1>2, <2>2
  <2>. QED  BY <1>3, <2>1, <2>2
<1>. HIDE DEF w
<1>5. /\ e = [m EXCEPT !.seq_baza = b, !.seq_oglindite = ogl,
                       !.writes = @ \ {s}, !.acked = @ \cup {s}]
      /\ e \in Memory
  BY <1>1, <1>4, ZenonT(40) DEF Memory
<1>6. /\ e.waiting = m.waiting /\ e.healthy = m.healthy /\ e.holes = m.holes
      /\ e.asked = m.asked /\ e.first = m.first /\ e.seq_baza = b /\ e.seq_oglindite = ogl
      /\ e.memo = m.memo /\ e.confirmed = m.confirmed
  BY <1>5 DEF Memory
<1>. HIDE DEF e
<1>7. Window(e, n, reg)
  <2>1. m.first \in Nat /\ m.seq_baza \in Nat /\ 0 \notin set
    BY <1>1 DEF Memory, Links
  <2>2. \A x \in set : reg[x] > 0
    BY DEF Window
  <2>3. e.first = None <=> e.seq_baza = None
    <3>1. m.seq_baza = 0 => b = 0
      BY <1>4, <2>1
    <3>. QED  BY <1>4, <1>6, <2>1, <3>1 DEF Window, None
  <2>4. e.first <= e.seq_baza
    BY <1>4, <1>6, <2>1 DEF Window
  <2>5. ASSUME NEW x \in Links, e.first # None, x >= e.first, x < e.seq_baza
        PROVE  reg[x] > 0
    <3>1. CASE x < m.seq_baza
      BY <1>6, <2>5, <3>1 DEF Window
    <3>2. CASE x >= m.seq_baza
      <4>1. x \in m.seq_baza .. b - 1
        BY <1>4, <1>6, <2>1, <2>5, <3>2, BoundsAssumption DEF Links
      <4>. QED  BY <1>4, <2>2, <4>1
    <3>. QED  BY <2>1, <2>5, <3>1, <3>2, BoundsAssumption DEF Links
  <2>6. \A x \in e.seq_oglindite : reg[x] > 0
    BY <1>4, <1>6, <2>2
  <2>7. (e.waiting \/ e.healthy) /\ e.holes = 0 => Stored(e, reg)
    BY <1>6 DEF Window, Stored
  <2>. QED  BY <1>6, <2>3, <2>4, <2>5, <2>6, <2>7 DEF Window
<1>. QED  BY <1>5, <1>6, <1>7 DEF e, w

\* A count of zero holes means that every link since the first is stored.
LEMMA HolesCount ==
  ASSUME NEW m \in Memory, rows \in Seq(AuditRecord), NEW reg, Window(m, Len(rows), reg)
  PROVE  /\ numaraVerigiNeoglindite(m) \in Nat
         /\ numaraVerigiNeoglindite(m) = 0 =>
              \A s \in Links : m.first # None /\ s >= m.first /\ s <= Len(rows) => reg[s] > 0
<1>. DEFINE hole == (m.seq_baza .. countRecords) \ m.seq_oglindite
<1>1. m.seq_baza \in Nat /\ m.first \in Nat /\ Len(rows) \in Nat
  BY DEF Memory
<1>2. IsFiniteSet(hole)
  <2>1. IsFiniteSet(m.seq_baza .. countRecords)
    <3>1. m.seq_baza \in Int /\ countRecords \in Int
      BY <1>1 DEF countRecords
    <3>. QED  BY <3>1, FS_Interval
  <2>. QED  BY <2>1, FS_Subset
<1>3. Cardinality(hole) \in Nat /\ (Cardinality(hole) = 0 => hole = {})
  BY <1>2, FS_CardinalityType, FS_EmptySet
<1>4. ASSUME numaraVerigiNeoglindite(m) = 0, NEW s \in Links, m.first # None,
             s >= m.first, s <= Len(rows)
      PROVE  reg[s] > 0
  <2>1. m.seq_baza # None
    BY <1>4 DEF Window
  <2>2. hole = {}
    BY <1>3, <1>4, <2>1 DEF numaraVerigiNeoglindite
  <2>3. CASE s < m.seq_baza
    BY <1>4, <2>3 DEF Window
  <2>4. CASE s >= m.seq_baza
    <3>1. s \in m.seq_baza .. countRecords
      BY <1>1, <1>4, <2>4, BoundsAssumption DEF countRecords, Links
    <3>2. s \in m.seq_oglindite
      BY <2>2, <3>1
    <3>. QED  BY <3>2 DEF Window
  <2>. QED  BY <1>1, <2>3, <2>4, BoundsAssumption DEF Links
<1>5. numaraVerigiNeoglindite(m) \in Nat
  BY <1>3 DEF numaraVerigiNeoglindite
<1>. QED  BY <1>4, <1>5

\* The counters as a health request reads them.
LEMMA AskedMemory ==
  ASSUME NEW m \in Memory, rows \in Seq(AuditRecord), NEW reg, Window(m, Len(rows), reg),
         ~m.waiting
  PROVE  LET e == [m EXCEPT !.asked = countRecords, !.healthy = FALSE,
                            !.holes = numaraVerigiNeoglindite(m)]
         IN /\ e \in Memory /\ Window(e, Len(rows), reg)
            /\ e.holes = 0 => Stored(e, reg)
            /\ e.memo = m.memo /\ e.confirmed = m.confirmed
<1>. DEFINE k == numaraVerigiNeoglindite(m)
            e == [m EXCEPT !.asked = countRecords, !.healthy = FALSE, !.holes = k]
<1>1. /\ k \in Nat
      /\ k = 0 => \A s \in Links : m.first # None /\ s >= m.first /\ s <= Len(rows) => reg[s] > 0
  BY HolesCount
<1>. HIDE DEF k
<1>2. Len(rows) \in Nat
  OBVIOUS
<1>3. e \in Memory
  BY <1>1, <1>2 DEF Memory, countRecords
<1>4. /\ e.waiting = m.waiting /\ e.healthy = FALSE /\ e.holes = k
      /\ e.asked = Len(rows) /\ e.first = m.first /\ e.seq_baza = m.seq_baza
      /\ e.seq_oglindite = m.seq_oglindite /\ e.memo = m.memo /\ e.confirmed = m.confirmed
  BY DEF Memory, countRecords
<1>. HIDE DEF e
<1>5. e.holes = 0 => Stored(e, reg)
  BY <1>1, <1>4 DEF Stored
<1>6. Window(e, Len(rows), reg)
  BY <1>2, <1>4, <1>5 DEF Window
<1>. QED  BY <1>3, <1>4, <1>5, <1>6 DEF e, k

\* Chain and register only grow, and what a process counts stays true.
LEMMA WindowGrows ==
  ASSUME NEW m \in Memory, NEW n \in Nat, NEW k \in Nat, n <= k, NEW reg \in [Links -> Nat],
         NEW new \in [Links -> Nat], \A s \in Links : reg[s] <= new[s], Window(m, n, reg)
  PROVE  Window(m, k, new)
<1>1. \A s \in Links : reg[s] > 0 => new[s] > 0
  OBVIOUS
<1>2. m.asked \in Nat /\ m.seq_oglindite \subseteq Links
  BY DEF Memory
<1>. QED  BY <1>1, <1>2 DEF Window, Stored

\* The memory after an append: the window opens at the new link, if it was closed.
LEMMA AppendedMemory ==
  ASSUME NEW m \in Memory, NEW n \in Nat, n + 1 \in Links, NEW reg, NEW sent \in SUBSET Links,
         Window(m, n, reg)
  PROVE  LET done == [m EXCEPT !.pc = "idle", !.head = GENESIS_HASH, !.writes = @ \cup sent]
             e == noteazaSeqLocal(done, n + 1)
         IN e \in Memory /\ Window(e, n + 1, reg) /\ (e.healthy => m.healthy)
<1>. DEFINE done == [m EXCEPT !.pc = "idle", !.head = GENESIS_HASH, !.writes = @ \cup sent]
            e == noteazaSeqLocal(done, n + 1)
<1>1. done \in Memory
  <2>1. GENESIS_HASH \in Seq(Payloads) /\ m.writes \cup sent \in SUBSET Links
    BY DEF Memory, GENESIS_HASH
  <2>. QED  BY <2>1 DEF Memory
<1>2. /\ done.waiting = m.waiting /\ done.healthy = m.healthy /\ done.holes = m.holes
      /\ done.asked = m.asked /\ done.first = m.first /\ done.seq_baza = m.seq_baza
      /\ done.seq_oglindite = m.seq_oglindite /\ done.memo = m.memo
      /\ done.confirmed = m.confirmed
  BY DEF Memory
<1>. HIDE DEF done
<1>3. e \in Memory
  <2>1. /\ (IF done.seq_baza = None THEN n + 1 ELSE done.seq_baza) \in Nat
        /\ (IF done.first = None THEN n + 1 ELSE done.first) \in Nat
    BY <1>1 DEF Memory
  <2>. QED  BY <1>1, <2>1 DEF noteazaSeqLocal, Memory
<1>4. /\ e.waiting = m.waiting /\ e.healthy = m.healthy /\ e.holes = m.holes
      /\ e.asked = m.asked /\ e.seq_oglindite = m.seq_oglindite /\ e.memo = m.memo
      /\ e.confirmed = m.confirmed
      /\ e.first = IF m.first = None THEN n + 1 ELSE m.first
      /\ e.seq_baza = IF m.seq_baza = None THEN n + 1 ELSE m.seq_baza
  BY <1>1, <1>2 DEF noteazaSeqLocal, Memory
<1>. HIDE DEF e
<1>5. m.first \in Nat /\ m.seq_baza \in Nat /\ m.asked \in Nat
  BY DEF Memory
<1>6. Window(e, n + 1, reg)
  <2>1. CASE m.first = None
    <3>1. e.first = n + 1 /\ e.seq_baza = n + 1 /\ m.asked <= n
      BY <1>4, <2>1 DEF Window
    <3>2. Stored(e, reg)
      BY <1>4, <1>5, <3>1, BoundsAssumption DEF Stored, Links
    <3>. QED  BY <1>4, <1>5, <3>1, <3>2, BoundsAssumption DEF Window, None, Links
  <2>2. CASE m.first # None
    BY <1>4, <1>5, <2>2 DEF Window, Stored
  <2>. QED  BY <2>1, <2>2
<1>. QED  BY <1>3, <1>4, <1>6 DEF e, done

-----------------------------------------------------------------------------
(***************************************************************************)
(* Every step keeps the invariant.                                         *)
(***************************************************************************)
\* A step that changes only the memory of p.
LEMMA LocalStep ==
  ASSUME Inv, NEW p \in Replicas, NEW m \in Memory, Window(m, Len(rows), register), Set(p, m),
         UNCHANGED <<rows, wire, register, raced>>
  PROVE  Inv'
<1>1. proc' \in [Replicas -> Memory]
  BY DEF Inv, TypeOK, Set
<1>2. \A q \in Replicas : proc'[q] = IF q = p THEN m ELSE proc[q]
  BY DEF Inv, TypeOK, Set
<1>3. TypeOK'
  BY <1>1 DEF Inv, TypeOK
<1>4. OneRowPerLink' /\ ChainVerifies'
  BY DEF Inv, OneRowPerLink, ChainVerifies, verifyChain
<1>. QED  BY <1>2, <1>3, <1>4 DEF Inv

\* The invariant holds when nothing is recorded.
LEMMA InitInv == Init => Inv
<1>. SUFFICES ASSUME Init PROVE Inv
  OBVIOUS
<1>1. Len(rows) = 0 /\ rows \in Seq(AuditRecord)
  BY DEF Init
<1>2. PICK c \in BOOLEAN : proc = [p \in Replicas |-> Fresh(c)]
  BY DEF Init
<1>3. proc \in [Replicas -> Memory] /\ \A p \in Replicas : Window(proc[p], 0, register)
  BY <1>2, FreshMemory
<1>4. TypeOK
  <2>1. raced \in BOOLEAN /\ wire \subseteq Links
    BY DEF Init
  <2>2. register \in [Links -> Nat] /\ Len(rows) <= MaxLinks
    BY <1>1, BoundsAssumption DEF Init
  <2>. QED  BY <1>1, <1>3, <2>1, <2>2 DEF TypeOK
<1>5. OneRowPerLink /\ ChainVerifies
  BY <1>1 DEF Init, OneRowPerLink, ChainVerifies, verifyChain
<1>. QED  BY <1>1, <1>3, <1>4, <1>5 DEF Inv

\* append(): a link that follows the head it has read extends the walk.
LEMMA InsertStep ==
  ASSUME Inv, NEW p \in Replicas, Insert(p)
  PROVE  Inv'
<1>. DEFINE m == proc[p]
            s == Len(rows) + 1
            sent == IF m.configured THEN {s} ELSE {}
            link == linkOf(m.payload, m.head)
<1>1. /\ m \in Memory /\ Len(rows) \in Nat /\ s \in Links /\ sent \in SUBSET Links
      /\ rows \in Seq(AuditRecord)
  BY BoundsAssumption DEF Inv, TypeOK, Insert, Links
<1>2. link \in AuditRecord /\ link.prevHash = m.head
      /\ link.payload = m.payload /\ link.chainHash = chainHash(m.payload, m.head)
  BY <1>1 DEF Memory, linkOf, chainHash, AuditRecord
<1>3. rows' = Append(rows, link)
  BY DEF Insert
<1>. HIDE DEF link
<1>4. /\ rows' \in Seq(AuditRecord) /\ Len(rows') = s /\ DOMAIN rows' = 1 .. s
      /\ \A i \in 1 .. Len(rows) : rows'[i] = rows[i]
      /\ rows'[s] = link
  BY <1>1, <1>2, <1>3
<1>5. PICK e \in Memory : Set(p, e) /\ Window(e, s, register)
  <2>1. Set(p, noteazaSeqLocal(
            [m EXCEPT !.pc = "idle", !.head = GENESIS_HASH, !.writes = @ \cup sent], s))
    BY DEF Insert
  <2>2. Window(m, Len(rows), register)
    BY DEF Inv
  <2>. QED  BY <1>1, <2>1, <2>2, AppendedMemory
<1>6. proc' \in [Replicas -> Memory]
      /\ \A q \in Replicas : proc'[q] = IF q = p THEN e ELSE proc[q]
  BY <1>5 DEF Inv, TypeOK, Set
<1>7. wire' = wire \cup sent /\ register' = register /\ raced' = (raced \/ m.head # getHeadHash)
  BY DEF Insert
<1>8. TypeOK'
  <2>1. raced' \in BOOLEAN
    BY <1>7
  <2>2. Len(rows') <= MaxLinks
    BY <1>1, <1>4, BoundsAssumption DEF Links
  <2>3. wire' \subseteq Links /\ register' \in [Links -> Nat]
    BY <1>1, <1>7 DEF Inv, TypeOK
  <2>. QED  BY <1>4, <1>6, <2>1, <2>2, <2>3 DEF TypeOK
<1>9. OneRowPerLink'
  <2>1. \A x \in Links : register[x] \in Nat
    BY DEF Inv, TypeOK
  <2>2. register[s] = 0
    BY <1>1, <2>1 DEF Inv, OneRowPerLink
  <2>3. wire \subseteq Links /\ \A x \in Links : x \in Nat
    BY BoundsAssumption DEF Inv, TypeOK, Links
  <2>. QED  BY <1>1, <1>4, <1>7, <2>1, <2>2, <2>3 DEF Inv, OneRowPerLink
<1>10. ChainVerifies'
  <2>1. SUFFICES ASSUME ~raced, m.head = getHeadHash, NEW i \in DOMAIN rows'
                 PROVE  /\ rows'[i].prevHash =
                             IF i = 1 THEN GENESIS_HASH ELSE rows'[i - 1].chainHash
                        /\ rows'[i].chainHash = chainHash(rows'[i].payload, rows'[i].prevHash)
    BY <1>7 DEF ChainVerifies, verifyChain, chainHash
  <2>2. CASE i = s
    <3>1. i = 1 => rows = <<>>
      BY <1>1, <2>2
    <3>2. i # 1 => rows # <<>> /\ i - 1 = Len(rows) /\ i - 1 \in 1 .. Len(rows)
      BY <1>1, <2>2
    <3>. QED  BY <1>2, <1>4, <2>1, <2>2, <3>1, <3>2 DEF getHeadHash, Last
  <2>3. CASE i # s
    <3>1. i \in 1 .. Len(rows) /\ (i # 1 => i - 1 \in 1 .. Len(rows)) /\ i \in DOMAIN rows
      BY <1>1, <1>4, <2>1, <2>3
    <3>. QED  BY <1>4, <2>1, <3>1 DEF Inv, ChainVerifies, verifyChain
  <2>. QED  BY <2>2, <2>3
<1>11. \A q \in Replicas : Window(proc'[q], Len(rows'), register')
  <2>1. ASSUME NEW q \in Replicas PROVE Window(proc[q], s, register)
    <3>1. proc[q] \in Memory /\ Window(proc[q], Len(rows), register)
          /\ register \in [Links -> Nat]
      BY DEF Inv, TypeOK
    <3>2. \A x \in Links : register[x] <= register[x]
      BY <3>1
    <3>. QED  BY <1>1, <3>1, <3>2, WindowGrows
  <2>. QED  BY <1>4, <1>5, <1>6, <1>7, <2>1
<1>. QED  BY <1>8, <1>9, <1>10, <1>11 DEF Inv

\* A row that lands is the first of its link.
LEMMA RowStep ==
  ASSUME Inv, NEW s \in Links, RowLands(s) \/ RowLost(s)
  PROVE  Inv'
<1>1. /\ register \in [Links -> Nat] /\ wire \subseteq Links /\ Len(rows) \in Nat
      /\ s <= Len(rows) /\ register[s] = 0
  BY DEF Inv, TypeOK, OneRowPerLink, RowLands, RowLost
<1>2. register' \in {register, [register EXCEPT ![s] = 1]} /\ wire' = wire \ {s}
      /\ UNCHANGED <<rows, proc, raced>>
  BY <1>1 DEF RowLands, RowLost
<1>3. /\ register' \in [Links -> Nat]
      /\ \A x \in Links : register[x] <= register'[x] /\ (x # s => register'[x] = register[x])
      /\ register'[s] <= 1
  BY <1>1, <1>2
<1>4. TypeOK'
  BY <1>2, <1>3 DEF Inv, TypeOK
<1>5. OneRowPerLink'
  BY <1>1, <1>2, <1>3 DEF Inv, OneRowPerLink
<1>6. ChainVerifies'
  BY <1>2 DEF Inv, ChainVerifies, verifyChain
<1>7. ASSUME NEW p \in Replicas PROVE Window(proc[p], Len(rows), register')
  <2>1. proc[p] \in Memory /\ Window(proc[p], Len(rows), register)
    BY DEF Inv, TypeOK
  <2>2. Len(rows) <= Len(rows)
    BY <1>1
  <2>. QED  BY <1>1, <1>3, <2>1, <2>2, WindowGrows
<1>. QED  BY <1>2, <1>4, <1>5, <1>6, <1>7 DEF Inv

\* What a step may do to the memory of p: claim health only with a recent contact.
Local(p) ==
  \E m \in Memory :
    /\ Set(p, m) /\ Window(m, Len(rows), register)
    /\ m.healthy => m.confirmed \/ proc[p].healthy

\* The health report changes only the memory of its process.
LEMMA HealthStep ==
  ASSUME Inv, NEW p \in Replicas, Health(p)
  PROVE  Local(p)
<1>. DEFINE m == proc[p]
<1>0. m \in Memory /\ Window(m, Len(rows), register) /\ Len(rows) \in Nat
      /\ rows \in Seq(AuditRecord)
  BY DEF Inv, TypeOK
<1>1. CASE HealthRequest(p)
  <2>. DEFINE e == [m EXCEPT !.asked = countRecords, !.healthy = FALSE,
                             !.holes = numaraVerigiNeoglindite(m)]
  <2>1. /\ e \in Memory /\ Window(e, Len(rows), register)
        /\ e.holes = 0 => Stored(e, register)
        /\ e.memo => e.confirmed
    <3>1. ~m.waiting
      BY <1>1 DEF HealthRequest
    <3>. QED  BY <1>0, <3>1, AskedMemory DEF Window
  <2>2. Set(p, IF ~e.configured \/ e.memo THEN answered(e, e.memo)
               ELSE [e EXCEPT !.waiting = TRUE, !.probes = @ + 1])
    BY <1>1 DEF HealthRequest
  <2>3. e.healthy = FALSE
    BY <1>0 DEF Memory
  <2>. HIDE DEF e
  <2>4. /\ answered(e, e.memo) \in Memory /\ Window(answered(e, e.memo), Len(rows), register)
        /\ answered(e, e.memo).healthy => answered(e, e.memo).confirmed
    <3>1. e.memo \in BOOLEAN
      BY <2>1 DEF Memory
    <3>. QED  BY <1>0, <2>1, <3>1, AnsweredMemory
  <2>5. ASSUME NEW w, w = [e EXCEPT !.waiting = TRUE, !.probes = @ + 1]
        PROVE  w \in Memory /\ Window(w, Len(rows), register) /\ ~w.healthy
    <3>0. e.probes + 1 \in Nat
      BY <2>1 DEF Memory
    <3>1. w \in Memory
      BY <2>1, <2>5, <3>0 DEF Memory
    <3>2. /\ w.healthy = FALSE /\ w.holes = e.holes
          /\ w.asked = e.asked /\ w.first = e.first /\ w.seq_baza = e.seq_baza
          /\ w.seq_oglindite = e.seq_oglindite /\ w.memo = e.memo /\ w.confirmed = e.confirmed
      BY <2>1, <2>3, <2>5 DEF Memory
    <3>. QED  BY <2>1, <3>1, <3>2 DEF Window, Stored
  <2>6. CASE ~e.configured \/ e.memo
    BY <2>2, <2>4, <2>6 DEF Local
  <2>7. CASE ~(~e.configured \/ e.memo)
    BY <2>2, <2>5, <2>7 DEF Local
  <2>. QED  BY <2>6, <2>7
<1>2. ASSUME NEW ok \in BOOLEAN, NEW own \in BOOLEAN, ProbeAnswers(p, ok, own)
      PROVE  Local(p)
  <2>. DEFINE e == [m EXCEPT !.probes = @ - 1, !.memo = ok, !.confirmed = @ \/ ok]
  <2>1. m.probes - 1 \in Nat
    BY <1>0, <1>2 DEF ProbeAnswers, Memory
  <2>2. (m.confirmed \/ ok) \in BOOLEAN
    OBVIOUS
  <2>3. e \in Memory
    BY <1>0, <2>1, <2>2 DEF Memory
  <2>4. /\ e.waiting = m.waiting /\ e.healthy = m.healthy /\ e.holes = m.holes
        /\ e.asked = m.asked /\ e.first = m.first /\ e.seq_baza = m.seq_baza
        /\ e.seq_oglindite = m.seq_oglindite /\ e.memo = ok
        /\ e.confirmed = (m.confirmed \/ ok)
    BY <1>0 DEF Memory
  <2>5. Set(p, IF own THEN answered(e, ok) ELSE e) /\ (own => m.waiting)
    BY <1>2 DEF ProbeAnswers
  <2>. HIDE DEF e
  <2>6. Window(e, Len(rows), register)
    <3>1. e.memo => e.confirmed
      BY <2>4
    <3>. QED  BY <1>0, <2>4, <3>1 DEF Window, Stored
  <2>7. CASE own
    <3>1. e.holes = 0 => Stored(e, register)
      BY <1>0, <2>4, <2>5, <2>7 DEF Window, Stored
    <3>2. ok => e.confirmed
      BY <2>4
    <3>. QED  BY <1>0, <2>3, <2>5, <2>6, <2>7, <3>1, <3>2, AnsweredMemory DEF Local
  <2>8. CASE ~own
    <3>1. e.healthy => proc[p].healthy
      BY <2>4
    <3>. QED  BY <2>3, <2>5, <2>6, <2>8, <3>1 DEF Local
  <2>. QED  BY <2>7, <2>8
<1>3. CASE ProbeTooSlow(p)
  <2>1. m.holes = 0 => Stored(m, register)
    BY <1>0, <1>3 DEF ProbeTooSlow, Window
  <2>2. m.confirmed \in BOOLEAN
    BY <1>0 DEF Memory
  <2>3. Set(p, answered(m, m.confirmed))
    BY <1>3 DEF ProbeTooSlow, standsIn
  <2>. QED  BY <1>0, <2>1, <2>2, <2>3, AnsweredMemory DEF Local
<1>4. CASE MemoExpires(p) \/ ConfirmationExpires(p)
  <2>1. PICK e : /\ Set(p, e)
                 /\ \/ e = [m EXCEPT !.memo = FALSE]
                    \/ ~m.memo /\ e = [m EXCEPT !.confirmed = FALSE]
    BY <1>4 DEF MemoExpires, ConfirmationExpires
  <2>2. e \in Memory /\ Window(e, Len(rows), register) /\ e.healthy = m.healthy
    <3>0. [m EXCEPT !.memo = FALSE] \in Memory /\ [m EXCEPT !.confirmed = FALSE] \in Memory
      BY <1>0 DEF Memory
    <3>1. e \in Memory
      BY <2>1, <3>0
    <3>2. /\ e.waiting = m.waiting /\ e.healthy = m.healthy /\ e.holes = m.holes
          /\ e.asked = m.asked /\ e.first = m.first /\ e.seq_baza = m.seq_baza
          /\ e.seq_oglindite = m.seq_oglindite
      BY <1>0, <2>1 DEF Memory
    <3>3. e.memo => e.confirmed
      BY <1>0, <2>1 DEF Memory, Window
    <3>. QED  BY <1>0, <3>1, <3>2, <3>3 DEF Window, Stored
  <2>. QED  BY <2>1, <2>2 DEF Local
<1>. QED  BY <1>1, <1>2, <1>3, <1>4 DEF Health

\* append() reads the head; oglindesteVeriga() after its await; crash and restart.
LEMMA ProcessStep ==
  ASSUME Inv, NEW p \in Replicas,
         \/ ReadHead(p) \/ Crash(p) \/ Restart(p)
         \/ \E s \in Links : Mirror(p, s)
  PROVE  Local(p)
<1>. DEFINE m == proc[p]
<1>0. m \in Memory /\ Window(m, Len(rows), register) /\ Len(rows) \in Nat
      /\ rows \in Seq(AuditRecord)
  BY DEF Inv, TypeOK
<1>1. CASE ReadHead(p)
  <2>1. PICK d \in Payloads :
          Set(p, [m EXCEPT !.pc = "insert", !.head = getHeadHash, !.payload = d])
    BY <1>1 DEF ReadHead
  <2>2. getHeadHash \in Seq(Payloads)
    <3>1. rows # <<>> => rows[Len(rows)] \in AuditRecord
      BY <1>0
    <3>. QED  BY <3>1 DEF getHeadHash, GENESIS_HASH, AuditRecord, Last
  <2>. DEFINE e == [m EXCEPT !.pc = "insert", !.head = getHeadHash, !.payload = d]
  <2>3. e \in Memory
    BY <1>0, <2>2 DEF Memory
  <2>4. /\ e.waiting = m.waiting /\ e.healthy = m.healthy /\ e.holes = m.holes
        /\ e.asked = m.asked /\ e.first = m.first /\ e.seq_baza = m.seq_baza
        /\ e.seq_oglindite = m.seq_oglindite /\ e.memo = m.memo /\ e.confirmed = m.confirmed
    BY <1>0 DEF Memory
  <2>. HIDE DEF e
  <2>5. Window(e, Len(rows), register)
    BY <1>0, <2>4 DEF Window, Stored
  <2>. QED  BY <2>1, <2>3, <2>4, <2>5 DEF Local, e
<1>2. CASE Crash(p) \/ Restart(p)
  <2>1. PICK c \in BOOLEAN : \/ Set(p, Fresh(c))
                             \/ Set(p, [Fresh(c) EXCEPT !.up = FALSE])
    <3>1. m.configured \in BOOLEAN
      BY <1>0 DEF Memory
    <3>. QED  BY <1>2, <3>1 DEF Crash, Restart
  <2>2. ~Fresh(c).healthy /\ ~[Fresh(c) EXCEPT !.up = FALSE].healthy
    BY DEF Fresh
  <2>. QED  BY <1>0, <2>1, <2>2, FreshMemory DEF Local
<1>3. ASSUME NEW s \in Links, WriteConfirmed(p, s) PROVE Local(p)
  <2>. DEFINE e == [noteazaSeqOglindit(m, s) EXCEPT !.writes = @ \ {s}, !.acked = @ \cup {s}]
  <2>1. Set(p, e) /\ register[s] > 0
    BY <1>3 DEF WriteConfirmed, confirmat
  <2>2. e \in Memory /\ Window(e, Len(rows), register) /\ e.healthy = m.healthy
    BY <1>0, <2>1, ConfirmedMemory
  <2>. HIDE DEF e
  <2>. QED  BY <2>1, <2>2 DEF Local
<1>4. ASSUME NEW s \in Links, WriteFails(p, s) PROVE Local(p)
  <2>. DEFINE e == [m EXCEPT !.writes = @ \ {s}]
  <2>1. Set(p, e)
    BY <1>4 DEF WriteFails
  <2>2. e \in Memory
    BY <1>0 DEF Memory
  <2>3. /\ e.waiting = m.waiting /\ e.healthy = m.healthy /\ e.holes = m.holes
        /\ e.asked = m.asked /\ e.first = m.first /\ e.seq_baza = m.seq_baza
        /\ e.seq_oglindite = m.seq_oglindite /\ e.memo = m.memo /\ e.confirmed = m.confirmed
    BY <1>0 DEF Memory
  <2>. HIDE DEF e
  <2>4. Window(e, Len(rows), register)
    BY <1>0, <2>3 DEF Window, Stored
  <2>. QED  BY <2>1, <2>2, <2>3, <2>4 DEF Local
<1>. QED  BY <1>1, <1>2, <1>3, <1>4 DEF Mirror

\* The steps of a process other than the insert touch nothing but its memory.
LEMMA LocalFrame ==
  ASSUME NEW p \in Replicas,
         \/ ReadHead(p) \/ Crash(p) \/ Restart(p) \/ Health(p)
         \/ \E s \in Links : Mirror(p, s)
  PROVE  UNCHANGED <<rows, wire, register, raced>>
BY DEF ReadHead, Crash, Restart, Mirror, WriteConfirmed, WriteFails, Health, HealthRequest,
   ProbeTooSlow, MemoExpires, ConfirmationExpires, ProbeAnswers

\* Every step keeps the invariant.
LEMMA NextInv == Inv /\ [Next]_vars => Inv'
<1>. SUFFICES ASSUME Inv, [Next]_vars PROVE Inv'
  OBVIOUS
<1>1. ASSUME NEW p \in Replicas,
             \/ ReadHead(p) \/ Crash(p) \/ Restart(p) \/ Health(p)
             \/ \E s \in Links : Mirror(p, s)
      PROVE  Inv'
  <2>1. Local(p)
    BY <1>1, HealthStep, ProcessStep
  <2>. QED  BY <1>1, <2>1, LocalFrame, LocalStep DEF Local
<1>2. ASSUME NEW p \in Replicas, Insert(p) PROVE Inv'
  BY <1>2, InsertStep
<1>3. ASSUME NEW s \in Links, RowLands(s) \/ RowLost(s) PROVE Inv'
  BY <1>3, RowStep
<1>4. CASE UNCHANGED vars
  BY <1>4 DEF vars, Inv, TypeOK, OneRowPerLink, ChainVerifies, verifyChain
<1>. QED  BY <1>1, <1>2, <1>3, <1>4 DEF Next

\* The invariant holds in every reachable state.
LEMMA InvariantHolds == Spec => []Inv
BY InitInv, NextInv, PTL DEF Spec

-----------------------------------------------------------------------------
(***************************************************************************)
(* Theorems.                                                               *)
(***************************************************************************)
\* Type correctness of the chain, the register and the mirror's counters.
THEOREM TypeCorrect == Spec => []TypeOK
<1>1. Inv => TypeOK
  BY DEF Inv
<1>. QED  BY <1>1, InvariantHolds, PTL

\* verifyChain() succeeds as long as no two appends read one head.
THEOREM ChainAlwaysVerifies == Spec => []ChainVerifies
<1>1. Inv => ChainVerifies
  BY DEF Inv
<1>. QED  BY <1>1, InvariantHolds, PTL

\* The health report never calls a mirror complete that misses a link the
\* process has seen (numaraVerigiNeoglindite, raporteazaPersistenta).
THEOREM NeverFalseGreen == Spec => []NoFalseGreen
<1>1. Inv => NoFalseGreen
  BY DEF Inv, Window, Stored, NoFalseGreen
<1>. QED  BY <1>1, InvariantHolds, PTL

\* What GreenIsRecent says of one process.
Recent(p) == ~proc[p].healthy /\ proc'[p].healthy => proc'[p].confirmed

\* A report without degradation rests on a contact that the register confirmed
\* within the last minute (FERESTRA_CONFIRMARE_MS), also when its own probe is slow.
THEOREM GreenRestsOnContact == Spec => GreenIsRecent
<1>1. ASSUME Inv, [Next]_vars PROVE \A p \in Replicas : Recent(p)
  <2>1. ASSUME NEW q \in Replicas,
               \/ ReadHead(q) \/ Crash(q) \/ Restart(q) \/ Health(q)
               \/ \E s \in Links : Mirror(q, s)
        PROVE  \A p \in Replicas : Recent(p)
    <3>1. PICK m \in Memory : Set(q, m) /\ (m.healthy => m.confirmed \/ proc[q].healthy)
      BY <1>1, <2>1, HealthStep, ProcessStep DEF Local
    <3>2. \A p \in Replicas : proc'[p] = IF p = q THEN m ELSE proc[p]
      BY <1>1, <3>1 DEF Set, Inv, TypeOK
    <3>. QED  BY <3>1, <3>2 DEF Recent
  <2>2. ASSUME NEW q \in Replicas, Insert(q) PROVE \A p \in Replicas : Recent(p)
    <3>. DEFINE m == proc[q]
                s == Len(rows) + 1
                sent == IF m.configured THEN {s} ELSE {}
    <3>1. /\ m \in Memory /\ Len(rows) \in Nat /\ s \in Links /\ sent \in SUBSET Links
          /\ Window(m, Len(rows), register)
      BY <1>1, <2>2, BoundsAssumption DEF Inv, TypeOK, Insert, Links
    <3>. DEFINE e == noteazaSeqLocal(
                  [m EXCEPT !.pc = "idle", !.head = GENESIS_HASH, !.writes = @ \cup sent], s)
    <3>2. Set(q, e) /\ (e.healthy => m.healthy)
      <4>1. Set(q, e)
        BY <2>2 DEF Insert
      <4>2. e.healthy => m.healthy
        BY <3>1, AppendedMemory
      <4>. QED  BY <4>1, <4>2
    <3>. HIDE DEF e
    <3>3. \A p \in Replicas : proc'[p] = IF p = q THEN e ELSE proc[p]
      BY <1>1, <3>2 DEF Set, Inv, TypeOK
    <3>. QED  BY <3>2, <3>3 DEF Recent
  <2>3. ASSUME UNCHANGED proc PROVE \A p \in Replicas : Recent(p)
    BY <2>3 DEF Recent
  <2>. QED  BY <1>1, <2>1, <2>2, <2>3 DEF Next, vars, RowLands, RowLost
<1>2. Inv /\ [Next]_vars =>
        [\A p \in Replicas : ~proc[p].healthy /\ proc'[p].healthy => proc'[p].confirmed]_vars
  BY <1>1 DEF Recent
<1>. QED  BY <1>2, InvariantHolds, PTL DEF GreenIsRecent, Spec

\* The log and the copies that AuditLog sees.
Log == [s \in DOMAIN rows |-> rows[s].payload]
Copies == [s \in DOMAIN rows |-> register[s]]

\* The chain and its mirror implement the log with copies: an insert records its
\* payload at the end, a row that lands is the one copy of a recorded link, and
\* no other step is seen.
THEOREM MirrorImplementsLog == Spec => ImplementsLog
<1>1. Init => Abstract!Init
  BY DEF Init, Abstract!Init
<1>2. ASSUME Inv, [Next]_vars
      PROVE  [Abstract!Next]_<<Log, Copies>>
  <2>0. /\ rows \in Seq(AuditRecord) /\ Len(rows) \in Nat /\ DOMAIN rows = 1 .. Len(rows)
        /\ register \in [Links -> Nat]
    BY <1>2 DEF Inv, TypeOK
  <2>1. ASSUME NEW p \in Replicas, Insert(p) PROVE Abstract!Next
    <3>. DEFINE d == proc[p].payload
                link == linkOf(proc[p].payload, proc[p].head)
    <3>1. d \in Payloads
      BY <1>2 DEF Inv, TypeOK, Memory
    <3>2. rows' = Append(rows, link) /\ register' = register /\ link.payload = d
      BY <2>1 DEF Insert, linkOf
    <3>3. Len(rows) + 1 \in Links /\ register[Len(rows) + 1] = 0
      <4>1. Len(rows) + 1 \in Links
        BY <2>0, <2>1, BoundsAssumption DEF Insert, Links
      <4>. QED  BY <1>2, <2>0, <4>1 DEF Inv, OneRowPerLink
    <3>. HIDE DEF link
    <3>4. /\ DOMAIN rows' = 1 .. Len(rows) + 1
          /\ \A i \in 1 .. Len(rows) : rows'[i] = rows[i]
          /\ rows'[Len(rows) + 1] = link
      BY <2>0, <3>2
    <3>5. Log' = Append(Log, d) /\ Copies' = Append(Copies, 0)
      BY <2>0, <3>2, <3>3, <3>4 DEF Log, Copies
    <3>. QED  BY <3>1, <3>5 DEF Abstract!Next, Abstract!Record, Log, Copies
  <2>2. ASSUME NEW s \in Links, RowLands(s) PROVE Abstract!Next
    <3>1. s \in DOMAIN rows /\ register[s] = 0
      BY <1>2, <2>0, <2>2, BoundsAssumption DEF RowLands, Inv, OneRowPerLink, Links
    <3>2. rows' = rows /\ register' = [register EXCEPT ![s] = 1]
      BY <2>0, <2>2, <3>1 DEF RowLands
    <3>0. \A i \in DOMAIN rows : i \in Links
      BY <1>2, <2>0, BoundsAssumption DEF Inv, TypeOK, Links
    <3>3. Log' = Log /\ Copies[s] = 0 /\ s \in DOMAIN Log
      BY <3>1, <3>2 DEF Log, Copies
    <3>4. Copies' = [Copies EXCEPT ![s] = 1]
      BY <2>0, <3>0, <3>2 DEF Copies
    <3>. QED  BY <3>1, <3>3, <3>4 DEF Abstract!Next, Abstract!Copy, Log, Copies
  <2>3. ASSUME UNCHANGED <<rows, register>> PROVE UNCHANGED <<Log, Copies>>
    BY <2>3 DEF Log, Copies
  <2>. QED  BY <1>2, <2>1, <2>2, <2>3, LocalFrame DEF Next, vars, RowLost
<1>3. Inv /\ [Next]_vars =>
        [Abstract!Next]_<<[s \in DOMAIN rows |-> rows[s].payload],
                          [s \in DOMAIN rows |-> register[s]]>>
  BY <1>2 DEF Log, Copies
<1>. QED  BY <1>1, <1>3, InvariantHolds, PTL DEF ImplementsLog, Abstract!Spec, Spec
=============================================================================
