--------------------------- MODULE AlgorithmsProofs ---------------------------
(***************************************************************************)
(* Proofs about Algorithms, for answers of a planner, series of polls and  *)
(* documents of any length.                                                *)
(*                                                                         *)
(* The repaired plan can be carried out in its order: keep() is a          *)
(* subsequence; a round of Kahn's algorithm keeps RoundInv, which says how *)
(* the tasks placed and the tasks remaining relate to those of the answer, *)
(* and takes a task or an edge away; so after as many rounds as there are  *)
(* tasks and edges none remains.                                           *)
(*                                                                         *)
(* The sentinel's degradation is warranted by its readings: PollsInv says  *)
(* of the plane of every configuration where the ring keeps each reading,  *)
(* that the counter of a band is the length of its run of readings, that   *)
(* the current band is the confirmed one, and that the level is the one    *)
(* the ladder puts in force for the worst of the current bands.            *)
(*                                                                         *)
(* The chunks of a document cover it: LoopInv says of the state of the     *)
(* chunker's loop that the pieces cover the text up to the cursor, and a   *)
(* turn moves the cursor, so there are no more turns than characters.      *)
(***************************************************************************)
EXTENDS Algorithms, FiniteSetTheorems, NaturalsInduction, WellFoundedInduction, TLAPS

----------------------------------------------------------------------------
(* Counting, and finite sets.  The library's induction theorems take an     *)
(* operator; these take the set of the arguments for which a claim holds.   *)

LEMMA CountingUp ==
    ASSUME NEW Good, 0 \in Good, \A n \in Nat : n \in Good => n + 1 \in Good
    PROVE  Nat \subseteq Good
  <1> DEFINE R == OpToRel(<, Nat)
             Bad == Nat \ Good
  <1> SUFFICES ASSUME Bad # {} PROVE FALSE
    OBVIOUS
  <1>1. IsWellFoundedOn(R, Nat)
    BY NatLessThanWellFounded
  <1>2. \A m, n \in Nat : m < n => <<m, n>> \in R
    BY DEF OpToRel
  <1> HIDE DEF R
  <1>3. PICK n \in Bad : \A m \in Bad : <<m, n>> \notin R
    BY <1>1, WFMin
  <1>4. n - 1 \in Nat /\ n - 1 < n
    OBVIOUS
  <1>5. n - 1 \in Good
    BY <1>2, <1>3, <1>4
  <1>6. QED
    BY <1>4, <1>5

LEMMA AddingElements ==
    ASSUME NEW S, IsFiniteSet(S), NEW Good, {} \in Good,
           \A T \in SUBSET S : \A x \in S \ T : T \in Good => T \cup {x} \in Good
    PROVE  S \in Good
  <1> DEFINE Sizes == {n \in Nat : \A T \in SUBSET S : Cardinality(T) = n => T \in Good}
  <1>1. \A T \in SUBSET S : IsFiniteSet(T) /\ Cardinality(T) \in Nat
    BY FS_Subset, FS_CardinalityType
  <1>2. 0 \in Sizes
    BY <1>1, FS_EmptySet
  <1>3. ASSUME NEW n \in Nat, n \in Sizes PROVE n + 1 \in Sizes
    <2> SUFFICES ASSUME NEW T \in SUBSET S, Cardinality(T) = n + 1 PROVE T \in Good
      OBVIOUS
    <2>1. T # {}
      BY FS_EmptySet, n + 1 # 0
    <2>2. PICK x \in T : TRUE
      BY <2>1
    <2>3. Cardinality(T \ {x}) = n
      <3>1. IsFiniteSet(T)
        BY <1>1
      <3>2. Cardinality(T \ {x}) = Cardinality(T) - 1
        BY <3>1, FS_RemoveElement
      <3>3. QED
        BY <3>2
    <2>4. T \ {x} \in Good
      BY <1>3, <2>3
    <2>5. (T \ {x}) \cup {x} \in Good
      BY <2>4
    <2>6. (T \ {x}) \cup {x} = T
      OBVIOUS
    <2>7. QED
      BY <2>5, <2>6
  <1> HIDE DEF Sizes
  <1>4. Cardinality(S) \in Sizes
    BY <1>1, <1>2, <1>3, CountingUp
  <1>5. QED
    BY <1>4 DEF Sizes

LEMMA LeastPlace ==
    ASSUME NEW P \in SUBSET Nat, P # {}
    PROVE  \E i \in P : \A k \in P : i <= k
  <1> DEFINE Less == OpToRel(<, Nat)
  <1>1. IsWellFoundedOn(Less, Nat)
    BY NatLessThanWellFounded
  <1>2. \A m, n \in Nat : m < n => <<m, n>> \in Less
    BY DEF OpToRel
  <1> HIDE DEF Less
  <1>3. PICK n \in P : \A m \in P : <<m, n>> \notin Less
    BY <1>1, WFMin
  <1>4. ASSUME NEW m \in P PROVE n <= m
    <2>1. m \in Nat /\ n \in Nat
      OBVIOUS
    <2>2. ~(m < n)
      BY <1>2, <1>3, <2>1
    <2>3. QED
      BY <2>1, <2>2
  <1>5. QED
    BY <1>4

(* R is a strict order of S, a set of pairs.                                *)
StrictOrder(R, S) ==
    /\ \A x \in S : <<x, x>> \notin R
    /\ \A x, y, z \in S : <<x, y>> \in R /\ <<y, z>> \in R => <<x, z>> \in R
    /\ \A x, y \in S : x # y => <<x, y>> \in R \/ <<y, x>> \in R

Below(x, S, R) == {y \in S : <<y, x>> \in R}

(* Every place below the size of the set is that of one of its members.     *)
LEMMA EveryPlaceIsTaken ==
    ASSUME NEW S, IsFiniteSet(S), NEW R, StrictOrder(R, S),
           NEW n \in Nat, n < Cardinality(S)
    PROVE  \E x \in S : Cardinality(Below(x, S, R)) = n
  <1> DEFINE below(x) == Below(x, S, R)
             T == 0 .. Cardinality(S) - 1
             f == [x \in S |-> Cardinality(below(x))]
  <1>1. Cardinality(S) \in Nat
    BY FS_CardinalityType
  <1>2. ASSUME NEW x \in S
        PROVE  IsFiniteSet(below(x)) /\ Cardinality(below(x)) \in T
    <2>1. below(x) \subseteq S \ {x}
      BY DEF StrictOrder, Below
    <2>2. IsFiniteSet(S \ {x}) /\ Cardinality(S \ {x}) = Cardinality(S) - 1
      BY FS_RemoveElement
    <2>3. IsFiniteSet(below(x)) /\ Cardinality(below(x)) <= Cardinality(S \ {x})
      BY <2>1, <2>2, FS_Subset
    <2>4. Cardinality(below(x)) \in Nat
      BY <2>3, FS_CardinalityType
    <2>5. QED
      BY <1>1, <2>2, <2>3, <2>4
  <1>3. ASSUME NEW x \in S, NEW y \in S, <<x, y>> \in R
        PROVE  Cardinality(below(x)) < Cardinality(below(y))
    <2>1. below(x) \subseteq below(y) /\ x \in below(y) /\ x \notin below(x)
      BY <1>3 DEF StrictOrder, Below
    <2>2. below(x) # below(y)
      BY <2>1
    <2>3. /\ IsFiniteSet(below(y)) /\ Cardinality(below(x)) \in Nat
          /\ Cardinality(below(y)) \in Nat
      BY <1>1, <1>2
    <2> HIDE DEF below
    <2>4. Cardinality(below(x)) <= Cardinality(below(y)) /\ Cardinality(below(y)) # Cardinality(below(x))
      BY <2>1, <2>2, <2>3, FS_Subset
    <2>5. QED
      BY <2>3, <2>4
  <1>4. IsFiniteSet(T) /\ Cardinality(T) = Cardinality(S)
    <2>1. 0 \in Int /\ Cardinality(S) - 1 \in Int
      BY <1>1
    <2>2. /\ IsFiniteSet(T)
          /\ Cardinality(T) = IF 0 > Cardinality(S) - 1 THEN 0 ELSE Cardinality(S) - 1 - 0 + 1
      BY <2>1, FS_Interval
    <2>3. QED
      BY <1>1, <2>2
  <1>5. f \in [S -> T]
    BY <1>2
  <1>6. ASSUME NEW x \in S, NEW y \in S, f[x] = f[y] PROVE x = y
    <2>1. Cardinality(below(x)) = Cardinality(below(y)) /\ Cardinality(below(x)) \in Nat
      BY <1>1, <1>2, <1>6
    <2>2. <<x, y>> \notin R
      BY <1>3, <2>1
    <2>3. <<y, x>> \notin R
      BY <1>3, <2>1
    <2>4. QED
      BY <2>2, <2>3 DEF StrictOrder
  <1>7. f \in Injection(S, T)
    <2> HIDE DEF f, T
    <2>1. QED
      BY <1>5, <1>6 DEF Injection, IsInjective
  <1>8. f \in Surjection(S, T)
    <2> HIDE DEF f, T
    <2>1. QED
      BY <1>4, <1>7, FS_Injection
  <1>9. n \in T
    BY <1>1
  <1>10. PICK x \in S : f[x] = n
    <2> HIDE DEF f, T
    <2>1. QED
      BY <1>8, <1>9 DEF Surjection
  <1>11. QED
    BY <1>10

----------------------------------------------------------------------------
(* Subsequences.                                                            *)

(* The places that keep() reads: those of P, in rising order.               *)
LEMMA KeptPlaces ==
    ASSUME NEW P \in SUBSET Nat, IsFiniteSet(P)
    PROVE  /\ Cardinality(P) \in Nat
           /\ \E f \in [1 .. Cardinality(P) -> P] :
                 /\ \A s : keep(s, P) = [n \in 1 .. Cardinality(P) |-> s[f[n]]]
                 /\ \A m, n \in 1 .. Cardinality(P) : m < n => f[m] < f[n]
                 /\ \A i \in P : \E n \in 1 .. Cardinality(P) : f[n] = i
  <1> DEFINE Before == {pair \in P \X P : pair[1] < pair[2]}
             below(x) == {y \in P : y < x}
             place(m) == CHOOSE x \in P : Cardinality({y \in P : y < x}) = m - 1
             f == [m \in 1 .. Cardinality(P) |-> place(m)]
  <1>1. Cardinality(P) \in Nat
    BY FS_CardinalityType
  <1>2. StrictOrder(Before, P)
    BY DEF StrictOrder
  <1>3. \A i \in P : Below(i, P, Before) = below(i)
    BY DEF Below
  <1>4. ASSUME NEW n \in 1 .. Cardinality(P)
        PROVE  f[n] \in P /\ Cardinality(below(f[n])) = n - 1
    <2>1. n - 1 \in Nat /\ n - 1 < Cardinality(P)
      BY <1>1
    <2>2. PICK x \in P : Cardinality(Below(x, P, Before)) = n - 1
      <3>1. PICK m \in Nat : m = n - 1 /\ m < Cardinality(P)
        BY <2>1
      <3>2. PICK R : R = Before
        OBVIOUS
      <3>3. StrictOrder(R, P)
        BY <1>2, <3>2
      <3> HIDE DEF Before
      <3>4. \E x \in P : Cardinality(Below(x, P, R)) = m
        BY <3>1, <3>3, EveryPlaceIsTaken
      <3>5. QED
        BY <3>1, <3>2, <3>4
    <2>3. \E i \in P : Cardinality({k \in P : k < i}) = n - 1
      BY <1>3, <2>2
    <2>4. place(n) \in P /\ Cardinality({k \in P : k < place(n)}) = n - 1
      BY <2>3
    <2> HIDE DEF place
    <2>5. QED
      BY <2>4
  <1> HIDE DEF f
  <1>5. \A i \in P : IsFiniteSet(below(i)) /\ Cardinality(below(i)) \in Nat
    BY FS_Subset, FS_CardinalityType
  <1>6. ASSUME NEW i \in P, NEW k \in P, i < k
        PROVE  Cardinality(below(i)) < Cardinality(below(k))
    <2>1. below(i) \in SUBSET below(k) /\ i \in below(k) /\ i \notin below(i)
      <3>1. ASSUME NEW y \in P, y < i PROVE y < k
        BY <1>6, <3>1
      <3>2. i \in below(k) /\ i \notin below(i)
        BY <1>6
      <3>3. QED
        BY <3>1, <3>2
    <2>2. /\ Cardinality(below(i)) <= Cardinality(below(k))
          /\ Cardinality(below(k)) = Cardinality(below(i)) => below(k) = below(i)
      BY <1>5, <2>1, FS_Subset
    <2>3. below(k) # below(i)
      BY <2>1
    <2> HIDE DEF below
    <2>4. QED
      BY <1>5, <2>2, <2>3
  <1>7. ASSUME NEW m \in 1 .. Cardinality(P), NEW n \in 1 .. Cardinality(P), m < n
        PROVE  f[m] < f[n]
    <2>1. /\ f[m] \in P /\ f[n] \in P
          /\ Cardinality(below(f[m])) = m - 1 /\ Cardinality(below(f[n])) = n - 1
      BY <1>4
    <2> HIDE DEF below
    <2>2. ~(f[n] < f[m])
      <3>1. PICK a, b \in P : a = f[m] /\ b = f[n]
        BY <2>1
      <3>2. ASSUME b < a PROVE Cardinality(below(b)) < Cardinality(below(a))
        BY <1>6, <3>2
      <3>3. QED
        BY <1>1, <1>7, <2>1, <3>1, <3>2
    <2>3. f[m] # f[n]
      BY <1>1, <1>7, <2>1
    <2>4. f[m] \in Nat /\ f[n] \in Nat
      BY <2>1
    <2>5. QED
      BY <2>2, <2>3, <2>4
  <1>8. ASSUME NEW i \in P PROVE \E n \in 1 .. Cardinality(P) : f[n] = i
    <2> DEFINE n == Cardinality(below(i)) + 1
    <2>1. n \in 1 .. Cardinality(P)
      <3>1. below(i) \in SUBSET P /\ below(i) # P
        OBVIOUS
      <3>2. /\ Cardinality(below(i)) <= Cardinality(P)
            /\ Cardinality(P) = Cardinality(below(i)) => P = below(i)
        BY <3>1, FS_Subset
      <3>3. Cardinality(below(i)) \in Nat
        BY <1>5
      <3> HIDE DEF below
      <3>4. QED
        BY <1>1, <3>1, <3>2, <3>3
    <2>2. f[n] \in P /\ Cardinality(below(f[n])) = n - 1
      BY <1>4, <2>1
    <2>3. Cardinality(below(i)) \in Nat
      BY <1>5
    <2>4. Cardinality(below(f[n])) = Cardinality(below(i))
      BY <2>2, <2>3
    <2> HIDE DEF below, n
    <2>5. f[n] = i
      <3>1. PICK b \in P : b = f[n]
        BY <2>2
      <3>2. ASSUME b < i PROVE Cardinality(below(b)) < Cardinality(below(i))
        BY <1>6, <3>2
      <3>3. ASSUME i < b PROVE Cardinality(below(i)) < Cardinality(below(b))
        BY <1>6, <3>3
      <3>4. ~(f[n] < i) /\ ~(i < f[n])
        BY <2>3, <2>4, <3>1, <3>2, <3>3
      <3>5. f[n] \in Nat /\ i \in Nat
        BY <2>2
      <3>6. QED
        BY <3>4, <3>5
    <2>6. QED
      BY <2>1, <2>5
  <1>9. \A s : keep(s, P) = [n \in 1 .. Cardinality(P) |-> s[f[n]]]
    BY DEF keep, f
  <1>10. f \in [1 .. Cardinality(P) -> P]
    BY <1>4 DEF f
  <1>11. QED
    BY <1>1, <1>7, <1>8, <1>9, <1>10

(* keep() of a sequence is a subsequence of it.                             *)
Rising(f, n, P) ==
    /\ f \in [1 .. n -> P]
    /\ \A a, b \in 1 .. n : a < b => f[a] < f[b]
    /\ \A i \in P : \E a \in 1 .. n : f[a] = i

LEMMA KeptSubsequence ==
    ASSUME NEW S, NEW s \in Seq(S), NEW P \in SUBSET DOMAIN s
    PROVE  /\ keep(s, P) \in Seq(S)
           /\ \E f : /\ Rising(f, Len(keep(s, P)), P)
                     /\ \A n \in 1 .. Len(keep(s, P)) : keep(s, P)[n] = s[f[n]]
  <1>1. IsFiniteSet(P) /\ P \in SUBSET Nat
    <2>1. DOMAIN s = 1 .. Len(s) /\ Len(s) \in Nat
      OBVIOUS
    <2>2. IsFiniteSet(1 .. Len(s))
      BY <2>1, FS_Interval
    <2>3. QED
      BY <2>1, <2>2, FS_Subset
  <1>2. PICK f \in [1 .. Cardinality(P) -> P] :
                 /\ \A t : keep(t, P) = [n \in 1 .. Cardinality(P) |-> t[f[n]]]
                 /\ \A m, n \in 1 .. Cardinality(P) : m < n => f[m] < f[n]
                 /\ \A i \in P : \E n \in 1 .. Cardinality(P) : f[n] = i
    BY <1>1, KeptPlaces
  <1> DEFINE c == Cardinality(P)
  <1>3. c \in Nat
    BY <1>1, KeptPlaces
  <1> HIDE DEF c
  <1>4. keep(s, P) = [n \in 1 .. c |-> s[f[n]]]
    BY <1>2 DEF c
  <1>5. \A n \in 1 .. c : f[n] \in P /\ f[n] \in DOMAIN s /\ s[f[n]] \in S
    BY <1>2 DEF c
  <1>6. keep(s, P) \in Seq(S) /\ Len(keep(s, P)) = c
    BY <1>3, <1>4, <1>5
  <1>7. Rising(f, c, P)
    BY <1>2 DEF Rising, c
  <1>8. QED
    BY <1>4, <1>6, <1>7

----------------------------------------------------------------------------
(* Plans.                                                                   *)

\* Every dependency is a task placed earlier.
InOrder(s) ==
    \A i \in DOMAIN s : \A d : Names(s[i], d) => \E j \in 1 .. i - 1 : s[j].id = d

LEMMA KeptTasks ==
    ASSUME NEW s \in Seq(PlannedTask), NEW P \in SUBSET DOMAIN s
    PROVE  /\ keep(s, P) \in Seq(PlannedTask)
           /\ DistinctIds(s) => DistinctIds(keep(s, P))
           /\ \A i \in P : \E n \in DOMAIN keep(s, P) : keep(s, P)[n] = s[i]
           /\ \A n \in DOMAIN keep(s, P) : \E i \in P : keep(s, P)[n] = s[i]
  <1> DEFINE u == keep(s, P)
  <1>1. u \in Seq(PlannedTask)
    BY KeptSubsequence
  <1>2. PICK f : Rising(f, Len(u), P) /\ \A n \in 1 .. Len(u) : u[n] = s[f[n]]
    BY KeptSubsequence
  <1> HIDE DEF u
  <1>3. DOMAIN u = 1 .. Len(u) /\ Len(u) \in Nat
    BY <1>1
  <1>4. \A n \in DOMAIN u : f[n] \in P /\ f[n] \in DOMAIN s /\ u[n] = s[f[n]]
    BY <1>2, <1>3 DEF Rising
  <1>5. \A a, b \in DOMAIN u : f[a] = f[b] => a = b
    <2>1. DOMAIN s \subseteq Nat
      OBVIOUS
    <2>2. \A a, b \in DOMAIN u : a < b => f[a] < f[b]
      BY <1>2, <1>3 DEF Rising
    <2>3. \A a \in DOMAIN u : f[a] \in Nat /\ a \in Nat
      BY <1>3, <1>4, <2>1
    <2>4. QED
      BY <2>2, <2>3
  <1>6. DistinctIds(s) => DistinctIds(u)
    BY <1>4, <1>5 DEF DistinctIds
  <1>7. ASSUME NEW i \in P PROVE \E n \in DOMAIN u : u[n] = s[i]
    BY <1>2, <1>3 DEF Rising
  <1>8. QED
    BY <1>1, <1>4, <1>6, <1>7 DEF u

(* What is kept of a sequence of names are names of it.                     *)
LEMMA KeptNames ==
    ASSUME NEW s \in Seq(Name), NEW P \in SUBSET DOMAIN s
    PROVE  /\ keep(s, P) \in Seq(Name)
           /\ \A i \in P : \E n \in DOMAIN keep(s, P) : keep(s, P)[n] = s[i]
           /\ \A n \in DOMAIN keep(s, P) : \E i \in P : keep(s, P)[n] = s[i]
           /\ Len(keep(s, P)) = Cardinality(P)
  <1> DEFINE u == keep(s, P)
  <1>1. u \in Seq(Name)
    BY KeptSubsequence
  <1>2. PICK f : Rising(f, Len(u), P) /\ \A n \in 1 .. Len(u) : u[n] = s[f[n]]
    BY KeptSubsequence
  <1>3. Len(u) = Cardinality(P)
    <2>1. IsFiniteSet(P) /\ P \in SUBSET Nat
      <3>1. DOMAIN s = 1 .. Len(s) /\ Len(s) \in Nat
        OBVIOUS
      <3>2. IsFiniteSet(1 .. Len(s))
        BY <3>1, FS_Interval
      <3>3. QED
        BY <3>1, <3>2, FS_Subset
    <2>2. Cardinality(P) \in Nat
      BY <2>1, FS_CardinalityType
    <2>3. DOMAIN u = 1 .. Cardinality(P)
      BY DEF keep
    <2> HIDE DEF u
    <2>4. QED
      BY <1>1, <2>2, <2>3
  <1> HIDE DEF u
  <1>4. DOMAIN u = 1 .. Len(u) /\ Len(u) \in Nat
    BY <1>1
  <1>5. \A n \in DOMAIN u : f[n] \in P /\ u[n] = s[f[n]]
    BY <1>2, <1>4 DEF Rising
  <1>6. ASSUME NEW i \in P PROVE \E n \in DOMAIN u : u[n] = s[i]
    BY <1>2, <1>4 DEF Rising
  <1>7. QED
    BY <1>1, <1>3, <1>5, <1>6 DEF u

(* Severing an unmet dependency leaves a task with fewer of its own.        *)
LEMMA Severed ==
    ASSUME NEW s \in Seq(PlannedTask), NEW t \in PlannedTask, ~ready(t, s)
    PROVE  /\ severFirst(t, s) \in PlannedTask
           /\ severFirst(t, s).id = t.id /\ severFirst(t, s).agent = t.agent
           /\ \A d : Names(severFirst(t, s), d) => Names(t, d)
           /\ Len(severFirst(t, s).deps) < Len(t.deps)
  <1> DEFINE unmet == {i \in DOMAIN t.deps : t.deps[i] \in idsOf(s)}
             first == CHOOSE i \in unmet : \A k \in unmet : i <= k
             P == {i \in DOMAIN t.deps : t.deps[i] # t.deps[first]}
             u == keep(t.deps, P)
  <1>1. t.deps \in Seq(Name) /\ t.id \in Name /\ t.agent \in Name /\ t.urls \in BOOLEAN
    BY DEF PlannedTask
  <1>2. DOMAIN t.deps = 1 .. Len(t.deps) /\ Len(t.deps) \in Nat
    BY <1>1
  <1>3. unmet # {} /\ unmet \in SUBSET Nat
    BY <1>2 DEF ready
  <1>4. first \in unmet
    <2>1. \E i \in unmet : \A k \in unmet : i <= k
      <3> HIDE DEF unmet
      <3>1. QED
        BY <1>3, LeastPlace
    <2> HIDE DEF unmet
    <2>2. QED
      BY <2>1
  <1>5. P \in SUBSET DOMAIN t.deps /\ first \in DOMAIN t.deps /\ first \notin P
    BY <1>4
  <1>6. severFirst(t, s) = [t EXCEPT !.deps = u]
    BY Zenon DEF severFirst
  <1> HIDE DEF unmet, first, P
  <1>7. /\ u \in Seq(Name) /\ Len(u) = Cardinality(P)
        /\ \A n \in DOMAIN u : \E i \in P : u[n] = t.deps[i]
    BY <1>1, <1>5, KeptNames
  <1>8. Cardinality(P) < Len(t.deps)
    <2>1. IsFiniteSet(DOMAIN t.deps) /\ Cardinality(DOMAIN t.deps) = Len(t.deps)
      <3>1. PICK n \in Nat : n = Len(t.deps)
        BY <1>2
      <3>2. IsFiniteSet(1 .. n) /\ Cardinality(1 .. n) = IF 1 > n THEN 0 ELSE n - 1 + 1
        BY FS_Interval
      <3>3. Cardinality(1 .. n) = n
        BY <3>2
      <3>4. QED
        BY <1>2, <3>1, <3>2, <3>3
    <2>2. /\ IsFiniteSet(P) /\ Cardinality(P) <= Cardinality(DOMAIN t.deps)
          /\ Cardinality(DOMAIN t.deps) = Cardinality(P) => DOMAIN t.deps = P
      BY <1>5, <2>1, FS_Subset
    <2>3. Cardinality(P) \in Nat /\ DOMAIN t.deps # P
      BY <1>5, <2>2, FS_CardinalityType
    <2>4. QED
      BY <1>2, <2>1, <2>2, <2>3
  <1> HIDE DEF u
  <1>9. [t EXCEPT !.deps = u] = [id |-> t.id, agent |-> t.agent, deps |-> u, urls |-> t.urls]
    BY DEF PlannedTask
  <1>10. /\ severFirst(t, s) \in PlannedTask /\ severFirst(t, s).deps = u
         /\ severFirst(t, s).id = t.id /\ severFirst(t, s).agent = t.agent
    BY <1>1, <1>6, <1>7, <1>9 DEF PlannedTask
  <1>11. ASSUME NEW d, Names(severFirst(t, s), d) PROVE Names(t, d)
    BY <1>5, <1>7, <1>10, <1>11 DEF Names
  <1>12. QED
    BY <1>7, <1>8, <1>10, <1>11

Rounds == [ordered : Seq(PlannedTask), remaining : Seq(PlannedTask)]

\* A set of tasks each of which asks for one of them.
Cyclic(s) ==
    \E C \in SUBSET idsOf(s) : C # {} /\ \A x \in C : \E d \in C : Asked(s, x, d)

Splits(st, tasks) ==
    /\ st \in Rounds
    /\ DistinctIds(st.ordered) /\ DistinctIds(st.remaining)
    /\ idsOf(st.ordered) \cap idsOf(st.remaining) = {}
    /\ idsOf(st.ordered) \cup idsOf(st.remaining) = idsOf(tasks)

RoundInv(st, tasks) ==
    /\ Splits(st, tasks)
    /\ InOrder(st.ordered)
    /\ \A s \in {st.ordered, st.remaining} : \A i \in DOMAIN s :
           \E j \in DOMAIN tasks : s[i].id = tasks[j].id /\ s[i].agent = tasks[j].agent
    /\ \A x, d : Asked(st.ordered, x, d) \/ Asked(st.remaining, x, d) => Asked(tasks, x, d)
    /\ ~Cyclic(tasks) =>
           \A x, d : Asked(tasks, x, d) => Asked(st.ordered, x, d) \/ Asked(st.remaining, x, d)

\* Every dependency of a task of s is one of its tasks.
Closed(s) == \A x, d : Asked(s, x, d) => d \in idsOf(s)

free(s) == {i \in DOMAIN s : ready(s[i], s)}

\* The elements of u are those of o, then those of g.
Joins(u, o, g) ==
    /\ \A i \in DOMAIN o : i \in DOMAIN u /\ u[i] = o[i]
    /\ \A n \in DOMAIN g : Len(o) + n \in DOMAIN u /\ u[Len(o) + n] = g[n]
    /\ \A k \in DOMAIN u :
          \/ k \in DOMAIN o /\ u[k] = o[k]
          \/ \E n \in DOMAIN g : k = Len(o) + n /\ u[k] = g[n]

LEMMA Joined ==
    ASSUME NEW o \in Seq(PlannedTask), NEW g \in Seq(PlannedTask), NEW u, u = o \o g
    PROVE  u \in Seq(PlannedTask) /\ Joins(u, o, g)
  <1>1. /\ u \in Seq(PlannedTask) /\ Len(o) \in Nat /\ Len(g) \in Nat /\ Len(u) = Len(o) + Len(g)
        /\ DOMAIN u = 1 .. Len(o) + Len(g) /\ DOMAIN o = 1 .. Len(o) /\ DOMAIN g = 1 .. Len(g)
    OBVIOUS
  <1>2. \A k \in 1 .. Len(o) + Len(g) : u[k] = IF k <= Len(o) THEN o[k] ELSE g[k - Len(o)]
    OBVIOUS
  <1>3. ASSUME NEW i \in DOMAIN o
        PROVE  i \in DOMAIN u /\ u[i] = o[i]
    <2>1. i \in Nat /\ i <= Len(o) /\ i \in 1 .. Len(o) + Len(g)
      BY <1>1
    <2>2. QED
      BY <1>1, <1>2, <2>1
  <1>4. ASSUME NEW n \in DOMAIN g
        PROVE  Len(o) + n \in DOMAIN u /\ u[Len(o) + n] = g[n]
    <2>1. /\ n \in Nat /\ Len(o) + n \in 1 .. Len(o) + Len(g) /\ ~(Len(o) + n <= Len(o))
          /\ Len(o) + n - Len(o) = n
      BY <1>1
    <2>2. QED
      BY <1>1, <1>2, <2>1
  <1>5. ASSUME NEW k \in DOMAIN u
        PROVE  \/ k \in DOMAIN o /\ u[k] = o[k]
               \/ \E n \in DOMAIN g : k = Len(o) + n /\ u[k] = g[n]
    <2>1. k \in Nat /\ k \in 1 .. Len(o) + Len(g)
      BY <1>1
    <2>2. CASE k <= Len(o)
      BY <1>1, <1>2, <2>1, <2>2
    <2>3. CASE ~(k <= Len(o))
      <3>1. k - Len(o) \in DOMAIN g /\ k = Len(o) + (k - Len(o))
        BY <1>1, <2>1, <2>3
      <3>2. u[k] = g[k - Len(o)]
        BY <1>2, <2>1, <2>3
      <3>3. QED
        BY <3>1, <3>2
    <2>4. QED
      BY <2>2, <2>3
  <1>6. QED
    BY <1>1, <1>3, <1>4, <1>5 DEF Joins

LEMMA IdOf == ASSUME NEW s, NEW x PROVE x \in idsOf(s) <=> \E i \in DOMAIN s : s[i].id = x
  BY DEF idsOf

(* A round in which some tasks are ready places them.                       *)
LEMMA PlacingSplits ==
    ASSUME NEW tasks \in Seq(PlannedTask), NEW st, Splits(st, tasks),
           NEW go, go = keep(st.remaining, free(st.remaining)),
           NEW rest, rest = keep(st.remaining, DOMAIN st.remaining \ free(st.remaining)),
           NEW after, after = [ordered |-> st.ordered \o go, remaining |-> rest]
    PROVE  /\ Splits(after, tasks)
           /\ \A n \in DOMAIN go : \E i \in free(st.remaining) : go[n] = st.remaining[i]
           /\ \A n \in DOMAIN rest : \E i \in DOMAIN st.remaining : rest[n] = st.remaining[i]
           /\ \A i \in DOMAIN st.remaining :
                 \/ \E n \in DOMAIN go : go[n] = st.remaining[i]
                 \/ \E n \in DOMAIN rest : rest[n] = st.remaining[i]
           /\ go \in Seq(PlannedTask) /\ rest \in Seq(PlannedTask)
  <1> DEFINE r == st.remaining
             G == free(r)
             H == DOMAIN r \ G
  <1>1. /\ st.ordered \in Seq(PlannedTask) /\ r \in Seq(PlannedTask)
        /\ DistinctIds(st.ordered) /\ DistinctIds(r)
        /\ idsOf(st.ordered) \cap idsOf(r) = {}
        /\ idsOf(st.ordered) \cup idsOf(r) = idsOf(tasks)
    BY DEF Splits, Rounds
  <1>2. G \in SUBSET DOMAIN r /\ H \in SUBSET DOMAIN r /\ G \cap H = {} /\ G \cup H = DOMAIN r
    BY DEF free
  <1>3. go = keep(r, G) /\ rest = keep(r, H)
    OBVIOUS
  <1> HIDE DEF r, G, H
  <1>4. /\ go \in Seq(PlannedTask) /\ DistinctIds(go)
        /\ \A i \in G : \E n \in DOMAIN go : go[n] = r[i]
        /\ \A n \in DOMAIN go : \E i \in G : go[n] = r[i]
    BY <1>1, <1>2, <1>3, KeptTasks
  <1>5. /\ rest \in Seq(PlannedTask) /\ DistinctIds(rest)
        /\ \A i \in H : \E n \in DOMAIN rest : rest[n] = r[i]
        /\ \A n \in DOMAIN rest : \E i \in H : rest[n] = r[i]
    <2>1. /\ keep(r, H) \in Seq(PlannedTask) /\ DistinctIds(keep(r, H))
          /\ \A i \in H : \E n \in DOMAIN keep(r, H) : keep(r, H)[n] = r[i]
          /\ \A n \in DOMAIN keep(r, H) : \E i \in H : keep(r, H)[n] = r[i]
      BY <1>1, <1>2, KeptTasks
    <2>2. QED
      BY <1>3, <2>1
  <1>6. ASSUME NEW x
        PROVE  /\ x \in idsOf(r) => x \in idsOf(go) \/ x \in idsOf(rest)
               /\ x \in idsOf(go) \/ x \in idsOf(rest) => x \in idsOf(r)
    <2>1. ASSUME x \in idsOf(r) PROVE x \in idsOf(go) \/ x \in idsOf(rest)
      <3>1. PICK i \in DOMAIN r : r[i].id = x
        BY <2>1, IdOf
      <3>2. i \in G \/ i \in H
        BY <1>2
      <3>3. \/ \E n \in DOMAIN go : go[n].id = x
            \/ \E n \in DOMAIN rest : rest[n].id = x
        BY <1>4, <1>5, <3>1, <3>2
      <3>4. QED
        BY <3>3, IdOf
    <2>2. ASSUME x \in idsOf(go) PROVE x \in idsOf(r)
      <3>1. PICK n \in DOMAIN go : go[n].id = x
        BY <2>2, IdOf
      <3>2. \E i \in DOMAIN r : r[i].id = x
        BY <1>2, <1>4, <3>1
      <3>3. QED
        BY <3>2, IdOf
    <2>3. ASSUME x \in idsOf(rest) PROVE x \in idsOf(r)
      <3>1. PICK n \in DOMAIN rest : rest[n].id = x
        BY <2>3, IdOf
      <3>2. \E i \in DOMAIN r : r[i].id = x
        BY <1>2, <1>5, <3>1
      <3>3. QED
        BY <3>2, IdOf
    <2>4. QED
      BY <2>1, <2>2, <2>3
  <1>7. ASSUME NEW x, x \in idsOf(go), x \in idsOf(rest) PROVE FALSE
    <2>1. PICK a \in DOMAIN go : go[a].id = x
      <3>1. x \in idsOf(go)
        BY <1>7
      <3>2. QED
        BY <3>1, IdOf
    <2>2. PICK b \in DOMAIN rest : rest[b].id = x
      <3>1. x \in idsOf(rest)
        BY <1>7
      <3>2. QED
        BY <3>1, IdOf
    <2>3. PICK i \in G : go[a] = r[i]
      BY <1>4
    <2>4. PICK k \in H : rest[b] = r[k]
      BY <1>5
    <2>5. i = k
      BY <1>1, <1>2, <2>1, <2>2, <2>3, <2>4 DEF DistinctIds
    <2>6. QED
      BY <1>2, <2>5
  <1> DEFINE o == st.ordered
             u == o \o go
  <1>8. /\ u \in Seq(PlannedTask)
        /\ \A i \in DOMAIN o : i \in DOMAIN u /\ u[i] = o[i]
        /\ \A n \in DOMAIN go : Len(o) + n \in DOMAIN u /\ u[Len(o) + n] = go[n]
        /\ \A k \in DOMAIN u :
              \/ k \in DOMAIN o /\ u[k] = o[k]
              \/ \E n \in DOMAIN go : k = Len(o) + n /\ u[k] = go[n]
    <2>1. o \in Seq(PlannedTask) /\ go \in Seq(PlannedTask)
      BY <1>1, <1>4
    <2>2. u = o \o go
      OBVIOUS
    <2> HIDE DEF o, u
    <2>3. u \in Seq(PlannedTask) /\ Joins(u, o, go)
      BY <2>1, <2>2, Joined
    <2>4. QED
      BY <2>3 DEF Joins
  <1>9. o \in Seq(PlannedTask) /\ DistinctIds(o) /\ idsOf(o) \cap idsOf(r) = {}
    BY <1>1
  <1>10. after = [ordered |-> u, remaining |-> rest] /\ idsOf(o) \cup idsOf(r) = idsOf(tasks)
    BY <1>1
  <1> HIDE DEF u, o
  <1>11. DistinctIds(u)
    <2>1. SUFFICES ASSUME NEW a \in DOMAIN u, NEW b \in DOMAIN u, u[a].id = u[b].id PROVE a = b
      BY DEF DistinctIds
    <2>2. CASE a \in DOMAIN o /\ u[a] = o[a] /\ b \in DOMAIN o /\ u[b] = o[b]
      BY <1>9, <2>1, <2>2 DEF DistinctIds
    <2>3. ASSUME NEW m \in DOMAIN go, NEW n \in DOMAIN go, a = Len(o) + m, u[a] = go[m],
                 b = Len(o) + n, u[b] = go[n]
          PROVE  a = b
      BY <1>4, <2>1, <2>3 DEF DistinctIds
    <2>4. ASSUME NEW i \in DOMAIN o, NEW n \in DOMAIN go, o[i].id = go[n].id PROVE FALSE
      <3>1. o[i].id \in idsOf(o) /\ go[n].id \in idsOf(go)
        BY IdOf
      <3>2. QED
        BY <1>6, <1>9, <2>4, <3>1
    <2>5. QED
      BY <1>8, <2>1, <2>2, <2>3, <2>4
  <1>12. ASSUME NEW x PROVE x \in idsOf(u) <=> x \in idsOf(o) \/ x \in idsOf(go)
    <2>1. ASSUME x \in idsOf(u) PROVE x \in idsOf(o) \/ x \in idsOf(go)
      <3>1. PICK k \in DOMAIN u : u[k].id = x
        BY <2>1, IdOf
      <3>2. \/ \E i \in DOMAIN o : o[i].id = x
            \/ \E n \in DOMAIN go : go[n].id = x
        BY <1>8, <3>1
      <3>3. QED
        BY <3>2, IdOf
    <2>2. ASSUME x \in idsOf(o) PROVE x \in idsOf(u)
      <3>1. \E k \in DOMAIN u : u[k].id = x
        BY <1>8, <2>2, IdOf
      <3>2. QED
        BY <3>1, IdOf
    <2>3. ASSUME x \in idsOf(go) PROVE x \in idsOf(u)
      <3>1. PICK n \in DOMAIN go : go[n].id = x
        BY <2>3, IdOf
      <3>2. u[Len(o) + n].id = x /\ Len(o) + n \in DOMAIN u
        BY <1>8, <3>1
      <3>3. QED
        BY <3>2, IdOf
    <2>4. QED
      BY <2>1, <2>2, <2>3
  <1>13. Splits(after, tasks)
    <2>1. after.ordered = u /\ after.remaining = rest
      <3>1. [ordered |-> u, remaining |-> rest].ordered = u /\ [ordered |-> u, remaining |-> rest].remaining = rest
        OBVIOUS
      <3>2. QED
        BY <1>10, <3>1, Zenon
    <2>2. after \in Rounds
      <3>1. [ordered |-> u, remaining |-> rest] \in Rounds
        BY <1>5, <1>8 DEF Rounds
      <3>2. QED
        BY <1>10, <3>1, Zenon
    <2>3. idsOf(u) \cap idsOf(rest) = {} /\ idsOf(u) \cup idsOf(rest) = idsOf(tasks)
      BY <1>6, <1>7, <1>9, <1>10, <1>12
    <2>4. QED
      BY <1>5, <1>11, <2>1, <2>2, <2>3 DEF Splits
  <1>14. \A i \in DOMAIN r : i \in G \/ i \in H
    BY <1>2
  <1>15. QED
    BY <1>2, <1>4, <1>5, <1>13, <1>14 DEF r, G

LEMMA NoneReadyIsCyclic ==
    ASSUME NEW tasks \in Seq(PlannedTask), NEW st, RoundInv(st, tasks),
           st.remaining # <<>>, free(st.remaining) = {}
    PROVE  Cyclic(tasks)
  <1> DEFINE r == st.remaining
             C == idsOf(r)
  <1>1. /\ r \in Seq(PlannedTask) /\ C \in SUBSET idsOf(tasks)
        /\ \A x, d : Asked(r, x, d) => Asked(tasks, x, d)
    BY DEF RoundInv, Splits, Rounds
  <1>2. r # <<>> /\ \A i \in DOMAIN r : ~ready(r[i], r)
    BY DEF free
  <1> HIDE DEF r
  <1>3. 1 \in DOMAIN r
    BY <1>1, <1>2
  <1>4. C # {}
    BY <1>3, IdOf
  <1>5. ASSUME NEW x \in C PROVE \E d \in C : Asked(tasks, x, d)
    <2>1. PICK i \in DOMAIN r : r[i].id = x
      BY IdOf
    <2>2. PICK k \in DOMAIN r[i].deps : r[i].deps[k] \in C
      BY <1>2 DEF ready
    <2>3. Asked(r, x, r[i].deps[k])
      BY <2>1 DEF Asked, Names
    <2>4. QED
      BY <1>1, <2>2, <2>3
  <1> HIDE DEF C
  <1>6. QED
    BY <1>1, <1>4, <1>5 DEF Cyclic

\* t takes the place of the first task, and asks for less.
Lightens(after, r, t) ==
    /\ after \in Seq(PlannedTask) /\ DOMAIN after = DOMAIN r /\ 1 \in DOMAIN r
    /\ after[1] = t /\ t \in PlannedTask /\ Len(t.deps) < Len(r[1].deps)
    /\ t.id = r[1].id /\ t.agent = r[1].agent /\ \A d : Names(t, d) => Names(r[1], d)
    /\ \A i \in DOMAIN r \ {1} : after[i] = r[i]
    /\ Len(after) = Len(r)

(* A round in which none is ready changes the first task that remains.      *)
LEMMA SeveringChanges ==
    ASSUME NEW r \in Seq(PlannedTask), r # <<>>, free(r) = {},
           NEW t, t = severFirst(Head(r), r), NEW after, after = <<t>> \o Tail(r)
    PROVE  Lightens(after, r, t)
  <1>1. 1 \in DOMAIN r /\ Head(r) = r[1] /\ r[1] \in PlannedTask /\ Tail(r) \in Seq(PlannedTask)
    OBVIOUS
  <1>2. ~ready(r[1], r)
    BY <1>1 DEF free
  <1>3. /\ t \in PlannedTask /\ Len(t.deps) < Len(r[1].deps)
        /\ t.id = r[1].id /\ t.agent = r[1].agent /\ \A d : Names(t, d) => Names(r[1], d)
    BY <1>1, <1>2, Severed
  <1>4. /\ DOMAIN r = 1 .. Len(r) /\ Len(r) \in Nat /\ Len(Tail(r)) = Len(r) - 1
        /\ \A i \in 1 .. Len(r) - 1 : Tail(r)[i] = r[i + 1]
    OBVIOUS
  <1>5. <<t>> \in Seq(PlannedTask) /\ Len(<<t>>) = 1 /\ <<t>>[1] = t
    BY <1>3
  <1>6. after \in Seq(PlannedTask) /\ Joins(after, <<t>>, Tail(r))
    BY <1>1, <1>5, Joined
  <1>7. Len(after) = Len(r)
    BY <1>1, <1>4, <1>5
  <1>8. after[1] = t
    BY <1>5, <1>6 DEF Joins
  <1>9. ASSUME NEW i \in DOMAIN r \ {1} PROVE after[i] = r[i]
    <2>1. i - 1 \in DOMAIN Tail(r) /\ 1 + (i - 1) = i /\ i - 1 \in 1 .. Len(r) - 1 /\ (i - 1) + 1 = i
      BY <1>1, <1>4
    <2>2. after[Len(<<t>>) + (i - 1)] = Tail(r)[i - 1]
      BY <1>6, <2>1 DEF Joins
    <2>3. QED
      BY <1>4, <1>5, <2>1, <2>2
  <1>10. QED
    BY <1>1, <1>3, <1>4, <1>6, <1>7, <1>8, <1>9 DEF Lightens

(* What a round does: nothing, severing, or placing.                        *)
LEMMA RoundCases ==
    ASSUME NEW st
    PROVE  /\ st.remaining = <<>> => round(st) = st
           /\ st.remaining # <<>> /\ free(st.remaining) = {} =>
                 round(st) = [st EXCEPT !.remaining =
                                 <<severFirst(Head(st.remaining), st.remaining)>> \o Tail(st.remaining)]
           /\ st.remaining # <<>> /\ free(st.remaining) # {} =>
                 round(st) = [ordered |-> st.ordered \o keep(st.remaining, free(st.remaining)),
                              remaining |-> keep(st.remaining,
                                                 DOMAIN st.remaining \ free(st.remaining))]
  BY Zenon DEF round, free

LEMMA SeveringKeeps ==
    ASSUME NEW tasks \in Seq(PlannedTask), NEW st, RoundInv(st, tasks),
           st.remaining # <<>>, free(st.remaining) = {}
    PROVE  RoundInv(round(st), tasks)
  <1> DEFINE r == st.remaining
             o == st.ordered
             t == severFirst(Head(r), r)
             s == <<t>> \o Tail(r)
  <1>1. /\ st = [ordered |-> o, remaining |-> r]
        /\ o \in Seq(PlannedTask) /\ r \in Seq(PlannedTask)
    BY DEF RoundInv, Splits, Rounds
  <1>2. round(st) = [st EXCEPT !.remaining = s]
    BY RoundCases
  <1>3. /\ s \in Seq(PlannedTask) /\ DOMAIN s = DOMAIN r
        /\ s[1] = t /\ t.id = r[1].id /\ t.agent = r[1].agent /\ \A d : Names(t, d) => Names(r[1], d)
        /\ \A i \in DOMAIN r \ {1} : s[i] = r[i]
    <2>1. s = <<t>> \o Tail(r) /\ t = severFirst(Head(r), r) /\ r # <<>> /\ free(r) = {}
      OBVIOUS
    <2> HIDE DEF s, t, r
    <2>2. Lightens(s, r, t)
      BY <1>1, <2>1, SeveringChanges
    <2>3. QED
      BY <2>2 DEF Lightens
  <1>4. round(st) = [ordered |-> o, remaining |-> s]
    <2> HIDE DEF o, r, s
    <2>1. [st EXCEPT !.remaining = s] = [ordered |-> o, remaining |-> s]
      BY <1>1
    <2>2. QED
      BY <1>2, <2>1
  <1>5. /\ DistinctIds(o) /\ DistinctIds(r) /\ idsOf(o) \cap idsOf(r) = {}
        /\ idsOf(o) \cup idsOf(r) = idsOf(tasks) /\ InOrder(o)
        /\ \A i \in DOMAIN o : \E j \in DOMAIN tasks : o[i].id = tasks[j].id /\ o[i].agent = tasks[j].agent
        /\ \A i \in DOMAIN r : \E j \in DOMAIN tasks : r[i].id = tasks[j].id /\ r[i].agent = tasks[j].agent
        /\ \A x, d : Asked(o, x, d) \/ Asked(r, x, d) => Asked(tasks, x, d)
    BY DEF RoundInv, Splits
  <1>6. Cyclic(tasks)
    BY NoneReadyIsCyclic
  <1> HIDE DEF r, o, t, s
  <1>7. \A i \in DOMAIN r : s[i].id = r[i].id /\ s[i].agent = r[i].agent
    BY <1>3
  <1>8. idsOf(s) = idsOf(r)
    BY <1>3, <1>7 DEF idsOf
  <1>9. DistinctIds(s)
    BY <1>3, <1>5, <1>7 DEF DistinctIds
  <1>10. ASSUME NEW x, NEW d, Asked(s, x, d) PROVE Asked(r, x, d)
    <2>1. PICK i \in DOMAIN r : s[i].id = x /\ Names(s[i], d)
      BY <1>3, <1>10 DEF Asked
    <2>2. r[i].id = x /\ Names(r[i], d)
      BY <1>3, <1>7, <2>1
    <2>3. QED
      BY <2>2 DEF Asked
  <1> DEFINE after == [ordered |-> o, remaining |-> s]
  <1>11. after.ordered = o /\ after.remaining = s /\ after \in Rounds
    BY <1>1, <1>3 DEF Rounds
  <1> HIDE DEF after
  <1>12. Splits(after, tasks)
    BY <1>5, <1>8, <1>9, <1>11 DEF Splits
  <1>13. \A u \in {o, s} : \A i \in DOMAIN u :
             \E j \in DOMAIN tasks : u[i].id = tasks[j].id /\ u[i].agent = tasks[j].agent
    BY <1>3, <1>5, <1>7
  <1>14. RoundInv(after, tasks)
    BY <1>5, <1>6, <1>10, <1>11, <1>12, <1>13 DEF RoundInv
  <1>15. QED
    BY <1>4, <1>14 DEF after

LEMMA PlacingKeeps ==
    ASSUME NEW tasks \in Seq(PlannedTask), Closed(tasks), NEW st, RoundInv(st, tasks),
           st.remaining # <<>>, free(st.remaining) # {}
    PROVE  RoundInv(round(st), tasks)
  <1> DEFINE r == st.remaining
             o == st.ordered
             go == keep(r, free(r))
             rest == keep(r, DOMAIN r \ free(r))
             u == o \o go
             after == [ordered |-> u, remaining |-> rest]
  <1>1. /\ o \in Seq(PlannedTask) /\ r \in Seq(PlannedTask)
        /\ Splits(st, tasks) /\ InOrder(o) /\ idsOf(o) \cup idsOf(r) = idsOf(tasks)
        /\ \A i \in DOMAIN o : \E j \in DOMAIN tasks : o[i].id = tasks[j].id /\ o[i].agent = tasks[j].agent
        /\ \A i \in DOMAIN r : \E j \in DOMAIN tasks : r[i].id = tasks[j].id /\ r[i].agent = tasks[j].agent
        /\ \A x, d : Asked(o, x, d) \/ Asked(r, x, d) => Asked(tasks, x, d)
        /\ ~Cyclic(tasks) => \A x, d : Asked(tasks, x, d) => Asked(o, x, d) \/ Asked(r, x, d)
    BY DEF RoundInv, Splits, Rounds
  <1>2. round(st) = after
    BY RoundCases
  <1>3. /\ Splits(after, tasks)
        /\ \A n \in DOMAIN go : \E i \in free(r) : go[n] = r[i]
        /\ \A n \in DOMAIN rest : \E i \in DOMAIN r : rest[n] = r[i]
        /\ \A i \in DOMAIN r :
              \/ \E n \in DOMAIN go : go[n] = r[i]
              \/ \E n \in DOMAIN rest : rest[n] = r[i]
        /\ go \in Seq(PlannedTask) /\ rest \in Seq(PlannedTask)
    BY <1>1, PlacingSplits
  <1>4. after.ordered = u /\ after.remaining = rest
    OBVIOUS
  <1>5. u = o \o go
    OBVIOUS
  <1> HIDE DEF r, o, go, rest, u, after
  <1>6. u \in Seq(PlannedTask) /\ Joins(u, o, go)
    BY <1>1, <1>3, <1>5, Joined
  <1>7. DOMAIN o = 1 .. Len(o) /\ Len(o) \in Nat /\ DOMAIN go \subseteq Nat \ {0}
    BY <1>1, <1>3
  <1>8. \A i \in free(r) : i \in DOMAIN r /\ ready(r[i], r)
    BY DEF free
  <1>9. ASSUME NEW n \in DOMAIN go, NEW d, Names(go[n], d) PROVE \E j \in DOMAIN o : o[j].id = d
    <2>1. PICK i \in free(r) : go[n] = r[i]
      BY <1>3
    <2>2. d \notin idsOf(r)
      BY <1>8, <1>9, <2>1 DEF ready, Names
    <2>3. Asked(r, r[i].id, d)
      BY <1>8, <1>9, <2>1 DEF Asked
    <2>4. d \in idsOf(tasks)
      BY <1>1, <2>3 DEF Closed
    <2>5. d \in idsOf(o)
      BY <1>1, <2>2, <2>4
    <2>6. QED
      BY <2>5, IdOf
  <1>10. InOrder(u)
    <2>1. SUFFICES ASSUME NEW i \in DOMAIN u, NEW d, Names(u[i], d)
                   PROVE  \E j \in 1 .. i - 1 : u[j].id = d
      BY DEF InOrder
    <2>2. CASE i \in DOMAIN o /\ u[i] = o[i]
      <3>1. PICK j \in 1 .. i - 1 : o[j].id = d
        BY <1>1, <2>1, <2>2 DEF InOrder
      <3>2. j \in DOMAIN o
        BY <1>7, <2>2
      <3>3. u[j].id = d
        BY <1>6, <3>1, <3>2 DEF Joins
      <3>4. QED
        BY <3>3
    <2>3. ASSUME NEW n \in DOMAIN go, i = Len(o) + n, u[i] = go[n]
          PROVE  \E j \in 1 .. i - 1 : u[j].id = d
      <3>1. PICK j \in DOMAIN o : o[j].id = d
        BY <1>9, <2>1, <2>3
      <3>2. u[j].id = d
        BY <1>6, <3>1 DEF Joins
      <3>3. j \in 1 .. i - 1
        BY <1>7, <2>3
      <3>4. QED
        BY <3>2, <3>3
    <2>4. QED
      BY <1>6, <2>2, <2>3 DEF Joins
  <1>11. ASSUME NEW x, NEW d
         PROVE  Asked(u, x, d) <=> Asked(o, x, d) \/ Asked(go, x, d)
    BY <1>6 DEF Joins, Asked
  <1>12. ASSUME NEW x, NEW d
         PROVE  Asked(r, x, d) <=> Asked(go, x, d) \/ Asked(rest, x, d)
    BY <1>3, <1>8 DEF Asked
  <1>13. \A i \in DOMAIN u : \E j \in DOMAIN tasks : u[i].id = tasks[j].id /\ u[i].agent = tasks[j].agent
    <2>1. SUFFICES ASSUME NEW i \in DOMAIN u
                   PROVE  \E j \in DOMAIN tasks : u[i].id = tasks[j].id /\ u[i].agent = tasks[j].agent
      OBVIOUS
    <2>2. CASE i \in DOMAIN o /\ u[i] = o[i]
      BY <1>1, <2>2
    <2>3. ASSUME NEW n \in DOMAIN go, u[i] = go[n]
          PROVE  \E j \in DOMAIN tasks : u[i].id = tasks[j].id /\ u[i].agent = tasks[j].agent
      <3>1. PICK k \in DOMAIN r : go[n] = r[k]
        BY <1>3, <1>8
      <3>2. QED
        BY <1>1, <2>3, <3>1
    <2>4. QED
      BY <1>6, <2>2, <2>3 DEF Joins
  <1>14. \A i \in DOMAIN rest :
            \E j \in DOMAIN tasks : rest[i].id = tasks[j].id /\ rest[i].agent = tasks[j].agent
    <2>1. SUFFICES ASSUME NEW i \in DOMAIN rest
                   PROVE  \E j \in DOMAIN tasks : rest[i].id = tasks[j].id /\ rest[i].agent = tasks[j].agent
      OBVIOUS
    <2>2. PICK k \in DOMAIN r : rest[i] = r[k]
      BY <1>3
    <2>3. PICK j \in DOMAIN tasks : r[k].id = tasks[j].id /\ r[k].agent = tasks[j].agent
      BY <1>1
    <2>4. QED
      BY <2>2, <2>3
  <1>15. \A s \in {u, rest} : \A i \in DOMAIN s :
             \E j \in DOMAIN tasks : s[i].id = tasks[j].id /\ s[i].agent = tasks[j].agent
    BY <1>13, <1>14
  <1>16. \A x, d : Asked(u, x, d) \/ Asked(rest, x, d) <=> Asked(o, x, d) \/ Asked(r, x, d)
    BY <1>11, <1>12
  <1>17. RoundInv(after, tasks)
    BY <1>1, <1>3, <1>4, <1>10, <1>15, <1>16 DEF RoundInv
  <1>18. QED
    BY <1>2, <1>17

LEMMA PlacesOf ==
    ASSUME NEW S, NEW s \in Seq(S)
    PROVE  IsFiniteSet(DOMAIN s) /\ Cardinality(DOMAIN s) = Len(s)
  <1>1. DOMAIN s = 1 .. Len(s) /\ Len(s) \in Nat
    OBVIOUS
  <1>2. PICK n \in Nat : n = Len(s)
    BY <1>1
  <1>3. IsFiniteSet(1 .. n) /\ Cardinality(1 .. n) = IF 1 > n THEN 0 ELSE n - 1 + 1
    BY FS_Interval
  <1>4. Cardinality(1 .. n) = n
    BY <1>3
  <1>5. QED
    BY <1>1, <1>2, <1>3, <1>4

LEMMA DepsOf ==
    ASSUME NEW s \in Seq(PlannedTask), NEW i \in DOMAIN s
    PROVE  s[i] \in PlannedTask /\ s[i].deps \in Seq(Name) /\ IsFiniteSet(DOMAIN s[i].deps)
  <1>1. s[i] \in PlannedTask
    OBVIOUS
  <1>2. s[i].deps \in Seq(Name)
    BY <1>1 DEF PlannedTask
  <1>3. QED
    BY <1>1, <1>2, PlacesOf

LEMMA EdgesAreFinite ==
    ASSUME NEW s \in Seq(PlannedTask)
    PROVE  IsFiniteSet(edgesOf(s))
  <1> DEFINE at(i) == {i} \X DOMAIN s[i].deps
             of(T) == UNION {at(i) : i \in T}
             Good == {T \in SUBSET DOMAIN s : IsFiniteSet(of(T))}
  <1>1. {} \in Good
    BY FS_EmptySet
  <1>2. ASSUME NEW T \in SUBSET DOMAIN s, NEW x \in DOMAIN s \ T, T \in Good
        PROVE  T \cup {x} \in Good
    <2>1. of(T \cup {x}) = of(T) \cup at(x)
      OBVIOUS
    <2>2. IsFiniteSet({x}) /\ IsFiniteSet(DOMAIN s[x].deps)
      BY DepsOf, FS_Singleton
    <2>3. IsFiniteSet(at(x))
      BY <2>2, FS_Product
    <2>4. IsFiniteSet(of(T))
      BY <1>2
    <2> HIDE DEF of, at
    <2>5. IsFiniteSet(of(T \cup {x}))
      BY <2>1, <2>3, <2>4, FS_Union
    <2>6. QED
      BY <2>5
  <1> HIDE DEF Good
  <1>3. DOMAIN s \in Good
    BY <1>1, <1>2, PlacesOf, AddingElements
  <1>4. QED
    BY <1>3 DEF Good, edgesOf

LEMMA EdgeOf ==
    ASSUME NEW s, NEW e
    PROVE  e \in edgesOf(s) <=> \E i \in DOMAIN s : \E k \in DOMAIN s[i].deps : e = <<i, k>>
  BY DEF edgesOf

(* Keeping some tasks keeps no more edges.                                  *)
LEMMA FewerEdgesKept ==
    ASSUME NEW s \in Seq(PlannedTask), NEW P \in SUBSET DOMAIN s,
           NEW u, u = keep(s, P)
    PROVE  Cardinality(edgesOf(u)) <= Cardinality(edgesOf(s)) /\ Len(u) = Cardinality(P)
  <1>1. u \in Seq(PlannedTask)
    BY KeptSubsequence
  <1>2. PICK f : Rising(f, Len(u), P) /\ \A n \in 1 .. Len(u) : u[n] = s[f[n]]
    BY KeptSubsequence
  <1>3. DOMAIN u = 1 .. Len(u) /\ Len(u) \in Nat
    BY <1>1
  <1>4. \A n \in DOMAIN u : f[n] \in P /\ f[n] \in DOMAIN s /\ u[n] = s[f[n]]
    BY <1>2, <1>3 DEF Rising
  <1>5. \A a, b \in DOMAIN u : f[a] = f[b] => a = b
    <2>1. DOMAIN s \subseteq Nat
      OBVIOUS
    <2>2. \A a, b \in DOMAIN u : a < b => f[a] < f[b]
      BY <1>2, <1>3 DEF Rising
    <2>3. \A a \in DOMAIN u : f[a] \in Nat /\ a \in Nat
      BY <1>3, <1>4, <2>1
    <2>4. QED
      BY <2>2, <2>3
  <1> DEFINE h == [e \in edgesOf(u) |-> <<f[e[1]], e[2]>>]
  <1>6. ASSUME NEW e \in edgesOf(u)
        PROVE  /\ \E n \in DOMAIN u : \E k \in DOMAIN u[n].deps : e = <<n, k>> /\ h[e] = <<f[n], k>>
               /\ h[e] \in edgesOf(s)
    <2>1. PICK n \in DOMAIN u : \E k \in DOMAIN u[n].deps : e = <<n, k>>
      BY EdgeOf
    <2>2. PICK k \in DOMAIN u[n].deps : e = <<n, k>>
      BY <2>1
    <2>3. h[e] = <<f[n], k>> /\ f[n] \in DOMAIN s /\ k \in DOMAIN s[f[n]].deps
      BY <1>4, <2>2
    <2>4. h[e] \in edgesOf(s)
      BY <2>3, EdgeOf
    <2>5. QED
      BY <2>2, <2>3, <2>4
  <1>7. h \in [edgesOf(u) -> edgesOf(s)]
    BY <1>6
  <1> HIDE DEF h
  <1>8. ASSUME NEW a \in edgesOf(u), NEW b \in edgesOf(u), h[a] = h[b] PROVE a = b
    <2>1. PICK m \in DOMAIN u : \E k \in DOMAIN u[m].deps : a = <<m, k>> /\ h[a] = <<f[m], k>>
      BY <1>6
    <2>2. PICK k \in DOMAIN u[m].deps : a = <<m, k>> /\ h[a] = <<f[m], k>>
      BY <2>1
    <2>3. PICK n \in DOMAIN u : \E l \in DOMAIN u[n].deps : b = <<n, l>> /\ h[b] = <<f[n], l>>
      BY <1>6
    <2>4. PICK l \in DOMAIN u[n].deps : b = <<n, l>> /\ h[b] = <<f[n], l>>
      BY <2>3
    <2>5. f[m] = f[n] /\ k = l
      BY <1>8, <2>2, <2>4
    <2>6. m = n
      BY <1>5, <2>5
    <2>7. QED
      BY <2>2, <2>4, <2>5, <2>6
  <1>9. h \in Injection(edgesOf(u), edgesOf(s))
    BY <1>7, <1>8 DEF Injection, IsInjective
  <1>10. Cardinality(edgesOf(u)) <= Cardinality(edgesOf(s))
    <2>1. IsFiniteSet(edgesOf(s))
      BY EdgesAreFinite
    <2>2. QED
      BY <1>9, <2>1, FS_Injection
  <1>11. Len(u) = Cardinality(P)
    <2>1. IsFiniteSet(DOMAIN s)
      BY PlacesOf
    <2>2. IsFiniteSet(P)
      BY <2>1, FS_Subset
    <2>3. Cardinality(P) \in Nat
      BY <2>2, FS_CardinalityType
    <2>4. DOMAIN u = 1 .. Cardinality(P)
      BY DEF keep
    <2>5. QED
      BY <1>1, <2>3, <2>4
  <1>12. QED
    BY <1>10, <1>11

Size(s) == Len(s) + Cardinality(edgesOf(s))

LEMMA SizeIsNat ==
    ASSUME NEW s \in Seq(PlannedTask)
    PROVE  Size(s) \in Nat /\ Len(s) \in Nat /\ Cardinality(edgesOf(s)) \in Nat
  BY EdgesAreFinite, FS_CardinalityType DEF Size

LEMMA SeveringShrinks ==
    ASSUME NEW r \in Seq(PlannedTask), NEW after, NEW t, Lightens(after, r, t)
    PROVE  Size(after) < Size(r)
  <1>1. /\ after \in Seq(PlannedTask) /\ DOMAIN after = DOMAIN r /\ 1 \in DOMAIN r /\ Len(after) = Len(r)
        /\ after[1] = t /\ Len(t.deps) < Len(r[1].deps) /\ t \in PlannedTask
        /\ \A i \in DOMAIN r \ {1} : after[i] = r[i]
    BY DEF Lightens
  <1> DEFINE lost == <<1, Len(r[1].deps)>>
  <1>2. /\ t.deps \in Seq(Name) /\ Len(t.deps) \in Nat /\ DOMAIN t.deps = 1 .. Len(t.deps)
        /\ r[1].deps \in Seq(Name) /\ Len(r[1].deps) \in Nat /\ DOMAIN r[1].deps = 1 .. Len(r[1].deps)
    <2>1. t.deps \in Seq(Name)
      BY <1>1 DEF PlannedTask
    <2>2. r[1].deps \in Seq(Name)
      BY <1>1, DepsOf
    <2>3. QED
      BY <2>1, <2>2
  <1>3. lost \in edgesOf(r)
    <2>1. Len(r[1].deps) \in DOMAIN r[1].deps
      BY <1>1, <1>2
    <2>2. QED
      BY <1>1, <2>1, EdgeOf
  <1>4. ASSUME NEW e \in edgesOf(after) PROVE e \in edgesOf(r) /\ e # lost
    <2>1. PICK i \in DOMAIN after : \E k \in DOMAIN after[i].deps : e = <<i, k>>
      BY EdgeOf
    <2>2. PICK k \in DOMAIN after[i].deps : e = <<i, k>>
      BY <2>1
    <2>3. k \in DOMAIN r[i].deps /\ (i = 1 => k # Len(r[1].deps))
      BY <1>1, <1>2, <2>2
    <2>4. e \in edgesOf(r)
      BY <1>1, <2>2, <2>3, EdgeOf
    <2>5. QED
      BY <2>2, <2>3, <2>4
  <1>5. IsFiniteSet(edgesOf(r)) /\ IsFiniteSet(edgesOf(after))
    BY <1>1, EdgesAreFinite
  <1>6. Cardinality(edgesOf(after)) < Cardinality(edgesOf(r))
    <2>1. edgesOf(after) \in SUBSET edgesOf(r) /\ edgesOf(after) # edgesOf(r)
      BY <1>3, <1>4
    <2>2. /\ Cardinality(edgesOf(after)) <= Cardinality(edgesOf(r))
          /\ Cardinality(edgesOf(r)) = Cardinality(edgesOf(after)) => edgesOf(r) = edgesOf(after)
      BY <1>5, <2>1, FS_Subset
    <2>3. QED
      BY <1>1, <2>1, <2>2, SizeIsNat
  <1>7. QED
    BY <1>1, <1>6, SizeIsNat DEF Size

LEMMA RoundShrinks ==
    ASSUME NEW tasks \in Seq(PlannedTask), NEW st, RoundInv(st, tasks), st.remaining # <<>>
    PROVE  Size(round(st).remaining) < Size(st.remaining)
  <1> DEFINE r == st.remaining
  <1>1. r \in Seq(PlannedTask) /\ r # <<>> /\ st \in Rounds
    BY DEF RoundInv, Splits, Rounds
  <1>2. CASE free(r) = {}
    <2> DEFINE t == severFirst(Head(r), r)
               s == <<t>> \o Tail(r)
    <2>1. round(st) = [st EXCEPT !.remaining = s]
      BY <1>1, <1>2, RoundCases
    <2>2. round(st).remaining = s
      <3> HIDE DEF r, t, s
      <3>1. [st EXCEPT !.remaining = s].remaining = s
        BY <1>1 DEF Rounds
      <3>2. QED
        BY <2>1, <3>1, Zenon
    <2>3. s = <<t>> \o Tail(r) /\ t = severFirst(Head(r), r)
      OBVIOUS
    <2> HIDE DEF r, s, t
    <2>4. Lightens(s, r, t)
      BY <1>1, <1>2, <2>3, SeveringChanges
    <2>5. Size(s) < Size(r)
      BY <1>1, <2>4, SeveringShrinks
    <2>6. QED
      BY <2>2, <2>5 DEF r
  <1>3. CASE free(r) # {}
    <2> DEFINE P == DOMAIN r \ free(r)
               s == keep(r, P)
    <2>1. round(st).remaining = s
      <3>1. round(st) = [ordered |-> st.ordered \o keep(r, free(r)), remaining |-> s]
        BY <1>1, <1>3, RoundCases
      <3> HIDE DEF s
      <3>2. QED
        BY <3>1
    <2>2. P \in SUBSET DOMAIN r /\ P # DOMAIN r /\ s = keep(r, P)
      BY <1>3 DEF free
    <2> HIDE DEF r, P, s
    <2>3. Cardinality(edgesOf(s)) <= Cardinality(edgesOf(r)) /\ Len(s) = Cardinality(P)
      BY <1>1, <2>2, FewerEdgesKept
    <2>4. s \in Seq(PlannedTask)
      BY <1>1, <2>2, KeptTasks
    <2>5. Cardinality(P) < Len(r)
      <3>1. IsFiniteSet(DOMAIN r) /\ Cardinality(DOMAIN r) = Len(r)
        BY <1>1, PlacesOf
      <3>2. /\ IsFiniteSet(P) /\ Cardinality(P) <= Cardinality(DOMAIN r)
            /\ Cardinality(DOMAIN r) = Cardinality(P) => DOMAIN r = P
        BY <2>2, <3>1, FS_Subset
      <3>3. Cardinality(P) \in Nat /\ Len(r) \in Nat
        BY <1>1, <3>2, FS_CardinalityType
      <3>4. QED
        BY <2>2, <3>1, <3>2, <3>3
    <2>6. Size(s) < Size(r)
      BY <1>1, <2>3, <2>4, <2>5, SizeIsNat DEF Size
    <2>7. QED
      BY <2>1, <2>6 DEF r
  <1>4. QED
    BY <1>2, <1>3

(* The states of topologicalOrder() after each round.                       *)
Repeats(g, tasks, n) ==
    g = [k \in 0 .. n |-> IF k = 0 THEN [ordered |-> <<>>, remaining |-> tasks]
                          ELSE round(g[k - 1])]

LEMMA RoundsRepeat ==
    ASSUME NEW tasks, NEW n \in Nat
    PROVE  \E g : Repeats(g, tasks, n)
  <1> DEFINE start == [ordered |-> <<>>, remaining |-> tasks]
             Good == {k \in Nat : \E g : Repeats(g, tasks, k)}
  <1>1. 0 \in Good
    <2> DEFINE g == [k \in 0 .. 0 |-> start]
    <2>1. Repeats(g, tasks, 0)
      BY DEF Repeats
    <2>2. QED
      BY <2>1
  <1>2. ASSUME NEW k \in Nat, k \in Good PROVE k + 1 \in Good
    <2>1. PICK g : Repeats(g, tasks, k)
      BY <1>2
    <2>2. PICK next : next = round(g[k])
      OBVIOUS
    <2> DEFINE h == [i \in 0 .. k + 1 |-> IF i = k + 1 THEN next ELSE g[i]]
    <2>3. \A i \in 0 .. k : g[i] = IF i = 0 THEN start ELSE round(g[i - 1])
      <3>1. g = [i \in 0 .. k |-> IF i = 0 THEN start ELSE round(g[i - 1])]
        BY <2>1 DEF Repeats
      <3> HIDE DEF start
      <3>2. QED
        BY <3>1
    <2> HIDE DEF start
    <2>4. ASSUME NEW i \in 0 .. k + 1
          PROVE  h[i] = IF i = 0 THEN start ELSE round(h[i - 1])
      <3>1. CASE i = 0
        <4>1. h[i] = g[0] /\ g[0] = start
          BY <2>3, <3>1
        <4>2. QED
          BY <3>1, <4>1
      <3>2. CASE i \in 1 .. k
        <4>1. h[i] = g[i] /\ h[i - 1] = g[i - 1]
          BY <3>2
        <4>2. g[i] = round(g[i - 1])
          BY <2>3, <3>2
        <4>3. QED
          BY <3>2, <4>1, <4>2
      <3>3. CASE i = k + 1
        <4>1. h[i] = next /\ h[i - 1] = g[k] /\ i # 0
          BY <3>3
        <4> HIDE DEF h
        <4>2. QED
          BY <2>2, <4>1
      <3>4. QED
        BY <3>1, <3>2, <3>3
    <2>5. h = [i \in 0 .. k + 1 |-> h[i]]
      OBVIOUS
    <2> HIDE DEF h
    <2>6. h = [i \in 0 .. k + 1 |-> IF i = 0 THEN start ELSE round(h[i - 1])]
      BY <2>4, <2>5
    <2>7. Repeats(h, tasks, k + 1)
      BY <2>6 DEF Repeats, start
    <2>8. QED
      BY <2>7
  <1> HIDE DEF Good
  <1>3. Nat \subseteq Good
    BY <1>1, <1>2, CountingUp
  <1>4. QED
    BY <1>3 DEF Good

(* o is an order of the tasks in which they can be carried out.             *)
Arranges(o, tasks) ==
    /\ o \in Seq(PlannedTask) /\ DistinctIds(o) /\ InOrder(o) /\ idsOf(o) = idsOf(tasks)
    /\ \A i \in DOMAIN o : \E j \in DOMAIN tasks : o[i].id = tasks[j].id /\ o[i].agent = tasks[j].agent
    /\ \A x, d : Asked(o, x, d) => Asked(tasks, x, d)
    /\ ~Cyclic(tasks) => \A x, d : Asked(tasks, x, d) => Asked(o, x, d)

LEMMA BeginsToOrder ==
    ASSUME NEW tasks \in Seq(PlannedTask), DistinctIds(tasks),
           NEW st, st = [ordered |-> <<>>, remaining |-> tasks]
    PROVE  RoundInv(st, tasks)
  <1>1. PICK o : o = <<>>
    OBVIOUS
  <1>2. o \in Seq(PlannedTask) /\ DOMAIN o = {}
    BY <1>1
  <1>3. st.ordered = o /\ st.remaining = tasks /\ st \in Rounds
    BY <1>1, <1>2 DEF Rounds
  <1>4. idsOf(o) = {} /\ DistinctIds(o) /\ InOrder(o)
    BY <1>2 DEF idsOf, DistinctIds, InOrder
  <1>5. \A x, d : ~Asked(o, x, d)
    BY <1>2 DEF Asked
  <1>6. Splits(st, tasks)
    BY <1>3, <1>4 DEF Splits
  <1>7. QED
    BY <1>2, <1>3, <1>4, <1>5, <1>6 DEF RoundInv

LEMMA RoundKeeps ==
    ASSUME NEW tasks \in Seq(PlannedTask), Closed(tasks), NEW st, RoundInv(st, tasks)
    PROVE  /\ RoundInv(round(st), tasks)
           /\ \/ round(st).remaining = <<>>
              \/ Size(round(st).remaining) < Size(st.remaining)
  <1>1. CASE st.remaining = <<>>
    BY <1>1, RoundCases
  <1>2. CASE st.remaining # <<>>
    <2>1. RoundInv(round(st), tasks)
      BY <1>2, SeveringKeeps, PlacingKeeps
    <2>2. QED
      BY <1>2, <2>1, RoundShrinks
  <1>3. QED
    BY <1>1, <1>2

LEMMA TopologicalOrder ==
    ASSUME NEW tasks \in Seq(PlannedTask), Closed(tasks), DistinctIds(tasks)
    PROVE  Arranges(topologicalOrder(tasks), tasks)
  <1> DEFINE N == Len(tasks) + Cardinality(edgesOf(tasks))
             g == CHOOSE g : Repeats(g, tasks, N)
             Good == {k \in Nat : k <= N =>
                        /\ RoundInv(g[k], tasks)
                        /\ g[k].remaining = <<>> \/ Size(g[k].remaining) <= N - k}
  <1>1. N \in Nat /\ N = Size(tasks)
    BY SizeIsNat DEF Size
  <1>2. Repeats(g, tasks, N)
    BY <1>1, RoundsRepeat
  <1>3. topologicalOrder(tasks) = g[N].ordered
    BY Zenon DEF topologicalOrder, Repeats
  <1> HIDE DEF g
  <1>4. \A i \in 0 .. N : g[i] = IF i = 0 THEN [ordered |-> <<>>, remaining |-> tasks]
                                  ELSE round(g[i - 1])
    <2>1. g = [i \in 0 .. N |-> IF i = 0 THEN [ordered |-> <<>>, remaining |-> tasks]
                                ELSE round(g[i - 1])]
      BY <1>2 DEF Repeats
    <2> HIDE DEF N
    <2>2. QED
      BY <2>1
  <1> HIDE DEF N
  <1>5. 0 \in Good
    <2>1. PICK st : st = [ordered |-> <<>>, remaining |-> tasks]
      OBVIOUS
    <2>2. g[0] = st
      BY <1>1, <1>4, <2>1
    <2>3. RoundInv(st, tasks) /\ st.remaining = tasks
      BY <2>1, BeginsToOrder
    <2>4. QED
      BY <1>1, <2>2, <2>3
  <1>6. ASSUME NEW k \in Nat, k \in Good PROVE k + 1 \in Good
    <2>1. SUFFICES ASSUME k + 1 <= N
                   PROVE  /\ RoundInv(g[k + 1], tasks)
                          /\ \/ g[k + 1].remaining = <<>>
                             \/ Size(g[k + 1].remaining) <= N - (k + 1)
      OBVIOUS
    <2>2. RoundInv(g[k], tasks) /\ (g[k].remaining = <<>> \/ Size(g[k].remaining) <= N - k)
      BY <1>1, <1>6, <2>1
    <2>3. g[k + 1] = round(g[k])
      <3>1. k + 1 \in 0 .. N /\ k + 1 # 0 /\ k + 1 - 1 = k
        BY <1>1, <2>1
      <3>2. QED
        BY <1>4, <3>1
    <2>4. PICK a, b : a = g[k] /\ b = round(a) /\ b = g[k + 1]
      BY <2>3
    <2>5. RoundInv(b, tasks) /\ (b.remaining = <<>> \/ Size(b.remaining) < Size(a.remaining))
      BY <2>2, <2>4, RoundKeeps
    <2>6. CASE a.remaining = <<>>
      <3>1. b = a
        BY <2>4, <2>6, RoundCases
      <3>2. QED
        BY <2>4, <2>5, <2>6, <3>1
    <2>7. CASE a.remaining # <<>>
      <3>1. Size(a.remaining) <= N - k
        BY <2>2, <2>4, <2>7
      <3>2. Size(a.remaining) \in Nat /\ Size(b.remaining) \in Nat
        <4>1. a.remaining \in Seq(PlannedTask) /\ b.remaining \in Seq(PlannedTask)
          BY <2>2, <2>4, <2>5 DEF RoundInv, Splits, Rounds
        <4>2. QED
          BY <4>1, SizeIsNat
      <3>3. Size(b.remaining) < Size(a.remaining) => Size(b.remaining) <= N - (k + 1)
        BY <1>1, <3>1, <3>2
      <3>4. QED
        BY <2>4, <2>5, <3>3
    <2>8. QED
      BY <2>6, <2>7
  <1> HIDE DEF Good
  <1>7. N \in Good
    BY <1>1, <1>5, <1>6, CountingUp
  <1>8. PICK st : st = g[N]
    OBVIOUS
  <1>9. RoundInv(st, tasks) /\ (st.remaining = <<>> \/ Size(st.remaining) <= 0)
    BY <1>1, <1>7, <1>8 DEF Good
  <1>10. st.ordered \in Seq(PlannedTask) /\ st.remaining \in Seq(PlannedTask)
    BY <1>9 DEF RoundInv, Splits, Rounds
  <1>11. st.remaining = <<>>
    <2>1. PICK r \in Seq(PlannedTask) : r = st.remaining
      BY <1>10
    <2>2. Size(r) <= 0 => Len(r) = 0
      BY SizeIsNat DEF Size
    <2>3. QED
      BY <1>9, <2>1, <2>2
  <1>12. idsOf(st.remaining) = {} /\ \A x, d : ~Asked(st.remaining, x, d)
    BY <1>11 DEF idsOf, Asked
  <1>13. Arranges(st.ordered, tasks)
    BY <1>9, <1>10, <1>12 DEF Arranges, RoundInv, Splits
  <1>14. QED
    BY <1>3, <1>8, <1>13

(* The plan can be carried out in its order by these agents.                *)
Executable(p, agents) ==
    /\ p \in Seq(PlannedTask) /\ DistinctIds(p) /\ InOrder(p)
    /\ \A i \in DOMAIN p : p[i].agent \in agents

\* Each task of u is the first of its name in s.
Firsts(u, s, agents) ==
    /\ u \in Seq(PlannedTask) /\ DistinctIds(u)
    /\ \A n \in DOMAIN u : \E j \in DOMAIN s : FirstOf(s, agents, j) /\ u[n] = s[j]

\* f gives the places of s that the elements of u come from.
PlacedBy(f, u, s, P) == Rising(f, Len(u), P) /\ \A n \in 1 .. Len(u) : u[n] = s[f[n]]

LEMMA KeptPlacedBy ==
    ASSUME NEW s \in Seq(PlannedTask), NEW P \in SUBSET DOMAIN s, NEW u, u = keep(s, P)
    PROVE  u \in Seq(PlannedTask) /\ \E f : PlacedBy(f, u, s, P)
  BY KeptSubsequence DEF PlacedBy

KnownIn(s, agents) == {i \in DOMAIN s : s[i].agent \in agents}

FirstIn(s) == {i \in DOMAIN s : \A k \in 1 .. i - 1 : s[k].id # s[i].id}

LEMMA FirstsAreKept ==
    ASSUME NEW s \in Seq(PlannedTask), NEW agents,
           NEW K, K = KnownIn(s, agents), NEW known, known = keep(s, K),
           NEW F, F = FirstIn(known), NEW u, u = keep(known, F)
    PROVE  Firsts(u, s, agents)
  <1>1. K \in SUBSET DOMAIN s /\ \A i \in DOMAIN s : i \in K <=> s[i].agent \in agents
    BY DEF KnownIn
  <1>2. known \in Seq(PlannedTask) /\ \E f : PlacedBy(f, known, s, K)
    BY <1>1, KeptPlacedBy
  <1>3. PICK f : PlacedBy(f, known, s, K)
    BY <1>2
  <1>4. /\ F \in SUBSET DOMAIN known
        /\ \A i \in DOMAIN known : i \in F <=> \A k \in 1 .. i - 1 : known[k].id # known[i].id
    BY DEF FirstIn
  <1>5. u \in Seq(PlannedTask) /\ \E g : PlacedBy(g, u, known, F)
    BY <1>2, <1>4, KeptPlacedBy
  <1>6. PICK g : PlacedBy(g, u, known, F)
    BY <1>5
  <1>7. /\ DOMAIN known = 1 .. Len(known) /\ Len(known) \in Nat /\ DOMAIN s = 1 .. Len(s)
        /\ DOMAIN u = 1 .. Len(u) /\ Len(u) \in Nat /\ DOMAIN known \subseteq Nat \ {0}
        /\ DOMAIN s \subseteq Nat \ {0} /\ DOMAIN u \subseteq Nat \ {0}
    BY <1>2, <1>5
  <1>8. /\ \A n \in DOMAIN known : f[n] \in K /\ known[n] = s[f[n]]
        /\ \A m, n \in DOMAIN known : m < n => f[m] < f[n]
        /\ \A i \in K : \E n \in DOMAIN known : f[n] = i
    BY <1>3, <1>7 DEF PlacedBy, Rising
  <1>9. /\ \A n \in DOMAIN u : g[n] \in F /\ u[n] = known[g[n]]
        /\ \A m, n \in DOMAIN u : m < n => g[m] < g[n]
    BY <1>6, <1>7 DEF PlacedBy, Rising
  <1>10. ASSUME NEW m \in F PROVE FirstOf(s, agents, f[m])
    <2>1. SUFFICES ASSUME NEW k \in 1 .. f[m] - 1, s[k].agent \in agents PROVE s[k].id # s[f[m]].id
      BY <1>1, <1>4, <1>8 DEF FirstOf
    <2>2. m \in DOMAIN known /\ f[m] \in DOMAIN s
      BY <1>1, <1>4, <1>8
    <2>3. k \in DOMAIN s /\ k < f[m]
      BY <1>7, <2>2
    <2>4. PICK a \in DOMAIN known : f[a] = k
      BY <1>1, <1>8, <2>1, <2>3
    <2>5. f[a] # f[m] /\ ~(f[m] < f[a])
      BY <1>7, <2>2, <2>3, <2>4
    <2>6. a # m /\ ~(m < a)
      BY <1>8, <2>2, <2>5
    <2>7. a \in 1 .. m - 1
      BY <1>7, <2>2, <2>6
    <2>8. known[a].id # known[m].id
      BY <1>4, <2>7
    <2>9. QED
      BY <1>8, <2>2, <2>4, <2>8
  <1>11. ASSUME NEW n \in DOMAIN u PROVE \E j \in DOMAIN s : FirstOf(s, agents, j) /\ u[n] = s[j]
    <2>1. g[n] \in F /\ u[n] = known[g[n]]
      BY <1>9
    <2>2. g[n] \in DOMAIN known
      BY <1>4, <2>1
    <2>3. f[g[n]] \in DOMAIN s /\ known[g[n]] = s[f[g[n]]] /\ FirstOf(s, agents, f[g[n]])
      BY <1>1, <1>8, <1>10, <2>1, <2>2
    <2>4. QED
      BY <2>1, <2>3
  <1>12. ASSUME NEW a \in DOMAIN u, NEW b \in DOMAIN u, a < b PROVE u[a].id # u[b].id
    <2>1. g[a] \in F /\ g[b] \in F /\ g[a] < g[b]
      BY <1>9, <1>12
    <2>2. g[a] \in 1 .. g[b] - 1
      BY <1>4, <1>7, <2>1
    <2>3. known[g[a]].id # known[g[b]].id
      BY <1>4, <2>1, <2>2
    <2>4. QED
      BY <1>9, <2>3
  <1>13. DistinctIds(u)
    <2>1. \A a, b \in DOMAIN u : a = b \/ a < b \/ b < a
      BY <1>7
    <2>2. QED
      BY <1>12, <2>1 DEF DistinctIds
  <1>14. QED
    BY <1>5, <1>11, <1>13 DEF Firsts

(* What is left of a list cut to the cap, with the dependencies that leave  *)
(* it removed.                                                              *)
LEMMA ListOf ==
    ASSUME NEW S, NEW n \in Nat, NEW s, s = [i \in 1 .. n |-> s[i]], \A i \in 1 .. n : s[i] \in S
    PROVE  s \in Seq(S)
  OBVIOUS

Cleaned(kept) ==
    [i \in DOMAIN kept |-> [kept[i] EXCEPT !.deps =
        keep(@, {k \in DOMAIN kept[i].deps :
                    kept[i].deps[k] \in idsOf(kept) /\ kept[i].deps[k] # kept[i].id})]]

LEMMA CleanedOf ==
    ASSUME NEW s \in Seq(PlannedTask), NEW agents, NEW u, Firsts(u, s, agents),
           NEW n \in 0 .. Len(u), NEW kept, kept = SubSeq(u, 1, n),
           NEW clean, clean = Cleaned(kept)
    PROVE  /\ clean \in Seq(PlannedTask) /\ DistinctIds(clean) /\ Closed(clean)
           /\ \A i \in DOMAIN clean : clean[i].agent \in agents
           /\ \A x, d : Asked(clean, x, d) <=> AskedFirst(s, agents, idsOf(clean), x, d)
  <1>1. /\ u \in Seq(PlannedTask) /\ DOMAIN u = 1 .. Len(u) /\ Len(u) \in Nat
        /\ \A i \in DOMAIN u : \E j \in DOMAIN s : FirstOf(s, agents, j) /\ u[i] = s[j]
    BY DEF Firsts
  <1>2. kept \in Seq(PlannedTask) /\ DOMAIN kept = 1 .. n /\ DOMAIN kept \subseteq DOMAIN u
        /\ \A i \in DOMAIN kept : kept[i] = u[i]
    BY <1>1
  <1> DEFINE W(i) == {k \in DOMAIN kept[i].deps :
                         kept[i].deps[k] \in idsOf(kept) /\ kept[i].deps[k] # kept[i].id}
             D(i) == keep(kept[i].deps, W(i))
  <1>3. DOMAIN clean = DOMAIN kept
    BY DEF Cleaned
  <1>4. ASSUME NEW i \in DOMAIN kept
        PROVE  /\ clean[i] \in PlannedTask
               /\ clean[i].id = kept[i].id /\ clean[i].agent = kept[i].agent
               /\ \A d : Names(clean[i], d) <=> Names(kept[i], d) /\ d \in idsOf(kept) /\ d # kept[i].id
    <2>1. PICK t \in PlannedTask : t = kept[i]
      BY <1>2
    <2>2. clean[i] = [t EXCEPT !.deps = D(i)]
      BY <2>1 DEF Cleaned
    <2>3. t.deps \in Seq(Name) /\ W(i) \in SUBSET DOMAIN t.deps
      BY <2>1 DEF PlannedTask
    <2>4. PICK W1 : W1 = W(i)
      OBVIOUS
    <2>5. PICK D1 : D1 = keep(t.deps, W1)
      OBVIOUS
    <2>6. /\ D1 \in Seq(Name)
          /\ \A k \in W1 : \E m \in DOMAIN D1 : D1[m] = t.deps[k]
          /\ \A m \in DOMAIN D1 : \E k \in W1 : D1[m] = t.deps[k]
      <3> HIDE DEF W
      <3>1. QED
        BY <2>3, <2>4, <2>5, KeptNames
    <2>7. D1 = D(i)
      BY <2>1, <2>4, <2>5
    <2>8. \A k : k \in W1 <=> k \in DOMAIN t.deps /\ t.deps[k] \in idsOf(kept) /\ t.deps[k] # t.id
      BY <2>1, <2>4
    <2> HIDE DEF D, W
    <2>9. clean[i] \in PlannedTask /\ clean[i].deps = D1 /\ clean[i].id = t.id /\ clean[i].agent = t.agent
      BY <2>7, <2>2, <2>6 DEF PlannedTask
    <2>10. ASSUME NEW d
           PROVE  Names(clean[i], d) <=> Names(t, d) /\ d \in idsOf(kept) /\ d # t.id
      <3>1. Names(clean[i], d) <=> \E m \in DOMAIN D1 : D1[m] = d
        BY <2>9 DEF Names
      <3>2. Names(t, d) <=> \E k \in DOMAIN t.deps : t.deps[k] = d
        BY DEF Names
      <3>3. (\E m \in DOMAIN D1 : D1[m] = d) <=> \E k \in W1 : t.deps[k] = d
        BY <2>6
      <3>4. QED
        BY <2>8, <3>1, <3>2, <3>3
    <2>11. QED
      BY <2>1, <2>9, <2>10
  <1>5. clean = [i \in 1 .. n |-> clean[i]]
    BY <1>2 DEF Cleaned
  <1> HIDE DEF D, W
  <1>6. clean \in Seq(PlannedTask)
    <2>1. n \in Nat /\ \A i \in 1 .. n : clean[i] \in PlannedTask
      BY <1>2, <1>4
    <2>2. QED
      BY <1>5, <2>1, ListOf
  <1>7. idsOf(clean) = idsOf(kept)
    <2>1. \A i \in DOMAIN kept : clean[i].id = kept[i].id
      BY <1>4
    <2>2. ASSUME NEW x PROVE x \in idsOf(clean) <=> x \in idsOf(kept)
      <3>1. ASSUME x \in idsOf(clean) PROVE x \in idsOf(kept)
        <4>1. PICK i \in DOMAIN clean : clean[i].id = x
          BY <3>1, IdOf
        <4>2. i \in DOMAIN kept /\ kept[i].id = x
          BY <1>3, <2>1, <4>1
        <4>3. QED
          BY <4>2, IdOf
      <3>2. ASSUME x \in idsOf(kept) PROVE x \in idsOf(clean)
        <4>1. PICK i \in DOMAIN kept : kept[i].id = x
          BY <3>2, IdOf
        <4>2. i \in DOMAIN clean /\ clean[i].id = x
          BY <1>3, <2>1, <4>1
        <4>3. QED
          BY <4>2, IdOf
      <3>3. QED
        BY <3>1, <3>2
    <2>3. QED
      BY <2>2
  <1>8. DistinctIds(clean)
    <2>1. DistinctIds(u)
      BY DEF Firsts
    <2>2. \A i \in DOMAIN clean : i \in DOMAIN u /\ clean[i].id = u[i].id
      <3>1. SUFFICES ASSUME NEW i \in DOMAIN kept PROVE i \in DOMAIN u /\ clean[i].id = u[i].id
        BY <1>3
      <3>2. i \in DOMAIN u /\ kept[i] = u[i]
        BY <1>2
      <3>3. clean[i].id = kept[i].id
        BY <1>4
      <3>4. QED
        BY <3>2, <3>3
    <2>3. QED
      BY <2>1, <2>2 DEF DistinctIds
  <1>9. Closed(clean)
    BY <1>3, <1>4, <1>7 DEF Closed, Asked
  <1>10. \A i \in DOMAIN clean : clean[i].agent \in agents
    BY <1>1, <1>2, <1>3, <1>4 DEF FirstOf
  <1>11. ASSUME NEW x, NEW d
         PROVE  Asked(clean, x, d) <=> AskedFirst(s, agents, idsOf(clean), x, d)
    <2>1. ASSUME Asked(clean, x, d) PROVE AskedFirst(s, agents, idsOf(clean), x, d)
      <3>1. PICK i \in DOMAIN kept : clean[i].id = x /\ Names(clean[i], d)
        BY <1>3, <2>1 DEF Asked
      <3>2. kept[i].id = x /\ Names(kept[i], d) /\ d \in idsOf(kept) /\ d # x
        BY <1>4, <3>1
      <3>3. PICK j \in DOMAIN s : FirstOf(s, agents, j) /\ kept[i] = s[j]
        BY <1>1, <1>2
      <3>4. x \in idsOf(kept)
        BY <3>2, IdOf
      <3>5. QED
        BY <1>7, <3>2, <3>3, <3>4 DEF AskedFirst
    <2>2. ASSUME AskedFirst(s, agents, idsOf(clean), x, d) PROVE Asked(clean, x, d)
      <3>1. PICK j \in DOMAIN s : FirstOf(s, agents, j) /\ s[j].id = x /\ Names(s[j], d)
        BY <2>2 DEF AskedFirst
      <3>2. x \in idsOf(kept) /\ d \in idsOf(kept) /\ d # x
        BY <1>7, <2>2 DEF AskedFirst
      <3>3. PICK i \in DOMAIN kept : kept[i].id = x
        BY <3>2, IdOf
      <3>4. PICK l \in DOMAIN s : FirstOf(s, agents, l) /\ kept[i] = s[l]
        BY <1>1, <1>2
      <3>5. l = j
        <4>1. DOMAIN s \subseteq Nat \ {0}
          OBVIOUS
        <4>2. ~(l < j) /\ ~(j < l)
          BY <3>1, <3>3, <3>4, <4>1 DEF FirstOf
        <4>3. QED
          BY <4>1, <4>2
      <3>6. Names(kept[i], d)
        BY <3>1, <3>4, <3>5
      <3>7. QED
        BY <1>3, <1>4, <3>2, <3>3, <3>6 DEF Asked
    <2>3. QED
      BY <2>1, <2>2
  <1>12. QED
    BY <1>6, <1>8, <1>9, <1>10, <1>11

(* validatePlan(): the plan can be carried out in its order, no dependency  *)
(* is invented, and none is lost unless those asked for have a cycle.       *)
LEMMA PlanValidated ==
    ASSUME NEW tasks \in Seq(PlannedTask), NEW available, NEW agents, agents = namesOf(available),
           NEW maxTasks \in Nat, NEW p, p = validatePlan(tasks, available, maxTasks)
    PROVE  /\ Executable(p, agents)
           /\ \A x, d : Asked(p, x, d) => AskedFirst(tasks, agents, idsOf(p), x, d)
           /\ \/ CyclicFirst(tasks, agents, idsOf(p))
              \/ \A x, d : AskedFirst(tasks, agents, idsOf(p), x, d) => Asked(p, x, d)
  <1>1. PICK K, known : K = KnownIn(tasks, agents) /\ known = keep(tasks, K)
    OBVIOUS
  <1>2. PICK F, u : F = FirstIn(known) /\ u = keep(known, F)
    OBVIOUS
  <1>3. PICK n, kept : n = (IF Len(u) > maxTasks THEN maxTasks ELSE Len(u)) /\ kept = SubSeq(u, 1, n)
    OBVIOUS
  <1>4. PICK clean : clean = Cleaned(kept)
    OBVIOUS
  <1>5. p = topologicalOrder(clean)
    <2> DEFINE known1 == keep(tasks, KnownIn(tasks, namesOf(available)))
               u1 == keep(known1, FirstIn(known1))
               kept1 == SubSeq(u1, 1, IF Len(u1) > maxTasks THEN maxTasks ELSE Len(u1))
    <2>1. validatePlan(tasks, available, maxTasks) = topologicalOrder(Cleaned(kept1))
      BY Zenon DEF validatePlan, KnownIn, FirstIn, Cleaned
    <2>2. known1 = known
      BY <1>1
    <2> HIDE DEF known1
    <2>3. u1 = u
      BY <1>2, <2>2
    <2> HIDE DEF u1
    <2>4. kept1 = kept
      BY <1>3, <2>3
    <2> HIDE DEF kept1
    <2>5. QED
      BY <1>4, <2>1, <2>4
  <1>6. Firsts(u, tasks, agents)
    BY <1>1, <1>2, FirstsAreKept
  <1>7. n \in 0 .. Len(u)
    <2>1. Len(u) \in Nat
      BY <1>6 DEF Firsts
    <2>2. QED
      BY <1>3, <2>1
  <1>8. /\ clean \in Seq(PlannedTask) /\ DistinctIds(clean) /\ Closed(clean)
        /\ \A i \in DOMAIN clean : clean[i].agent \in agents
        /\ \A x, d : Asked(clean, x, d) <=> AskedFirst(tasks, agents, idsOf(clean), x, d)
    BY <1>3, <1>4, <1>6, <1>7, CleanedOf
  <1>9. Arranges(p, clean)
    BY <1>5, <1>8, TopologicalOrder
  <1>10. idsOf(p) = idsOf(clean)
    BY <1>9 DEF Arranges
  <1>11. Executable(p, agents)
    BY <1>8, <1>9 DEF Executable, Arranges
  <1>12. \A x, d : Asked(p, x, d) => AskedFirst(tasks, agents, idsOf(p), x, d)
    BY <1>8, <1>9, <1>10 DEF Arranges
  <1>13. Cyclic(clean) => CyclicFirst(tasks, agents, idsOf(p))
    BY <1>8, <1>10 DEF Cyclic, CyclicFirst
  <1>14. ~Cyclic(clean) => \A x, d : AskedFirst(tasks, agents, idsOf(p), x, d) => Asked(p, x, d)
    BY <1>8, <1>9, <1>10 DEF Arranges
  <1>15. QED
    BY <1>11, <1>12, <1>13, <1>14

(* A task may follow the tasks it asks for.                                 *)
MayFollow(t, p, agents) ==
    /\ t \in PlannedTask /\ t.id \notin idsOf(p) /\ t.agent \in agents
    /\ \A d : Names(t, d) => d \in idsOf(p)

Extends(u, p, t) == u = p \o <<t>>

LEMMA TaskFollows ==
    ASSUME NEW agents, NEW p, Executable(p, agents), NEW t, MayFollow(t, p, agents),
           NEW u, Extends(u, p, t)
    PROVE  Executable(u, agents) /\ idsOf(u) = idsOf(p) \cup {t.id}
  <1>1. PICK g : g = <<t>> /\ u = p \o g
    BY DEF Extends
  <1>2. /\ p \in Seq(PlannedTask) /\ g \in Seq(PlannedTask) /\ DOMAIN g = {1} /\ g[1] = t
        /\ Len(p) \in Nat /\ DOMAIN p = 1 .. Len(p)
    BY <1>1 DEF Executable, MayFollow
  <1>3. u \in Seq(PlannedTask) /\ Joins(u, p, g)
    BY <1>1, <1>2, Joined
  <1>4. /\ \A i \in DOMAIN p : i \in DOMAIN u /\ u[i] = p[i]
        /\ Len(p) + 1 \in DOMAIN u /\ u[Len(p) + 1] = t
        /\ \A k \in DOMAIN u : (k \in DOMAIN p /\ u[k] = p[k]) \/ (k = Len(p) + 1 /\ u[k] = t)
    BY <1>2, <1>3 DEF Joins
  <1>5. \A i \in DOMAIN p : p[i].id # t.id
    BY IdOf DEF MayFollow
  <1>6. DistinctIds(u)
    <2>1. DistinctIds(p)
      BY DEF Executable
    <2>2. QED
      BY <1>4, <1>5, <2>1 DEF DistinctIds
  <1>7. InOrder(u)
    <2>1. SUFFICES ASSUME NEW i \in DOMAIN u, NEW d, Names(u[i], d)
                   PROVE  \E j \in 1 .. i - 1 : u[j].id = d
      BY DEF InOrder
    <2>2. CASE i \in DOMAIN p /\ u[i] = p[i]
      <3>1. PICK j \in 1 .. i - 1 : p[j].id = d
        BY <2>1, <2>2 DEF Executable, InOrder
      <3>2. j \in DOMAIN p
        BY <1>2, <2>2
      <3>3. QED
        BY <1>4, <3>1, <3>2
    <2>3. CASE i = Len(p) + 1 /\ u[i] = t
      <3>1. d \in idsOf(p)
        BY <2>1, <2>3 DEF MayFollow
      <3>2. PICK j \in DOMAIN p : p[j].id = d
        BY <3>1, IdOf
      <3>3. j \in 1 .. i - 1
        BY <1>2, <2>3
      <3>4. QED
        BY <1>4, <3>2, <3>3
    <2>4. QED
      BY <1>4, <2>2, <2>3
  <1>8. \A i \in DOMAIN u : u[i].agent \in agents
    <2>1. \A i \in DOMAIN p : p[i].agent \in agents
      BY DEF Executable
    <2>2. QED
      BY <1>4, <2>1 DEF MayFollow
  <1>9. idsOf(u) = idsOf(p) \cup {t.id}
    <2>1. ASSUME NEW x \in idsOf(u) PROVE x \in idsOf(p) \cup {t.id}
      BY <1>4 DEF idsOf
    <2>2. ASSUME NEW x \in idsOf(p) \cup {t.id} PROVE x \in idsOf(u)
      BY <1>4 DEF idsOf
    <2>3. QED
      BY <2>1, <2>2
  <1>10. QED
    BY <1>3, <1>6, <1>7, <1>8, <1>9 DEF Executable

(* One stage of the fallback plan, for a worker there may not be.           *)
StageTask(p, id, agent) ==
    [id |-> id, agent |-> agent, deps |-> [i \in DOMAIN p |-> p[i].id], urls |-> FALSE]

LEMMA StageFollows ==
    ASSUME NEW agents, NEW p, Executable(p, agents),
           NEW id \in Name, id \notin idsOf(p), NEW agent \in Name, agent \in agents,
           NEW u, Extends(u, p, StageTask(p, id, agent))
    PROVE  Executable(u, agents) /\ idsOf(u) = idsOf(p) \cup {id}
  <1>1. p \in Seq(PlannedTask) /\ Len(p) \in Nat /\ DOMAIN p = 1 .. Len(p)
    BY DEF Executable
  <1>2. PICK deps : deps = [i \in DOMAIN p |-> p[i].id]
    OBVIOUS
  <1>3. PICK t : t = [id |-> id, agent |-> agent, deps |-> deps, urls |-> FALSE]
    OBVIOUS
  <1>4. Extends(u, p, t)
    <2>1. t = StageTask(p, id, agent)
      BY <1>2, <1>3 DEF StageTask
    <2>2. QED
      BY <2>1
  <1>5. DOMAIN deps = DOMAIN p /\ \A i \in DOMAIN p : deps[i] = p[i].id
    BY <1>2
  <1>6. deps \in Seq(Name)
    <2>1. \A i \in 1 .. Len(p) : p[i] \in PlannedTask
      BY <1>1
    <2>2. \A i \in 1 .. Len(p) : deps[i] \in Name
      BY <1>1, <1>5, <2>1 DEF PlannedTask
    <2>3. deps = [i \in 1 .. Len(p) |-> deps[i]]
      BY <1>1, <1>2
    <2>4. QED
      BY <1>1, <2>2, <2>3, ListOf
  <1>7. t \in PlannedTask /\ t.id = id /\ t.agent = agent /\ t.deps = deps
    BY <1>3, <1>6 DEF PlannedTask
  <1>8. ASSUME NEW d, Names(t, d) PROVE d \in idsOf(p)
    BY <1>5, <1>7, <1>8, IdOf DEF Names
  <1>9. MayFollow(t, p, agents)
    BY <1>7, <1>8 DEF MayFollow
  <1>10. QED
    BY <1>4, <1>7, <1>9, TaskFollows

LEMMA FallbackIsExecutable ==
    ASSUME NEW available, NEW requireEvidence
    PROVE  Executable(fallbackPlan(available, requireEvidence), namesOf(available))
  <1>1. PICK agents : agents = namesOf(available)
    OBVIOUS
  <1> DEFINE first == [id |-> "t1", agent |-> "researcher", deps |-> <<>>, urls |-> FALSE]
             gather == IF "researcher" \in agents THEN <<first>> ELSE <<>>
             analyse == gather \o (IF "analyst" \in agents
                                   THEN <<StageTask(gather, "t2", "analyst")>> ELSE <<>>)
             verify == analyse \o (IF requireEvidence /\ "evidence-curator" \in agents
                                   THEN <<StageTask(analyse, "t3", "evidence-curator")>> ELSE <<>>)
  <1>2. fallbackPlan(available, requireEvidence) = verify
    <2>1. agents = namesOf(available) => fallbackPlan(available, requireEvidence) = verify
      BY Zenon DEF fallbackPlan, StageTask
    <2>2. QED
      BY <1>1, <2>1
  <1>3. Executable(gather, agents) /\ idsOf(gather) \subseteq {"t1"}
    <2>1. PICK p : p = <<>>
      OBVIOUS
    <2>2. p \in Seq(PlannedTask) /\ DOMAIN p = {} /\ Len(p) = 0 /\ p \in Seq(Name)
      BY <2>1
    <2>3. Executable(p, agents) /\ idsOf(p) = {}
      BY <2>2 DEF Executable, DistinctIds, InOrder, idsOf
    <2>4. CASE "researcher" \notin agents
      BY <2>1, <2>3, <2>4
    <2>5. CASE "researcher" \in agents
      <3>1. PICK t : t = [id |-> "t1", agent |-> "researcher", deps |-> p, urls |-> FALSE]
        OBVIOUS
      <3>2. t \in PlannedTask /\ t.id = "t1" /\ t.agent = "researcher" /\ t.deps = p
        <4>1. PICK id, agent \in Name : id = "t1" /\ agent = "researcher"
          BY DEF Name
        <4>2. t = [id |-> id, agent |-> agent, deps |-> p, urls |-> FALSE]
          BY <3>1, <4>1
        <4>3. QED
          BY <2>2, <4>1, <4>2 DEF PlannedTask
      <3>3. \A d : ~Names(t, d)
        BY <2>2, <3>2 DEF Names
      <3>4. Extends(<<t>>, p, t)
        BY <2>1, <3>2 DEF Extends
      <3>5. gather = <<t>>
        BY <2>1, <2>5, <3>1
      <3> HIDE DEF gather
      <3>6. MayFollow(t, p, agents)
        BY <2>3, <2>5, <3>2, <3>3 DEF MayFollow
      <3>7. Executable(gather, agents) /\ idsOf(gather) = idsOf(p) \cup {t.id}
        BY <2>3, <3>4, <3>5, <3>6, TaskFollows
      <3>8. QED
        BY <2>3, <3>2, <3>7
    <2>6. QED
      BY <2>4, <2>5
  <1>4. Executable(analyse, agents) /\ idsOf(analyse) \subseteq {"t1", "t2"}
    <2>1. gather \in Seq(PlannedTask)
      BY <1>3 DEF Executable
    <2>2. CASE "analyst" \notin agents
      <3>1. analyse = gather \o <<>>
        BY <2>2
      <3> HIDE DEF gather, analyse
      <3>2. analyse = gather
        BY <2>1, <3>1
      <3>3. QED
        BY <1>3, <3>2
    <2>3. CASE "analyst" \in agents
      <3>1. PICK id, agent : id = "t2" /\ agent = "analyst"
        OBVIOUS
      <3>2. Extends(analyse, gather, StageTask(gather, id, agent))
        BY <2>3, <3>1 DEF Extends
      <3> HIDE DEF gather, analyse
      <3>3. id \notin idsOf(gather) /\ id \in Name /\ agent \in Name /\ agent \in agents
        BY <1>3, <2>3, <3>1 DEF Name
      <3>4. Executable(analyse, agents) /\ idsOf(analyse) = idsOf(gather) \cup {id}
        BY <1>3, <3>2, <3>3, StageFollows
      <3>5. QED
        BY <1>3, <3>1, <3>4
    <2>4. QED
      BY <2>2, <2>3
  <1>5. Executable(verify, agents)
    <2> HIDE DEF analyse
    <2>1. analyse \in Seq(PlannedTask)
      BY <1>4 DEF Executable
    <2>2. CASE ~(requireEvidence /\ "evidence-curator" \in agents)
      <3>1. verify = analyse \o <<>>
        BY <2>2
      <3> HIDE DEF verify
      <3>2. verify = analyse
        BY <2>1, <3>1
      <3>3. QED
        BY <1>4, <3>2
    <2>3. CASE requireEvidence /\ "evidence-curator" \in agents
      <3>1. PICK id, agent : id = "t3" /\ agent = "evidence-curator"
        OBVIOUS
      <3>2. Extends(verify, analyse, StageTask(analyse, id, agent))
        BY <2>3, <3>1 DEF Extends
      <3> HIDE DEF verify
      <3>3. id \notin idsOf(analyse) /\ id \in Name /\ agent \in Name /\ agent \in agents
        BY <1>4, <2>3, <3>1 DEF Name
      <3>4. QED
        BY <1>4, <3>2, <3>3, StageFollows
    <2>4. QED
      BY <2>2, <2>3
  <1> HIDE DEF verify
  <1>6. QED
    BY <1>1, <1>2, <1>5

(* Whatever the planner answers, and when it does not.                      *)
LEMMA PlanFromAnswer ==
    ASSUME NEW answer \in Seq(PlannedTask), NEW level, NEW maxTasks \in Nat,
           NEW requireEvidence
    PROVE  Executable(planFrom(answer, level, maxTasks, requireEvidence), namesOf(agentsFor(level)))
  <1>1. PICK available, parsed : available = agentsFor(level) /\ parsed = parsePlan(answer)
    OBVIOUS
  <1>2. parsed \in Seq(PlannedTask)
    <2>1. PICK P : P = {i \in DOMAIN answer : answer[i].id # "" /\ answer[i].agent # ""}
      OBVIOUS
    <2>2. P \in SUBSET DOMAIN answer /\ parsed = keep(answer, P)
      BY <1>1, <2>1 DEF parsePlan
    <2>3. QED
      BY <2>2, KeptTasks
  <1>3. planFrom(answer, level, maxTasks, requireEvidence) =
            IF parsed = <<>> THEN fallbackPlan(available, requireEvidence)
            ELSE validatePlan(parsed, available, maxTasks)
    BY <1>1, Zenon DEF planFrom
  <1>4. CASE parsed = <<>>
    BY <1>1, <1>3, <1>4, FallbackIsExecutable
  <1>5. CASE parsed # <<>>
    BY <1>1, <1>2, <1>3, <1>5, PlanValidated
  <1>6. QED
    BY <1>4, <1>5

----------------------------------------------------------------------------
(* The inputs of a behaviour that writes a plan are lists of tasks.         *)
PlannersInv == algorithm = "plan" => input \in Seq(PlannerTasks)

LEMMA PlannersInvHolds == AlgorithmsSpec => []PlannersInv
  <1>1. AlgorithmsInit => PlannersInv
    BY DEF AlgorithmsInit, PlannersInv
  <1>2. PlannersInv /\ [AlgorithmsNext]_algorithmsVars => PlannersInv'
    <2>1. ASSUME PlannersInv, WriteToken PROVE PlannersInv'
      BY <2>1 DEF PlannersInv, WriteToken
    <2>2. ASSUME PlannersInv, WriteTask PROVE PlannersInv'
      BY <2>2 DEF PlannersInv, WriteTask
    <2>3. ASSUME PlannersInv, WriteCharacter PROVE PlannersInv'
      BY <2>3 DEF PlannersInv, WriteCharacter
    <2>4. ASSUME PlannersInv, Poll PROVE PlannersInv'
      BY <2>4 DEF PlannersInv, Poll
    <2>5. ASSUME PlannersInv, UNCHANGED algorithmsVars PROVE PlannersInv'
      BY <2>5 DEF PlannersInv, algorithmsVars
    <2>6. QED
      BY <2>1, <2>2, <2>3, <2>4, <2>5 DEF AlgorithmsNext
  <1>3. QED
    BY <1>1, <1>2, PTL DEF AlgorithmsSpec

(* Whatever a planner answers, whoever may work at the level of the mission *)
(* and whatever its cap, the repaired plan is executable in its order, asks *)
(* for nothing the answer does not, and loses nothing of it unless it has a *)
(* cycle (validatePlan() and topologicalOrder(), decompose.ts).             *)
THEOREM RepairedPlanIsExecutable == AlgorithmsSpec => []PlanIsExecutable
  <1>1. ASSUME PlannersInv PROVE PlanIsExecutable
    <2>1. SUFFICES ASSUME algorithm = "plan",
                          NEW level \in DOMAIN CONFIDENTIALITY_RANK,
                          NEW available, available = agentsFor(level),
                          NEW maxTasks \in PlanCaps,
                          NEW agents, agents = namesOf(available),
                          NEW plan, plan = validatePlan(input, available, maxTasks),
                          NEW ids, ids = idsOf(plan)
                   PROVE  /\ DistinctIds(plan)
                          /\ \A i \in DOMAIN plan :
                                /\ plan[i].agent \in agents
                                /\ \A k \in DOMAIN plan[i].deps :
                                      /\ \E j \in 1 .. i - 1 : plan[j].id = plan[i].deps[k]
                                      /\ AskedFirst(input, agents, ids, plan[i].id, plan[i].deps[k])
                          /\ \/ CyclicFirst(input, agents, ids)
                             \/ \A x, d \in ids :
                                   AskedFirst(input, agents, ids, x, d) => Asked(plan, x, d)
      BY Zenon DEF PlanIsExecutable
    <2>2. input \in Seq(PlannedTask) /\ maxTasks \in Nat
      BY <1>1, <2>1, AlgorithmsAssumption DEF PlannersInv
    <2>3. /\ Executable(plan, agents)
          /\ \A x, d : Asked(plan, x, d) => AskedFirst(input, agents, ids, x, d)
          /\ \/ CyclicFirst(input, agents, ids)
             \/ \A x, d : AskedFirst(input, agents, ids, x, d) => Asked(plan, x, d)
      BY <2>1, <2>2, PlanValidated
    <2>4. ASSUME NEW i \in DOMAIN plan, NEW k \in DOMAIN plan[i].deps
          PROVE  /\ \E j \in 1 .. i - 1 : plan[j].id = plan[i].deps[k]
                 /\ AskedFirst(input, agents, ids, plan[i].id, plan[i].deps[k])
      <3>1. PICK x, d : x = plan[i].id /\ d = plan[i].deps[k]
        OBVIOUS
      <3>2. Names(plan[i], d)
        BY <3>1 DEF Names
      <3>3. Asked(plan, x, d)
        BY <3>1, <3>2 DEF Asked
      <3>4. \E j \in 1 .. i - 1 : plan[j].id = d
        BY <2>3, <3>2 DEF Executable, InOrder
      <3>5. QED
        BY <2>3, <3>1, <3>3, <3>4
    <2>5. QED
      BY <2>3, <2>4 DEF Executable
  <1>2. QED
    BY <1>1, PlannersInvHolds, PTL

----------------------------------------------------------------------------
(* The sentinel: bands, and the ladder.                                     *)

Bands == {"GREEN", "YELLOW", "ORANGE", "RED", "BLACK"}

LEMMA WorstOf ==
    ASSUME NEW X \in SUBSET Bands, X # {}
    PROVE  /\ Guard!worstOf(X) \in X
           /\ \A s \in X : Guard!SEVERITY_RANK[s] <= Guard!SEVERITY_RANK[Guard!worstOf(X)]
  <1>1. \E s \in X : \A t \in X : Guard!SEVERITY_RANK[t] <= Guard!SEVERITY_RANK[s]
    <2>1. CASE "BLACK" \in X
      BY <2>1 DEF Bands, Guard!SEVERITY_RANK
    <2>2. CASE "BLACK" \notin X /\ "RED" \in X
      BY <2>2 DEF Bands, Guard!SEVERITY_RANK
    <2>3. CASE "BLACK" \notin X /\ "RED" \notin X /\ "ORANGE" \in X
      BY <2>3 DEF Bands, Guard!SEVERITY_RANK
    <2>4. CASE X \cap {"BLACK", "RED", "ORANGE"} = {} /\ "YELLOW" \in X
      <3>1. \A t \in X : t = "GREEN" \/ t = "YELLOW"
        BY <2>4 DEF Bands
      <3>2. QED
        BY <2>4, <3>1 DEF Guard!SEVERITY_RANK
    <2>5. CASE X \cap {"BLACK", "RED", "ORANGE", "YELLOW"} = {}
      <3>1. \A t \in X : t = "GREEN"
        BY <2>5 DEF Bands
      <3>2. QED
        BY <3>1 DEF Guard!SEVERITY_RANK
    <2>6. QED
      BY <2>1, <2>2, <2>3, <2>4, <2>5
  <1>2. QED
    BY <1>1 DEF Guard!worstOf

LEMMA BandOfReading ==
    ASSUME NEW u \in Nat \cup {-2}
    PROVE  Guard!evaluateSeverity(u) \in Bands
  <1>0. PICK v \in Nat : v = IF u = Guard!NotFinite THEN 0 ELSE u
    BY DEF Guard!NotFinite
  <1>1. PICK X : X = {s \in DOMAIN Guard!SEVERITY_RANK : v >= Guard!SEVERITY_THRESHOLDS[s]}
    OBVIOUS
  <1>2. X \in SUBSET Bands
    BY <1>1 DEF Bands, Guard!SEVERITY_RANK
  <1>3. "GREEN" \in X
    BY <1>1 DEF Guard!SEVERITY_RANK, Guard!SEVERITY_THRESHOLDS
  <1>4. Guard!worstOf(X) \in X
    BY <1>2, <1>3, WorstOf
  <1>5. QED
    BY <1>0, <1>1, <1>2, <1>4 DEF Guard!evaluateSeverity

Ranks == 0 .. 4

LEMMA RankOf == \A s \in Bands : Guard!SEVERITY_RANK[s] \in Ranks
  BY DEF Bands, Ranks, Guard!SEVERITY_RANK

\* The rank at which a step of the ladder is triggered.
LEMMA TriggerRank ==
    ASSUME NEW level \in 1 .. 8
    PROVE  Guard!SEVERITY_RANK[Guard!triggerSeverity(level)] =
               IF level <= 2 THEN 1 ELSE IF level <= 5 THEN 2 ELSE IF level <= 7 THEN 3 ELSE 4
  <1>1. CASE level <= 2
    BY <1>1 DEF Guard!triggerSeverity, Guard!SEVERITY_RANK
  <1>2. CASE level \in 3 .. 5
    BY <1>2 DEF Guard!triggerSeverity, Guard!SEVERITY_RANK
  <1>3. CASE level \in 6 .. 7
    BY <1>3 DEF Guard!triggerSeverity, Guard!SEVERITY_RANK
  <1>4. CASE level = 8
    BY <1>4 DEF Guard!triggerSeverity, Guard!SEVERITY_RANK
  <1>5. QED
    BY <1>1, <1>2, <1>3, <1>4

(* The extremes of a set that has them.                                     *)
LEMMA GreatestIs ==
    ASSUME NEW X \in SUBSET Int, NEW x \in X, \A y \in X : y <= x
    PROVE  Guard!Max(X) = x
  <1>1. \A z \in X : (\A y \in X : z >= y) => z = x
    OBVIOUS
  <1>2. \A y \in X : x >= y
    OBVIOUS
  <1>3. QED
    BY <1>1, <1>2, Zenon DEF Guard!Max

LEMMA LeastIs ==
    ASSUME NEW X \in SUBSET Int, NEW x \in X, \A y \in X : x <= y
    PROVE  Guard!Min(X) = x
  <1>1. \A z \in X : (\A y \in X : z <= y) => z = x
    OBVIOUS
  <1>2. QED
    BY <1>1, Zenon DEF Guard!Min

(* The target is the last step that the severity triggers.                  *)
LEMMA LadderTarget ==
    ASSUME NEW severity \in Bands
    PROVE  /\ Guard!targetLevelFor(severity) \in 0 .. 8
           /\ \A level \in 1 .. 8 :
                 level <= Guard!targetLevelFor(severity) <=>
                     Guard!SEVERITY_RANK[Guard!triggerSeverity(level)] <= Guard!SEVERITY_RANK[severity]
  <1>1. PICK r, X, t :
           /\ r = Guard!SEVERITY_RANK[severity]
           /\ X = {0} \cup {level \in 1 .. 8 : Guard!SEVERITY_RANK[Guard!triggerSeverity(level)] <= r}
           /\ t = IF r = 0 THEN 0 ELSE IF r = 1 THEN 2 ELSE IF r = 2 THEN 5 ELSE IF r = 3 THEN 7 ELSE 8
    OBVIOUS
  <1>2. r \in Ranks
    BY <1>1, RankOf
  <1>3. t \in 0 .. 8 /\ \A level \in 1 .. 8 :
           level <= t <=> Guard!SEVERITY_RANK[Guard!triggerSeverity(level)] <= r
    BY <1>1, <1>2, TriggerRank DEF Ranks
  <1>4. t \in X /\ X \in SUBSET Int /\ \A y \in X : y <= t
    <2>1. t = 0 \/ t \in 1 .. 8
      BY <1>3
    <2>2. t \in 1 .. 8 => Guard!SEVERITY_RANK[Guard!triggerSeverity(t)] <= r
      BY <1>3
    <2>3. QED
      BY <1>1, <1>3, <2>1, <2>2
  <1>5. Guard!Max(X) = t
    BY <1>4, GreatestIs
  <1>6. Guard!targetLevelFor(severity) = t
    BY <1>1, <1>5 DEF Guard!targetLevelFor, Guard!DEGRADATION_LADDER
  <1>7. QED
    BY <1>1, <1>3, <1>6

\* The steps in force are those authorised that this severity triggers.
InForce(level, severity, config) ==
    /\ level \in 0 .. 8 /\ (config.degradationEnabled \/ level <= 2)
    /\ \A l \in 1 .. 8 :
          l <= level <=>
              /\ l <= config.maxLevel
              /\ Guard!requiresAuthorisation(l) => config.degradationEnabled
              /\ Guard!SEVERITY_RANK[Guard!triggerSeverity(l)] <= Guard!SEVERITY_RANK[severity]

LEMMA ReconciledInForce ==
    ASSUME NEW config \in Configs, NEW level \in 0 .. 8, config.degradationEnabled \/ level <= 2,
           NEW severity \in Bands
    PROVE  InForce(Guard!reconcile(level, severity, config), severity, config)
  <1>1. PICK target, desired :
           /\ target = Guard!targetLevelFor(severity)
           /\ desired = Guard!Min({target, config.maxLevel})
    OBVIOUS
  <1>2. config.maxLevel \in {4, 8} /\ config.degradationEnabled \in BOOLEAN
    BY DEF Configs
  <1>3. target \in 0 .. 8
    BY <1>1, LadderTarget
  <1>4. desired = IF target <= config.maxLevel THEN target ELSE config.maxLevel
    <2>1. PICK X, x : /\ X = {target, config.maxLevel}
                      /\ x = IF target <= config.maxLevel THEN target ELSE config.maxLevel
      OBVIOUS
    <2>2. X \in SUBSET Int /\ x \in X /\ \A y \in X : x <= y
      BY <1>2, <1>3, <2>1
    <2>3. QED
      BY <1>1, <2>1, <2>2, LeastIs
  <1>5. desired \in 0 .. 8 /\ \A l \in 1 .. 8 : l <= desired <=> l <= target /\ l <= config.maxLevel
    BY <1>2, <1>3, <1>4
  <1>6. \A l \in 1 .. 8 : l <= desired <=>
           /\ l <= config.maxLevel
           /\ Guard!SEVERITY_RANK[Guard!triggerSeverity(l)] <= Guard!SEVERITY_RANK[severity]
    BY <1>1, <1>5, LadderTarget
  <1>7. PICK withheld :
           withheld = {l \in level + 1 .. desired :
                          Guard!requiresAuthorisation(l) /\ ~config.degradationEnabled}
    OBVIOUS
  <1>8. Guard!reconcile(level, severity, config) =
           IF withheld = {} THEN desired ELSE Guard!Min(withheld) - 1
    BY <1>1, <1>7 DEF Guard!reconcile
  <1>9. CASE config.degradationEnabled
    <2>1. withheld = {}
      BY <1>7, <1>9
    <2>2. QED
      BY <1>5, <1>6, <1>8, <1>9, <2>1 DEF InForce
  <1>10. CASE ~config.degradationEnabled /\ desired <= 2
    <2>1. withheld = {}
      BY <1>5, <1>7, <1>10 DEF Guard!requiresAuthorisation
    <2>2. \A l \in 1 .. 8 : l <= desired => ~Guard!requiresAuthorisation(l)
      BY <1>5, <1>10 DEF Guard!requiresAuthorisation
    <2>3. \A l \in 1 .. 8 : ~Guard!requiresAuthorisation(l) \/ config.degradationEnabled \/ l > 2
      BY DEF Guard!requiresAuthorisation
    <2>4. QED
      BY <1>5, <1>6, <1>8, <1>10, <2>1, <2>2 DEF InForce
  <1>11. CASE ~config.degradationEnabled /\ desired > 2
    <2>1. level <= 2
      BY <1>11
    <2>2. withheld \in SUBSET Int /\ 3 \in withheld /\ \A y \in withheld : 3 <= y
      BY <1>5, <1>7, <1>11, <2>1 DEF Guard!requiresAuthorisation
    <2>3. Guard!Min(withheld) = 3
      BY <2>2, LeastIs
    <2>4. Guard!reconcile(level, severity, config) = 2
      BY <1>8, <2>2, <2>3
    <2>5. \A l \in 1 .. 8 : l <= 2 <=> ~Guard!requiresAuthorisation(l)
      BY DEF Guard!requiresAuthorisation
    <2>6. \A l \in 1 .. 8 : l <= 2 => l <= desired
      BY <1>5, <1>11
    <2>7. QED
      BY <1>6, <1>11, <2>4, <2>5, <2>6 DEF InForce
  <1>12. QED
    BY <1>2, <1>5, <1>9, <1>10, <1>11

----------------------------------------------------------------------------
(* The ring: where it keeps the reading that is the i-th to be read out.    *)

Place(w, size, i) ==
    IF size < CapacityPerSeries THEN i - 1
    ELSE IF w + i - 1 < CapacityPerSeries THEN w + i - 1 ELSE w + i - 1 - CapacityPerSeries

\* As many of the readings as there is room for.
Fitting(len) == IF len < CapacityPerSeries THEN len ELSE CapacityPerSeries

RingOk(ring, polls, m) ==
    /\ DOMAIN ring = {"slots", "writeIndex", "size"}
    /\ DOMAIN ring.slots = 0 .. CapacityPerSeries - 1
    /\ ring.writeIndex \in 0 .. CapacityPerSeries - 1
    /\ ring.size = Fitting(Len(polls))
    /\ ring.size < CapacityPerSeries => ring.writeIndex = ring.size
    /\ \A i \in 1 .. ring.size :
          ring.slots[Place(ring.writeIndex, ring.size, i)] = polls[Len(polls) - ring.size + i][m]

Wraps(x) == x % CapacityPerSeries = IF x < CapacityPerSeries THEN x ELSE x - CapacityPerSeries

LEMMA Wrapping ==
    ASSUME NEW x \in 0 .. CapacityPerSeries + CapacityPerSeries - 1
    PROVE  Wraps(x)
  <1>1. PICK c \in Nat \ {0} : c = CapacityPerSeries
    BY AlgorithmsAssumption
  <1>2. CASE x \in 0 .. c - 1
    BY <1>1, <1>2 DEF Wraps
  <1>3. CASE x \in c .. c + c - 1
    BY <1>1, <1>3 DEF Wraps
  <1>4. QED
    BY <1>1, <1>2, <1>3

LEMMA RingRead ==
    ASSUME NEW polls, Len(polls) \in Nat, NEW m, NEW ring, RingOk(ring, polls, m),
           NEW size, size = Fitting(Len(polls))
    PROVE  Guard!toArray(ring) = [i \in 1 .. size |-> polls[Len(polls) - size + i][m]]
  <1>1. PICK c \in Nat \ {0} : c = CapacityPerSeries
    BY AlgorithmsAssumption
  <1>2. PICK w : w = ring.writeIndex
    OBVIOUS
  <1>3. /\ w \in 0 .. c - 1 /\ ring.size = size /\ size \in 0 .. c
        /\ \A i \in 1 .. size : ring.slots[Place(w, size, i)] = polls[Len(polls) - size + i][m]
    <2>1. /\ ring.writeIndex \in 0 .. CapacityPerSeries - 1 /\ ring.size = size
          /\ \A i \in 1 .. ring.size : ring.slots[Place(ring.writeIndex, ring.size, i)]
                                             = polls[Len(polls) - ring.size + i][m]
      BY DEF RingOk
    <2>2. size \in 0 .. c
      BY <1>1 DEF Fitting
    <2>3. QED
      BY <1>1, <1>2, <2>1, <2>2
  <1>4. PICK start : start = IF size < c THEN 0 ELSE w
    OBVIOUS
  <1>5. Guard!toArray(ring) = [i \in 1 .. size |-> ring.slots[(start + i - 1) % CapacityPerSeries]]
    BY <1>1, <1>2, <1>3, <1>4 DEF Guard!toArray
  <1>6. ASSUME NEW i \in 1 .. size
        PROVE  ring.slots[(start + i - 1) % CapacityPerSeries] = polls[Len(polls) - size + i][m]
    <2>1. PICK x : x = start + i - 1
      OBVIOUS
    <2>2. x \in 0 .. c + c - 1
      BY <1>3, <1>4, <2>1
    <2>3. x % CapacityPerSeries = IF x < c THEN x ELSE x - c
      BY <1>1, <2>2, Wrapping DEF Wraps
    <2>4. x % CapacityPerSeries = Place(w, size, i)
      BY <1>1, <1>3, <1>4, <2>1, <2>3 DEF Place
    <2>5. QED
      BY <1>3, <2>1, <2>4
  <1>7. QED
    BY <1>5, <1>6

LEMMA RingPushed ==
    ASSUME NEW polls, NEW S, polls \in Seq(S), NEW poll \in S, NEW m,
           NEW ring, RingOk(ring, polls, m)
    PROVE  RingOk(Guard!push(ring, poll[m]), Append(polls, poll), m)
  <1>1. PICK c \in Nat \ {0, 1} : c = CapacityPerSeries
    BY AlgorithmsAssumption
  <1>2. PICK u, len : u = Append(polls, poll) /\ len = Len(polls)
    OBVIOUS
  <1>3. /\ len \in Nat /\ Len(u) = len + 1 /\ u[len + 1] = poll
        /\ \A k \in 1 .. len : u[k] = polls[k]
    BY <1>2
  <1>4. PICK w, size, slots : w = ring.writeIndex /\ size = ring.size /\ slots = ring.slots
    OBVIOUS
  <1>5. /\ DOMAIN slots = 0 .. c - 1 /\ w \in 0 .. c - 1 /\ size \in 0 .. c
        /\ size = (IF len < c THEN len ELSE c) /\ (size < c => w = size)
        /\ \A i \in 1 .. size : slots[Place(w, size, i)] = polls[len - size + i][m]
    BY <1>1, <1>2, <1>3, <1>4 DEF RingOk, Fitting
  <1>6. PICK w1, size1, slots1 :
           /\ w1 = (IF w + 1 < c THEN w + 1 ELSE 0)
           /\ size1 = (IF size + 1 <= c THEN size + 1 ELSE c)
           /\ slots1 = [slots EXCEPT ![w] = poll[m]]
    OBVIOUS
  <1>7. PICK new : new = Guard!push(ring, poll[m])
    OBVIOUS
  <1>8. (w + 1) % CapacityPerSeries = w1
    <2>1. PICK x : x = w + 1
      OBVIOUS
    <2>2. x \in 0 .. CapacityPerSeries + CapacityPerSeries - 1
      BY <1>1, <1>5, <2>1
    <2>3. x % CapacityPerSeries = IF x < CapacityPerSeries THEN x ELSE x - CapacityPerSeries
      BY <2>2, Wrapping DEF Wraps
    <2>4. QED
      BY <1>1, <1>5, <1>6, <2>1, <2>3
  <1>9. Guard!Min({size + 1, CapacityPerSeries}) = size1
    <2>1. PICK X : X = {size + 1, CapacityPerSeries}
      OBVIOUS
    <2>2. X \in SUBSET Int /\ size1 \in X /\ \A y \in X : size1 <= y
      BY <1>1, <1>5, <1>6, <2>1
    <2>3. QED
      BY <2>1, <2>2, LeastIs
  <1>10. new = [slots |-> slots1, writeIndex |-> w1, size |-> size1]
    BY <1>4, <1>6, <1>7, <1>8, <1>9 DEF Guard!push
  <1>11. /\ DOMAIN new = {"slots", "writeIndex", "size"}
         /\ new.slots = slots1 /\ new.writeIndex = w1 /\ new.size = size1
    BY <1>10
  <1>12. /\ DOMAIN slots1 = 0 .. c - 1 /\ w1 \in 0 .. c - 1
         /\ size1 = (IF len + 1 < c THEN len + 1 ELSE c) /\ (size1 < c => w1 = size1)
    BY <1>1, <1>3, <1>5, <1>6
  <1>13. ASSUME NEW i \in 1 .. size1
         PROVE  slots1[Place(w1, size1, i)] = u[len + 1 - size1 + i][m]
    <2>1. CASE i = size1
      <3>1. Place(w1, size1, i) = w
        BY <1>1, <1>3, <1>5, <1>6, <2>1 DEF Place
      <3>2. slots1[w] = poll[m]
        BY <1>5, <1>6
      <3>3. len + 1 - size1 + i = len + 1
        BY <1>3, <1>5, <1>6, <2>1
      <3>4. QED
        BY <1>3, <3>1, <3>2, <3>3
    <2>2. CASE i < size1
      <3>1. PICK k \in 1 .. size :
               /\ Place(w1, size1, i) = Place(w, size, k) /\ Place(w, size, k) # w
               /\ Place(w, size, k) \in 0 .. c - 1
               /\ len + 1 - size1 + i = len - size + k
        <4>1. CASE size < c
          <5>1. i \in 1 .. size /\ size1 = size + 1
            BY <1>1, <1>5, <1>6, <2>2, <4>1
          <5>2. Place(w1, size1, i) = i - 1
            BY <1>1, <1>5, <1>6, <4>1, <5>1 DEF Place
          <5>3. Place(w, size, i) = i - 1
            BY <1>1, <4>1 DEF Place
          <5>4. i - 1 # w /\ i - 1 \in 0 .. c - 1 /\ len + 1 - size1 + i = len - size + i
            BY <1>1, <1>3, <1>5, <4>1, <5>1
          <5>5. QED
            BY <5>1, <5>2, <5>3, <5>4
        <4>2. CASE size = c
          <5>1. i + 1 \in 1 .. size /\ size1 = c
            BY <1>1, <1>5, <1>6, <2>2, <4>2
          <5>2. Place(w1, size1, i) = Place(w, size, i + 1)
            BY <1>1, <1>5, <1>6, <4>2, <5>1 DEF Place
          <5>3. Place(w, size, i + 1) # w /\ Place(w, size, i + 1) \in 0 .. c - 1
            BY <1>1, <1>5, <4>2, <5>1 DEF Place
          <5>4. len + 1 - size1 + i = len - size + (i + 1)
            BY <1>3, <4>2, <5>1
          <5>5. QED
            BY <5>1, <5>2, <5>3, <5>4
        <4>3. QED
          BY <1>5, <4>1, <4>2
      <3>2. slots1[Place(w, size, k)] = slots[Place(w, size, k)]
        BY <1>5, <1>6, <3>1
      <3>3. len - size + k \in 1 .. len
        BY <1>3, <1>5, <3>1
      <3>4. QED
        BY <1>3, <1>5, <3>1, <3>2, <3>3
    <2>3. QED
      BY <1>1, <1>5, <1>6, <2>1, <2>2
  <1>14. RingOk(new, u, m)
    BY <1>1, <1>3, <1>11, <1>12, <1>13 DEF RingOk, Fitting
  <1>15. QED
    BY <1>2, <1>7, <1>14

----------------------------------------------------------------------------
(* Hysteresis.  One poll more leaves the earlier places as they were.       *)

\* u is the list of polls and one more, the n-th.
PolledOnce(u, polls, poll, n) ==
    /\ Len(polls) \in Nat /\ n = Len(polls) + 1 /\ DOMAIN polls = 1 .. n - 1
    /\ DOMAIN u = 1 .. n /\ u[n] = poll /\ \A k \in 1 .. n - 1 : u[k] = polls[k]

\* Place i is the last of the set.
LastOf(i, P) == i \in P /\ \A j \in P : j <= i

HeardAt(polls, m, i) == i \in DOMAIN polls /\ polls[i][m] # Guard!Unavailable

LEMMA HeardIs ==
    ASSUME NEW polls, NEW m, NEW i
    PROVE  i \in heard(polls, m) <=> HeardAt(polls, m, i)
  BY DEF heard, HeardAt

InStreak(polls, m, i, j) ==
    /\ j \in heard(polls, m) /\ j <= i
    /\ \A k \in heard(polls, m) : j <= k /\ k <= i => band(polls, m, k) = band(polls, m, i)

LEMMA StreakIs ==
    ASSUME NEW polls, NEW m, NEW i \in Int, heard(polls, m) \in SUBSET Int, NEW j
    PROVE  j \in streak(polls, m, i) <=> InStreak(polls, m, i, j)
  BY DEF streak, InStreak

\* What is known of a metric is the same in both lists up to the n-th poll.
SameBefore(u, polls, m, n) ==
    /\ heard(polls, m) \in SUBSET (1 .. n - 1) /\ heard(u, m) \in SUBSET (1 .. n)
    /\ \A i \in 1 .. n - 1 : i \in heard(u, m) <=> i \in heard(polls, m)
    /\ \A i \in 1 .. n - 1 : band(u, m, i) = band(polls, m, i) /\ streak(u, m, i) = streak(polls, m, i)

LEMMA EarlierPlaces ==
    ASSUME NEW u, NEW polls, NEW poll, NEW n, PolledOnce(u, polls, poll, n), NEW m
    PROVE  /\ SameBefore(u, polls, m, n)
           /\ n \in heard(u, m) <=> poll[m] # Guard!Unavailable
  <1>1. /\ n \in Nat \ {0} /\ DOMAIN polls = 1 .. n - 1 /\ DOMAIN u = 1 .. n /\ u[n] = poll
        /\ \A k \in 1 .. n - 1 : u[k] = polls[k]
    BY DEF PolledOnce
  <1>2. PICK H, H1 : H = heard(polls, m) /\ H1 = heard(u, m)
    OBVIOUS
  <1>3. /\ \A i : i \in H <=> i \in 1 .. n - 1 /\ polls[i][m] # Guard!Unavailable
        /\ \A i : i \in H1 <=> i \in 1 .. n /\ u[i][m] # Guard!Unavailable
    BY <1>1, <1>2, HeardIs DEF HeardAt
  <1>4. H \in SUBSET (1 .. n - 1) /\ H1 \in SUBSET (1 .. n)
    BY <1>3
  <1>5. \A i \in 1 .. n - 1 : i \in H1 <=> i \in H
    BY <1>1, <1>3
  <1>6. \A i \in 1 .. n - 1 : band(u, m, i) = band(polls, m, i)
    BY <1>1 DEF band
  <1>7. ASSUME NEW i \in 1 .. n - 1 PROVE streak(u, m, i) = streak(polls, m, i)
    <2>1. i \in Int /\ H \in SUBSET Int /\ H1 \in SUBSET Int
      BY <1>1, <1>4
    <2>2. \A j : j \in streak(polls, m, i) <=> InStreak(polls, m, i, j)
      BY <1>2, <2>1, StreakIs
    <2>3. \A j : j \in streak(u, m, i) <=> InStreak(u, m, i, j)
      BY <1>2, <2>1, StreakIs
    <2>4. ASSUME NEW j PROVE InStreak(u, m, i, j) <=> InStreak(polls, m, i, j)
      <3>1. \A k : k \in H /\ k <= i <=> k \in H1 /\ k <= i
        <4>1. ASSUME NEW k \in H PROVE k \in H1
          BY <1>4, <1>5
        <4>2. ASSUME NEW k \in H1, k <= i PROVE k \in H
          <5>1. k \in 1 .. n - 1
            BY <1>1, <1>4, <4>2
          <5>2. QED
            BY <1>5, <5>1
        <4>3. QED
          BY <4>1, <4>2
      <3>2. \A k \in H : band(u, m, k) = band(polls, m, k)
        BY <1>4, <1>6
      <3>3. band(u, m, i) = band(polls, m, i)
        BY <1>6
      <3>4. QED
        BY <1>2, <3>1, <3>2, <3>3 DEF InStreak
    <2>5. QED
      BY <2>2, <2>3, <2>4
  <1>8. n \in H1 <=> poll[m] # Guard!Unavailable
    BY <1>1, <1>3
  <1>9. QED
    BY <1>2, <1>4, <1>5, <1>6, <1>7, <1>8 DEF SameBefore

LEMMA StreakIsFinite ==
    ASSUME NEW polls, NEW m, NEW n \in Nat, heard(polls, m) \in SUBSET (1 .. n), NEW i
    PROVE  IsFiniteSet(streak(polls, m, i)) /\ Cardinality(streak(polls, m, i)) \in Nat
  <1>1. streak(polls, m, i) \subseteq 1 .. n
    BY DEF streak
  <1>2. IsFiniteSet(1 .. n)
    BY FS_Interval
  <1>3. IsFiniteSet(streak(polls, m, i))
    BY <1>1, <1>2, FS_Subset
  <1>4. QED
    BY <1>3, FS_CardinalityType

(* The streak at the last place continues that of the reading before it, if *)
(* they are in one band.                                                    *)
LEMMA StreakGoesOn ==
    ASSUME NEW u, NEW polls, NEW m, NEW n \in Nat \ {0}, SameBefore(u, polls, m, n), n \in heard(u, m),
           NEW i, LastOf(i, heard(polls, m)), band(u, m, n) = band(polls, m, i)
    PROVE  Cardinality(streak(u, m, n)) = Cardinality(streak(polls, m, i)) + 1
  <1>1. PICK H, H1 : H = heard(polls, m) /\ H1 = heard(u, m)
    OBVIOUS
  <1>2. /\ H \in SUBSET (1 .. n - 1) /\ H1 \in SUBSET (1 .. n) /\ n \in H1
        /\ \A k \in 1 .. n - 1 : k \in H1 <=> k \in H
        /\ \A k \in H : band(u, m, k) = band(polls, m, k)
    BY <1>1 DEF SameBefore
  <1>3. i \in H /\ \A j \in H : j <= i
    BY <1>1 DEF LastOf
  <1>4. H1 = H \cup {n} /\ n \notin H /\ i \in Int /\ n \in Int /\ H \in SUBSET Int /\ H1 \in SUBSET Int
    <2>1. ASSUME NEW k \in H1 PROVE k \in H \cup {n}
      BY <1>2
    <2>2. ASSUME NEW k \in H PROVE k \in H1
      BY <1>2
    <2>3. H1 = H \cup {n}
      BY <1>2, <2>1, <2>2
    <2>4. n \notin H /\ H \in SUBSET Int /\ H1 \in SUBSET Int /\ i \in Int
      BY <1>2, <1>3
    <2>5. QED
      BY <2>3, <2>4
  <1>5. PICK T, T1 : T = streak(polls, m, i) /\ T1 = streak(u, m, n)
    OBVIOUS
  <1>6. \A j : j \in T <=> InStreak(polls, m, i, j)
    BY <1>1, <1>4, <1>5, StreakIs
  <1>7. \A j : j \in T1 <=> InStreak(u, m, n, j)
    BY <1>1, <1>4, <1>5, StreakIs
  <1>8. ASSUME NEW j \in H PROVE j \in T <=> j \in T1
    <2>1. j \in Int /\ j <= i /\ j <= n
      BY <1>2, <1>3
    <2>2. j \in T <=> \A k \in H : j <= k => band(polls, m, k) = band(polls, m, i)
      <3>1. \A k \in H : k <= i
        BY <1>3
      <3>2. QED
        BY <1>1, <1>6, <2>1, <3>1 DEF InStreak
    <2>3. j \in T1 <=> \A k \in H1 : j <= k => band(u, m, k) = band(u, m, n)
      <3>1. \A k \in H1 : k <= n
        BY <1>2
      <3>2. QED
        BY <1>1, <1>4, <1>7, <2>1, <3>1 DEF InStreak
    <2>4. (\A k \in H1 : j <= k => band(u, m, k) = band(u, m, n)) <=>
              \A k \in H : j <= k => band(polls, m, k) = band(polls, m, i)
      BY <1>2, <1>4
    <2>5. QED
      BY <2>2, <2>3, <2>4
  <1>9. n \in T1 /\ T1 \subseteq H1 /\ T \subseteq H
    <2>1. n \in T1
      BY <1>1, <1>2, <1>7 DEF InStreak
    <2>2. QED
      BY <1>1, <1>6, <1>7, <2>1 DEF InStreak
  <1>10. T1 = T \cup {n} /\ n \notin T
    BY <1>4, <1>8, <1>9
  <1>11. IsFiniteSet(T) /\ Cardinality(T) \in Nat
    <2>1. n - 1 \in Nat
      OBVIOUS
    <2>2. QED
      BY <1>1, <1>2, <1>5, <2>1, StreakIsFinite
  <1>12. Cardinality(T \cup {n}) = Cardinality(T) + 1
    BY <1>10, <1>11, FS_AddElement
  <1>13. QED
    BY <1>5, <1>10, <1>12

(* Otherwise it starts there.                                               *)
LEMMA StreakStarts ==
    ASSUME NEW u, NEW polls, NEW m, NEW n \in Nat \ {0}, SameBefore(u, polls, m, n), n \in heard(u, m),
           \/ heard(polls, m) = {}
           \/ \E i : LastOf(i, heard(polls, m)) /\ band(u, m, n) # band(polls, m, i)
    PROVE  Cardinality(streak(u, m, n)) = 1
  <1>1. PICK H, H1, T1 : H = heard(polls, m) /\ H1 = heard(u, m) /\ T1 = streak(u, m, n)
    OBVIOUS
  <1>2. /\ H \in SUBSET (1 .. n - 1) /\ H1 \in SUBSET (1 .. n) /\ n \in H1
        /\ \A k \in 1 .. n - 1 : k \in H1 <=> k \in H
        /\ \A k \in H : band(u, m, k) = band(polls, m, k)
    BY <1>1 DEF SameBefore
  <1>3. H1 = H \cup {n} /\ n \in Int /\ H1 \in SUBSET Int
    <2>1. ASSUME NEW k \in H1 PROVE k \in H \cup {n}
      BY <1>2
    <2>2. ASSUME NEW k \in H PROVE k \in H1
      BY <1>2
    <2>3. H1 = H \cup {n}
      BY <1>2, <2>1, <2>2
    <2>4. H1 \in SUBSET Int
      BY <1>2
    <2>5. QED
      BY <2>3, <2>4
  <1>4. \A j : j \in T1 <=> InStreak(u, m, n, j)
    BY <1>1, <1>3, StreakIs
  <1>5. n \in T1 /\ T1 \subseteq H1
    <2>1. n \in T1
      BY <1>1, <1>2, <1>4 DEF InStreak
    <2>2. QED
      BY <1>1, <1>4, <2>1 DEF InStreak
  <1>6. ASSUME NEW j \in H PROVE j \notin T1
    <2>1. PICK i : LastOf(i, H) /\ band(u, m, n) # band(polls, m, i)
      BY <1>1, <1>6
    <2>2. i \in H /\ j <= i /\ i <= n /\ i \in H1
      BY <1>2, <1>3, <2>1 DEF LastOf
    <2>3. band(u, m, i) # band(u, m, n)
      BY <1>2, <2>1, <2>2
    <2>4. QED
      BY <1>1, <1>4, <2>2, <2>3 DEF InStreak
  <1>7. T1 = {n}
    BY <1>3, <1>5, <1>6
  <1>8. Cardinality({n}) = 1
    BY FS_Singleton
  <1>9. QED
    BY <1>1, <1>7, <1>8

\* b is the band that the polls confirm for the metric.
Confirms(polls, m, b) ==
    \/ confirmations(polls, m) = {} /\ b = "GREEN"
    \/ \E i : LastOf(i, confirmations(polls, m)) /\ b = band(polls, m, i)

LEMMA ConfirmedIs ==
    ASSUME NEW polls, NEW m, heard(polls, m) \in SUBSET Int, NEW b, Confirms(polls, m, b)
    PROVE  confirmedBand(polls, m) = b
  <1>1. PICK P : P = confirmations(polls, m)
    OBVIOUS
  <1>2. P \in SUBSET Int
    BY <1>1 DEF confirmations
  <1>3. CASE P = {} /\ b = "GREEN"
    BY <1>1, <1>3 DEF confirmedBand
  <1>4. CASE \E i : LastOf(i, P) /\ b = band(polls, m, i)
    <2>1. PICK i : LastOf(i, P) /\ b = band(polls, m, i)
      BY <1>4
    <2>2. i \in P /\ \A j \in P : j <= i
      BY <2>1 DEF LastOf
    <2>3. \A k \in P : (\A j \in P : j <= k) => k = i
      BY <1>2, <2>2
    <2>4. (CHOOSE k \in P : \A j \in P : j <= k) = i
      BY <2>2, <2>3
    <2>5. QED
      BY <1>1, <2>1, <2>2, <2>4 DEF confirmedBand
  <1>5. QED
    BY <1>1, <1>3, <1>4 DEF Confirms

LEMMA ConfirmationIs ==
    ASSUME NEW polls, NEW m, NEW i
    PROVE  i \in confirmations(polls, m) <=>
               i \in heard(polls, m) /\ Cardinality(streak(polls, m, i)) >= HysteresisBreaches
  BY DEF confirmations

LEMMA ConfirmedAfter ==
    ASSUME NEW u, NEW polls, NEW m, NEW n \in Nat \ {0}, SameBefore(u, polls, m, n),
           NEW b, Confirms(polls, m, b),
           NEW c, c = IF n \in heard(u, m) /\ Cardinality(streak(u, m, n)) >= HysteresisBreaches
                      THEN band(u, m, n) ELSE b
    PROVE  Confirms(u, m, c)
  <1>1. PICK P, P1 : P = confirmations(polls, m) /\ P1 = confirmations(u, m)
    OBVIOUS
  <1>2. /\ heard(polls, m) \in SUBSET (1 .. n - 1) /\ heard(u, m) \in SUBSET (1 .. n)
        /\ \A i \in 1 .. n - 1 : i \in heard(u, m) <=> i \in heard(polls, m)
        /\ \A i \in 1 .. n - 1 : band(u, m, i) = band(polls, m, i) /\ streak(u, m, i) = streak(polls, m, i)
    BY DEF SameBefore
  <1>3. P \in SUBSET (1 .. n - 1) /\ P1 \in SUBSET (1 .. n)
    BY <1>1, <1>2, ConfirmationIs
  <1>4. \A i \in 1 .. n - 1 : i \in P1 <=> i \in P
    BY <1>1, <1>2, ConfirmationIs
  <1>5. CASE n \in P1
    <2>1. c = band(u, m, n)
      BY <1>1, <1>5, ConfirmationIs
    <2>2. LastOf(n, P1)
      BY <1>3, <1>5 DEF LastOf
    <2>3. QED
      BY <1>1, <2>1, <2>2 DEF Confirms
  <1>6. CASE n \notin P1
    <2>1. c = b
      BY <1>1, <1>6, ConfirmationIs
    <2>2. P1 = P
      <3>1. ASSUME NEW i \in P1 PROVE i \in P
        <4>1. i \in 1 .. n - 1
          BY <1>3, <1>6
        <4>2. QED
          BY <1>4, <4>1
      <3>2. ASSUME NEW i \in P PROVE i \in P1
        BY <1>3, <1>4
      <3>3. QED
        BY <3>1, <3>2
    <2>3. CASE P = {} /\ b = "GREEN"
      BY <1>1, <2>1, <2>2, <2>3 DEF Confirms
    <2>4. CASE \E i : LastOf(i, P) /\ b = band(polls, m, i)
      <3>1. PICK i : LastOf(i, P) /\ b = band(polls, m, i)
        BY <2>4
      <3>2. i \in 1 .. n - 1
        BY <1>3, <3>1 DEF LastOf
      <3>3. band(u, m, i) = band(polls, m, i)
        BY <1>2, <3>2
      <3>4. QED
        BY <1>1, <2>1, <2>2, <3>1, <3>3 DEF Confirms
    <2>5. QED
      BY <1>1, <2>3, <2>4 DEF Confirms
  <1>7. QED
    BY <1>5, <1>6

(* What the alert engine keeps of a metric: its confirmed band, the band    *)
(* last read and the length of the streak it ends.                          *)
AtLastReading(st, polls, m) ==
    \/ heard(polls, m) = {} /\ st.candidate = "none" /\ st.consecutive = 0
    \/ \E i : /\ LastOf(i, heard(polls, m)) /\ st.candidate = band(polls, m, i)
              /\ st.consecutive = Cardinality(streak(polls, m, i))

AlertOf(b) == IF b = "GREEN" THEN "none" ELSE b

SeriesFields == {"current", "candidate", "consecutive", "alert"}

SeriesOk(st, polls, m) ==
    /\ DOMAIN st = SeriesFields
    /\ st.current \in Bands /\ Confirms(polls, m, st.current)
    /\ st.alert = AlertOf(st.current)
    /\ st.consecutive \in Nat /\ AtLastReading(st, polls, m)

\* The state after a reading in band b.
Counted(new, st, b) ==
    /\ DOMAIN new = SeriesFields
    /\ new.candidate = b
    /\ new.consecutive = (IF b = st.candidate THEN st.consecutive + 1 ELSE 1)
    /\ new.current = (IF new.consecutive >= HysteresisBreaches THEN b ELSE st.current)
    /\ new.alert = AlertOf(new.current)

LEMMA EvaluatedCounts ==
    ASSUME NEW polls, NEW m, NEW st, SeriesOk(st, polls, m), NEW x \in Nat \cup {-2},
           NEW b, b = Guard!evaluateSeverity(x)
    PROVE  Counted(Guard!evaluate(st, x), st, b)
  <1>1. x # Guard!Unavailable
    BY DEF Guard!Unavailable
  <1>2. HysteresisBreaches \in Nat \ {0}
    BY AlgorithmsAssumption
  <1>3. PICK cur, new : cur = st.current /\ new = Guard!evaluate(st, x)
    OBVIOUS
  <1>4. PICK count : count = IF b = st.candidate THEN st.consecutive + 1 ELSE 1
    OBVIOUS
  <1>5. PICK seen : seen = [st EXCEPT !.candidate = b, !.consecutive = count]
    OBVIOUS
  <1>6. seen = Guard!observed(st, b)
    BY <1>4, <1>5 DEF Guard!observed, SeriesOk, SeriesFields
  <1>7. /\ DOMAIN st = SeriesFields /\ st.alert = AlertOf(cur) /\ st.consecutive \in Nat
    BY <1>3 DEF SeriesOk
  <1>8. count \in Nat
    BY <1>4, <1>7
  <1>9. /\ DOMAIN seen = SeriesFields /\ seen.candidate = b /\ seen.consecutive = count
        /\ seen.current = cur /\ seen.alert = st.alert
    BY <1>3, <1>5, <1>7 DEF SeriesFields
  <1>10. CASE b = cur
    <2>1. new = IF b = "GREEN" THEN [seen EXCEPT !.alert = "none"] ELSE seen
      BY <1>1, <1>3, <1>6, <1>10 DEF Guard!evaluate
    <2>2. /\ DOMAIN new = SeriesFields /\ new.candidate = b /\ new.consecutive = count
          /\ new.current = cur /\ new.alert = AlertOf(cur)
      BY <1>7, <1>9, <1>10, <2>1 DEF SeriesFields, AlertOf
    <2>3. QED
      BY <1>3, <1>4, <1>10, <2>2 DEF Counted
  <1>11. CASE b # cur
    <2>1. new = IF seen.consecutive < HysteresisBreaches THEN seen
                ELSE [seen EXCEPT !.current = b, !.alert = AlertOf(b)]
      BY <1>1, <1>3, <1>6, <1>11 DEF Guard!evaluate, AlertOf
    <2>2. CASE count < HysteresisBreaches
      BY <1>2, <1>3, <1>4, <1>7, <1>8, <1>9, <2>1, <2>2 DEF Counted
    <2>3. CASE count >= HysteresisBreaches
      <3>1. new = [seen EXCEPT !.current = b, !.alert = AlertOf(b)]
        BY <1>2, <1>8, <1>9, <2>1, <2>3
      <3>2. /\ DOMAIN new = SeriesFields /\ new.candidate = b /\ new.consecutive = count
            /\ new.current = b /\ new.alert = AlertOf(b)
        BY <1>9, <3>1 DEF SeriesFields
      <3>3. QED
        BY <1>3, <1>4, <2>3, <3>2 DEF Counted
    <2>4. QED
      BY <1>2, <1>8, <2>2, <2>3
  <1>12. QED
    BY <1>10, <1>11

LEMMA Evaluated ==
    ASSUME NEW u, NEW polls, NEW poll, NEW n, PolledOnce(u, polls, poll, n), NEW m,
           poll[m] \in Nat \cup {-2, -1}, NEW st, SeriesOk(st, polls, m)
    PROVE  SeriesOk(Guard!evaluate(st, poll[m]), u, m)
  <1>1. n \in Nat \ {0} /\ u[n] = poll
    BY DEF PolledOnce
  <1>2. SameBefore(u, polls, m, n) /\ (n \in heard(u, m) <=> poll[m] # Guard!Unavailable)
    BY EarlierPlaces
  <1>3. /\ heard(polls, m) \in SUBSET (1 .. n - 1) /\ heard(u, m) \in SUBSET (1 .. n)
        /\ \A i \in 1 .. n - 1 : i \in heard(u, m) <=> i \in heard(polls, m)
        /\ \A i \in 1 .. n - 1 : band(u, m, i) = band(polls, m, i) /\ streak(u, m, i) = streak(polls, m, i)
    BY <1>2 DEF SameBefore
  <1>4. CASE poll[m] = Guard!Unavailable
    <2>1. Guard!evaluate(st, poll[m]) = st
      BY <1>4 DEF Guard!evaluate
    <2>2. PICK b : b = st.current
      OBVIOUS
    <2>3. Confirms(polls, m, b)
      BY <2>2 DEF SeriesOk
    <2>4. Confirms(u, m, b)
      BY <1>1, <1>2, <1>4, <2>3, ConfirmedAfter
    <2>5. heard(u, m) = heard(polls, m)
      <3>1. n \notin heard(u, m)
        BY <1>2, <1>4
      <3>2. ASSUME NEW i \in heard(u, m) PROVE i \in heard(polls, m)
        <4>1. i \in 1 .. n - 1
          BY <1>1, <1>3, <3>1
        <4>2. QED
          BY <1>3, <4>1
      <3>3. ASSUME NEW i \in heard(polls, m) PROVE i \in heard(u, m)
        BY <1>3
      <3>4. QED
        BY <3>2, <3>3
    <2>6. AtLastReading(st, u, m)
      <3>1. CASE heard(polls, m) = {} /\ st.candidate = "none" /\ st.consecutive = 0
        BY <2>5, <3>1 DEF AtLastReading
      <3>2. CASE \E i : /\ LastOf(i, heard(polls, m)) /\ st.candidate = band(polls, m, i)
                        /\ st.consecutive = Cardinality(streak(polls, m, i))
        <4>1. PICK i : /\ LastOf(i, heard(polls, m)) /\ st.candidate = band(polls, m, i)
                       /\ st.consecutive = Cardinality(streak(polls, m, i))
          BY <3>2
        <4>2. i \in 1 .. n - 1
          BY <1>3, <4>1 DEF LastOf
        <4>3. band(u, m, i) = band(polls, m, i) /\ streak(u, m, i) = streak(polls, m, i)
          BY <1>3, <4>2
        <4>4. QED
          BY <2>5, <4>1, <4>3 DEF AtLastReading
      <3>3. QED
        BY <3>1, <3>2 DEF SeriesOk, AtLastReading
    <2>7. QED
      BY <2>1, <2>2, <2>4, <2>6 DEF SeriesOk
  <1>5. CASE poll[m] # Guard!Unavailable
    <2>1. PICK x \in Nat \cup {-2} : x = poll[m]
      BY <1>5 DEF Guard!Unavailable
    <2>2. PICK b, new : b = Guard!evaluateSeverity(x) /\ new = Guard!evaluate(st, x)
      OBVIOUS
    <2>3. b \in Bands /\ b # "none"
      BY <2>2, BandOfReading DEF Bands
    <2>4. Counted(new, st, b)
      BY <2>2, EvaluatedCounts
    <2>5. n \in heard(u, m) /\ band(u, m, n) = b
      BY <1>1, <1>2, <1>5, <2>1, <2>2 DEF band
    <2>6. LastOf(n, heard(u, m))
      BY <1>3, <2>5 DEF LastOf
    <2>7. new.consecutive = Cardinality(streak(u, m, n))
      <3>1. CASE heard(polls, m) = {} /\ st.candidate = "none" /\ st.consecutive = 0
        <4>1. Cardinality(streak(u, m, n)) = 1
          BY <1>1, <1>2, <2>5, <3>1, StreakStarts
        <4>2. new.consecutive = 1
          BY <2>3, <2>4, <3>1 DEF Counted
        <4>3. QED
          BY <4>1, <4>2
      <3>2. CASE \E i : /\ LastOf(i, heard(polls, m)) /\ st.candidate = band(polls, m, i)
                        /\ st.consecutive = Cardinality(streak(polls, m, i))
        <4>1. PICK i : /\ LastOf(i, heard(polls, m)) /\ st.candidate = band(polls, m, i)
                       /\ st.consecutive = Cardinality(streak(polls, m, i))
          BY <3>2
        <4>2. CASE b = st.candidate
          <5>1. Cardinality(streak(u, m, n)) = Cardinality(streak(polls, m, i)) + 1
            BY <1>1, <1>2, <2>5, <4>1, <4>2, StreakGoesOn
          <5>2. new.consecutive = st.consecutive + 1
            BY <2>4, <4>2 DEF Counted
          <5>3. QED
            BY <4>1, <5>1, <5>2
        <4>3. CASE b # st.candidate
          <5>1. Cardinality(streak(u, m, n)) = 1
            BY <1>1, <1>2, <2>5, <4>1, <4>3, StreakStarts
          <5>2. new.consecutive = 1
            BY <2>4, <4>3 DEF Counted
          <5>3. QED
            BY <5>1, <5>2
        <4>4. QED
          BY <4>2, <4>3
      <3>3. QED
        BY <3>1, <3>2 DEF SeriesOk, AtLastReading
    <2>8. AtLastReading(new, u, m)
      <3>1. new.candidate = b
        BY <2>4 DEF Counted
      <3>2. QED
        BY <2>5, <2>6, <2>7, <3>1 DEF AtLastReading
    <2>9. PICK old, cur : old = st.current /\ cur = new.current
      OBVIOUS
    <2>10. old \in Bands /\ Confirms(polls, m, old)
      BY <2>9 DEF SeriesOk
    <2>11. cur = IF n \in heard(u, m) /\ Cardinality(streak(u, m, n)) >= HysteresisBreaches
                 THEN band(u, m, n) ELSE old
      BY <2>4, <2>5, <2>7, <2>9 DEF Counted
    <2>12. Confirms(u, m, cur)
      BY <1>1, <1>2, <2>10, <2>11, ConfirmedAfter
    <2>13. cur \in Bands
      BY <2>3, <2>5, <2>10, <2>11
    <2>14. DOMAIN new = SeriesFields /\ new.alert = AlertOf(cur)
      BY <2>4, <2>9 DEF Counted
    <2>15. new.consecutive \in Nat
      <3>1. heard(u, m) \in SUBSET (1 .. n)
        BY <1>3
      <3>2. QED
        BY <1>1, <2>7, <3>1, StreakIsFinite
    <2>16. SeriesOk(new, u, m)
      BY <2>8, <2>9, <2>12, <2>13, <2>14, <2>15 DEF SeriesOk
    <2>17. QED
      BY <2>1, <2>2, <2>16
  <1>6. QED
    BY <1>4, <1>5

----------------------------------------------------------------------------
(* The plane of one configuration after a list of polls.                    *)

Readings == [Metrics -> Nat \cup {-2, -1}]

CurrentBands(series) == {series[m].current : m \in Metrics}

MetricsOk(p, polls) ==
    \A m \in Metrics : RingOk(p.ring[m], polls, m) /\ SeriesOk(p.series[m], polls, m)

PlaneOk(p, polls, config) ==
    /\ MetricsOk(p, polls)
    /\ p.severity = Guard!worstOf(CurrentBands(p.series))
    /\ InForce(p.level, p.severity, config)

LEMMA SeverityIsBand ==
    ASSUME NEW series, \A m \in Metrics : series[m].current \in Bands,
           NEW severity, severity = Guard!worstOf(CurrentBands(series))
    PROVE  /\ severity \in Bands
           /\ \E m \in Metrics : severity = series[m].current
           /\ \A m \in Metrics : Guard!SEVERITY_RANK[series[m].current] <= Guard!SEVERITY_RANK[severity]
  <1>1. PICK X : X = CurrentBands(series)
    OBVIOUS
  <1>2. X \in SUBSET Bands
    BY <1>1 DEF CurrentBands
  <1>3. X # {} /\ \A s : s \in X <=> \E m \in Metrics : s = series[m].current
    BY <1>1, AlgorithmsAssumption DEF CurrentBands
  <1>4. /\ severity \in X
        /\ \A s \in X : Guard!SEVERITY_RANK[s] <= Guard!SEVERITY_RANK[severity]
    BY <1>1, <1>2, <1>3, WorstOf
  <1>5. QED
    BY <1>2, <1>3, <1>4

LEMMA BootedOk ==
    ASSUME NEW config \in Configs, NEW polls, polls = <<>>
    PROVE  PlaneOk(Guard!Booted, polls, config)
  <1>1. PICK c \in Nat \ {0, 1} : c = CapacityPerSeries
    BY AlgorithmsAssumption
  <1>2. Len(polls) = 0 /\ DOMAIN polls = {}
    OBVIOUS
  <1>3. PICK ring, st : ring = Guard!EmptyRing /\ st = Guard!NoSeries
    OBVIOUS
  <1>4. ASSUME NEW m \in Metrics PROVE RingOk(ring, polls, m)
    <2>1. /\ DOMAIN ring = {"slots", "writeIndex", "size"} /\ DOMAIN ring.slots = 0 .. c - 1
          /\ ring.writeIndex = 0 /\ ring.size = 0
      BY <1>1, <1>3 DEF Guard!EmptyRing
    <2>2. Fitting(Len(polls)) = 0 /\ 0 \in 0 .. c - 1
      BY <1>1, <1>2 DEF Fitting
    <2>3. QED
      BY <1>1, <2>1, <2>2 DEF RingOk
  <1>5. ASSUME NEW m \in Metrics PROVE SeriesOk(st, polls, m)
    <2>1. /\ DOMAIN st = SeriesFields /\ st.current = "GREEN" /\ st.candidate = "none"
          /\ st.consecutive = 0 /\ st.alert = "none"
      BY <1>3 DEF Guard!NoSeries, SeriesFields
    <2>2. heard(polls, m) = {} /\ confirmations(polls, m) = {}
      BY <1>2 DEF heard, confirmations
    <2>3. AtLastReading(st, polls, m)
      BY <2>1, <2>2 DEF AtLastReading
    <2>4. Confirms(polls, m, "GREEN")
      BY <2>2 DEF Confirms
    <2>5. QED
      BY <2>1, <2>3, <2>4 DEF SeriesOk, Bands, AlertOf
  <1>6. PICK p : p = Guard!Booted
    OBVIOUS
  <1>7. /\ p.severity = "GREEN" /\ p.level = 0
        /\ \A m \in Metrics : p.ring[m] = ring /\ p.series[m] = st
    BY <1>3, <1>6 DEF Guard!Booted
  <1>8. MetricsOk(p, polls)
    BY <1>4, <1>5, <1>7 DEF MetricsOk
  <1>9. p.severity = Guard!worstOf(CurrentBands(p.series))
    <2>1. PICK severity, series : /\ series = p.series
                                  /\ severity = Guard!worstOf(CurrentBands(series))
      OBVIOUS
    <2>2. \A m \in Metrics : series[m].current = "GREEN"
      BY <1>3, <1>7, <2>1 DEF Guard!NoSeries
    <2>3. \A m \in Metrics : series[m].current \in Bands
      BY <2>2 DEF Bands
    <2>4. \E m \in Metrics : severity = series[m].current
      BY <2>1, <2>3, SeverityIsBand
    <2>5. QED
      BY <1>7, <2>1, <2>2, <2>4
  <1>10. InForce(p.level, p.severity, config)
    <2>1. \A l \in 1 .. 8 : Guard!SEVERITY_RANK[Guard!triggerSeverity(l)] > 0
      BY TriggerRank
    <2>2. Guard!SEVERITY_RANK["GREEN"] = 0
      BY DEF Guard!SEVERITY_RANK
    <2>3. \A l \in 1 .. 8 :
             /\ ~(l <= 0)
             /\ ~(Guard!SEVERITY_RANK[Guard!triggerSeverity(l)] <= Guard!SEVERITY_RANK["GREEN"])
      <3>1. SUFFICES ASSUME NEW l \in 1 .. 8
                     PROVE  /\ ~(l <= 0)
                            /\ ~(Guard!SEVERITY_RANK[Guard!triggerSeverity(l)]
                                    <= Guard!SEVERITY_RANK["GREEN"])
        OBVIOUS
      <3>2. PICK r \in 1 .. 4 : r = Guard!SEVERITY_RANK[Guard!triggerSeverity(l)]
        BY TriggerRank
      <3>3. QED
        BY <2>2, <3>2
    <2>4. QED
      BY <1>7, <2>3 DEF InForce
  <1>11. QED
    BY <1>6, <1>8, <1>9, <1>10 DEF PlaneOk

LEMMA CollectedOk ==
    ASSUME NEW config \in Configs, NEW polls \in Seq(Readings), NEW poll \in Readings,
           NEW p, PlaneOk(p, polls, config)
    PROVE  PlaneOk(Guard!collect(p, poll, config), Append(polls, poll), config)
  <1>1. PICK u, n : u = Append(polls, poll) /\ n = Len(polls) + 1
    OBVIOUS
  <1>2. PolledOnce(u, polls, poll, n)
    BY <1>1 DEF PolledOnce
  <1>3. PICK series, severity, new :
           /\ series = [m \in Metrics |-> Guard!evaluate(p.series[m], poll[m])]
           /\ severity = Guard!aggregateSeverity(series)
           /\ new = Guard!collect(p, poll, config)
    OBVIOUS
  <1>4. new = [ring |-> [m \in Metrics |-> Guard!push(p.ring[m], poll[m])], series |-> series,
               severity |-> severity, level |-> Guard!reconcile(p.level, severity, config)]
    BY <1>3, Zenon DEF Guard!collect
  <1>5. /\ \A m \in Metrics : new.ring[m] = Guard!push(p.ring[m], poll[m])
        /\ new.series = series /\ new.severity = severity
        /\ new.level = Guard!reconcile(p.level, severity, config)
    BY <1>4
  <1>6. \A m \in Metrics : series[m] = Guard!evaluate(p.series[m], poll[m])
    BY <1>3
  <1>7. ASSUME NEW m \in Metrics PROVE RingOk(new.ring[m], u, m)
    <2>1. RingOk(p.ring[m], polls, m)
      BY DEF PlaneOk, MetricsOk
    <2>2. RingOk(Guard!push(p.ring[m], poll[m]), Append(polls, poll), m)
      <3>1. PICK ring, S : ring = p.ring[m] /\ S = Readings
        OBVIOUS
      <3>2. RingOk(ring, polls, m) /\ polls \in Seq(S) /\ poll \in S
        BY <2>1, <3>1
      <3>3. RingOk(Guard!push(ring, poll[m]), Append(polls, poll), m)
        BY <3>2, RingPushed
      <3>4. QED
        BY <3>1, <3>3
    <2>3. QED
      BY <1>1, <1>5, <2>2
  <1>8. ASSUME NEW m \in Metrics PROVE SeriesOk(series[m], u, m)
    <2>1. PICK st : st = p.series[m]
      OBVIOUS
    <2>2. SeriesOk(st, polls, m)
      BY <2>1 DEF PlaneOk, MetricsOk
    <2>3. poll[m] \in Nat \cup {-2, -1}
      BY DEF Readings
    <2>4. SeriesOk(Guard!evaluate(st, poll[m]), u, m)
      BY <1>2, <2>2, <2>3, Evaluated
    <2>5. QED
      BY <1>6, <2>1, <2>4
  <1>9. MetricsOk(new, u)
    BY <1>5, <1>7, <1>8 DEF MetricsOk
  <1>10. severity = Guard!worstOf(CurrentBands(series))
    BY <1>3 DEF Guard!aggregateSeverity, CurrentBands
  <1>11. severity \in Bands
    <2>1. \A m \in Metrics : series[m].current \in Bands
      BY <1>8 DEF SeriesOk
    <2>2. QED
      BY <1>10, <2>1, SeverityIsBand
  <1>12. InForce(new.level, severity, config)
    <2>1. PICK level : level = p.level
      OBVIOUS
    <2>2. level \in 0 .. 8 /\ (config.degradationEnabled \/ level <= 2)
      BY <2>1 DEF PlaneOk, InForce
    <2>3. InForce(Guard!reconcile(level, severity, config), severity, config)
      BY <1>11, <2>2, ReconciledInForce
    <2>4. QED
      BY <1>5, <2>1, <2>3
  <1>13. QED
    BY <1>1, <1>3, <1>5, <1>9, <1>10, <1>12 DEF PlaneOk

PollsInv ==
    algorithm = "polls" =>
        /\ input \in Seq(Readings)
        /\ DOMAIN plane = Configs /\ \A config \in Configs : PlaneOk(plane[config], input, config)

LEMMA PollsInvHolds == AlgorithmsSpec => []PollsInv
  <1>1. AlgorithmsInit => PollsInv
    <2>1. ASSUME AlgorithmsInit PROVE PollsInv
      <3>1. input = <<>> /\ plane = [config \in Configs |-> Guard!Booted]
        BY <2>1 DEF AlgorithmsInit
      <3>2. input \in Seq(Readings) /\ DOMAIN plane = Configs
        BY <3>1
      <3>3. ASSUME NEW config \in Configs PROVE PlaneOk(plane[config], input, config)
        <4>1. plane[config] = Guard!Booted
          BY <3>1
        <4>2. PICK polls : polls = input
          OBVIOUS
        <4>3. PlaneOk(Guard!Booted, polls, config)
          BY <3>1, <4>2, BootedOk
        <4>4. QED
          BY <4>1, <4>2, <4>3
      <3>4. QED
        BY <3>2, <3>3 DEF PollsInv
    <2>2. QED
      BY <2>1
  <1>2. PollsInv /\ [AlgorithmsNext]_algorithmsVars => PollsInv'
    <2>1. ASSUME PollsInv, WriteToken PROVE PollsInv'
      BY <2>1 DEF PollsInv, WriteToken
    <2>2. ASSUME PollsInv, WriteTask PROVE PollsInv'
      BY <2>2 DEF PollsInv, WriteTask
    <2>3. ASSUME PollsInv, WriteCharacter PROVE PollsInv'
      BY <2>3 DEF PollsInv, WriteCharacter
    <2>4. ASSUME PollsInv, Poll PROVE PollsInv'
      <3>1. PICK poll \in Polls :
               /\ input' = Append(input, poll)
               /\ plane' = [config \in Configs |-> Guard!collect(plane[config], poll, config)]
        BY <2>4 DEF Poll
      <3>2. /\ poll \in Readings /\ input \in Seq(Readings)
            /\ \A config \in Configs : PlaneOk(plane[config], input, config)
        BY <2>4, AlgorithmsAssumption DEF PollsInv, Poll, Readings
      <3>3. input' \in Seq(Readings) /\ DOMAIN plane' = Configs
        BY <3>1, <3>2
      <3>4. ASSUME NEW config \in Configs PROVE PlaneOk(plane'[config], input', config)
        <4>1. PICK p, polls : p = plane[config] /\ polls = input
          OBVIOUS
        <4>2. PlaneOk(p, polls, config) /\ polls \in Seq(Readings)
          BY <3>2, <4>1
        <4>3. PlaneOk(Guard!collect(p, poll, config), Append(polls, poll), config)
          BY <3>2, <4>2, CollectedOk
        <4>4. plane'[config] = Guard!collect(p, poll, config) /\ input' = Append(polls, poll)
          BY <3>1, <4>1
        <4>5. QED
          BY <4>3, <4>4
      <3>5. QED
        BY <3>3, <3>4 DEF PollsInv
    <2>5. ASSUME PollsInv, UNCHANGED algorithmsVars PROVE PollsInv'
      BY <2>5 DEF PollsInv, algorithmsVars
    <2>6. QED
      BY <2>1, <2>2, <2>3, <2>4, <2>5 DEF AlgorithmsNext
  <1>3. QED
    BY <1>1, <1>2, PTL DEF AlgorithmsSpec

(* After any series of polls, of any length and any metrics, the degradation *)
(* in force is the one that the confirmed bands warrant, the alerts are      *)
(* those of the metrics confirmed above GREEN, and the ring holds the last   *)
(* readings (collect(), r-sentinel/index.ts).                                *)
THEOREM DegradationWarranted == AlgorithmsSpec => []DegradationIsWarranted
  <1>1. ASSUME PollsInv PROVE DegradationIsWarranted
    <2> DEFINE pressures == {Guard!SEVERITY_RANK[confirmedBand(input, m)] : m \in Metrics}
               alarming == {m \in Metrics : confirmedBand(input, m) # "GREEN"}
               size == IF Len(input) < CapacityPerSeries THEN Len(input) ELSE CapacityPerSeries
    <2> SUFFICES ASSUME algorithm = "polls", NEW config \in Configs
                 PROVE  /\ \A level \in Guard!DEGRADATION_LADDER :
                              level <= Guard!process(plane[config]).degradationLevel <=>
                                  /\ level <= config.maxLevel
                                  /\ Guard!requiresAuthorisation(level) => config.degradationEnabled
                                  /\ \E pressure \in pressures :
                                        pressure >= Guard!SEVERITY_RANK[Guard!triggerSeverity(level)]
                        /\ Guard!getActiveAlerts(plane[config].series) = alarming
                        /\ \A m \in Metrics :
                              Guard!toArray(plane[config].ring[m]) =
                                  [i \in 1 .. size |-> input[Len(input) - size + i][m]]
      BY Zenon DEF DegradationIsWarranted
    <2>1. /\ pressures = {Guard!SEVERITY_RANK[confirmedBand(input, m)] : m \in Metrics}
          /\ alarming = {m \in Metrics : confirmedBand(input, m) # "GREEN"}
          /\ size = Fitting(Len(input))
      BY DEF Fitting
    <2> HIDE DEF pressures, alarming, size
    <2>2. PICK p, polls : p = plane[config] /\ polls = input
      OBVIOUS
    <2>3. polls \in Seq(Readings) /\ PlaneOk(p, polls, config)
      BY <1>1, <2>1, <2>2 DEF PollsInv
    <2>4. ASSUME NEW m \in Metrics
          PROVE  /\ p.series[m].current \in Bands
                 /\ confirmedBand(polls, m) = p.series[m].current
                 /\ p.series[m].alert = AlertOf(p.series[m].current)
      <3>1. PICK st, cur : st = p.series[m] /\ cur = st.current
        OBVIOUS
      <3>2. cur \in Bands /\ Confirms(polls, m, cur) /\ st.alert = AlertOf(cur)
        BY <2>3, <3>1 DEF PlaneOk, MetricsOk, SeriesOk
      <3>3. heard(polls, m) \in SUBSET Int
        BY <2>3 DEF heard
      <3>4. confirmedBand(polls, m) = cur
        BY <3>2, <3>3, ConfirmedIs
      <3>5. QED
        BY <3>1, <3>2, <3>4
    <2>5. PICK severity, series : severity = p.severity /\ series = p.series
      OBVIOUS
    <2>6. /\ severity \in Bands
          /\ \E m \in Metrics : severity = series[m].current
          /\ \A m \in Metrics : Guard!SEVERITY_RANK[series[m].current] <= Guard!SEVERITY_RANK[severity]
      <3>1. \A m \in Metrics : series[m].current \in Bands
        BY <2>4, <2>5
      <3>2. severity = Guard!worstOf(CurrentBands(series))
        BY <2>3, <2>5 DEF PlaneOk
      <3>3. QED
        BY <3>1, <3>2, SeverityIsBand
    <2>7. InForce(p.level, severity, config)
      BY <2>3, <2>5 DEF PlaneOk
    <2>8. ASSUME NEW level \in 1 .. 8
          PROVE  (\E pressure \in pressures :
                     pressure >= Guard!SEVERITY_RANK[Guard!triggerSeverity(level)])
                 <=> Guard!SEVERITY_RANK[Guard!triggerSeverity(level)] <= Guard!SEVERITY_RANK[severity]
      <3>1. PICK t \in Int : t = Guard!SEVERITY_RANK[Guard!triggerSeverity(level)]
        BY TriggerRank
      <3>2. PICK r \in Int : r = Guard!SEVERITY_RANK[severity]
        BY <2>6, RankOf DEF Ranks
      <3>3. \A x \in pressures : x \in Int /\ x <= r
        BY <2>1, <2>2, <2>4, <2>5, <2>6, <3>2, RankOf DEF Ranks
      <3>4. r \in pressures
        BY <2>1, <2>2, <2>4, <2>5, <2>6, <3>2
      <3>5. (\E x \in pressures : x >= t) <=> t <= r
        BY <3>1, <3>2, <3>3, <3>4
      <3>6. QED
        BY <3>1, <3>2, <3>5
    <2>9. ASSUME NEW level \in Guard!DEGRADATION_LADDER
          PROVE  level <= Guard!process(plane[config]).degradationLevel <=>
                     /\ level <= config.maxLevel
                     /\ Guard!requiresAuthorisation(level) => config.degradationEnabled
                     /\ \E pressure \in pressures :
                           pressure >= Guard!SEVERITY_RANK[Guard!triggerSeverity(level)]
      <3>1. level \in 1 .. 8
        BY DEF Guard!DEGRADATION_LADDER
      <3>2. Guard!process(plane[config]).degradationLevel = p.level
        BY <2>2 DEF Guard!process
      <3>3. QED
        BY <2>7, <2>8, <3>1, <3>2 DEF InForce
    <2>10. Guard!getActiveAlerts(plane[config].series) = alarming
      <3>1. ASSUME NEW m \in Metrics
            PROVE  plane[config].series[m].alert # "none" <=> confirmedBand(input, m) # "GREEN"
        BY <2>2, <2>4 DEF AlertOf, Bands
      <3>2. QED
        BY <2>1, <3>1 DEF Guard!getActiveAlerts
    <2>11. ASSUME NEW m \in Metrics
           PROVE  Guard!toArray(plane[config].ring[m]) =
                      [i \in 1 .. size |-> input[Len(input) - size + i][m]]
      <3>1. PICK ring : ring = p.ring[m]
        OBVIOUS
      <3>2. RingOk(ring, polls, m) /\ Len(polls) \in Nat
        BY <2>3, <3>1 DEF PlaneOk, MetricsOk
      <3>3. Guard!toArray(ring) = [i \in 1 .. size |-> polls[Len(polls) - size + i][m]]
        BY <2>1, <2>2, <3>2, RingRead
      <3>4. QED
        BY <2>2, <3>1, <3>3
    <2>12. QED
      BY <2>9, <2>10, <2>11
  <1>2. QED
    BY <1>1, PollsInvHolds, PTL

----------------------------------------------------------------------------
(* Documents.                                                               *)

LEMMA GreatestPlace ==
    ASSUME NEW b \in Nat, NEW P \in SUBSET (0 .. b), P # {}
    PROVE  \E i \in P : \A k \in P : k <= i
  <1> DEFINE Q == {b - i : i \in P}
  <1>1. Q \in SUBSET Nat /\ Q # {}
    <2>1. \A i \in P : b - i \in Nat
      OBVIOUS
    <2>2. QED
      BY <2>1
  <1>2. PICK q \in Q : \A k \in Q : q <= k
    <2> HIDE DEF Q
    <2>1. QED
      BY <1>1, LeastPlace
  <1>3. PICK i \in P : q = b - i
    BY <1>2
  <1>4. ASSUME NEW k \in P PROVE k <= i
    <2>1. b - k \in Q /\ b - k \in Int /\ i \in Int /\ k \in Int
      OBVIOUS
    <2>2. b - i <= b - k
      <3> HIDE DEF Q
      <3>1. QED
        BY <1>2, <1>3, <2>1
    <2>3. QED
      BY <2>1, <2>2
  <1>5. QED
    BY <1>4

LEMMA TrimmedCharacters ==
    ASSUME NEW S, NEW s \in Seq(S)
    PROVE  trim(s) \in Seq(S)
  <1> DEFINE inked == {i \in DOMAIN s : s[i] \notin Blank}
             first == CHOOSE i \in inked : \A o \in inked : i <= o
             last == CHOOSE i \in inked : \A o \in inked : o <= i
  <1>1. DOMAIN s = 1 .. Len(s) /\ Len(s) \in Nat
    OBVIOUS
  <1>2. trim(s) = IF inked = {} THEN <<>> ELSE SubSeq(s, first, last)
    BY DEF trim
  <1>3. inked \in SUBSET (0 .. Len(s)) /\ inked \in SUBSET Nat /\ inked \subseteq DOMAIN s
    BY <1>1
  <1> HIDE DEF inked
  <1>4. CASE inked = {}
    <2>1. <<>> \in Seq(S)
      OBVIOUS
    <2>2. QED
      BY <1>2, <1>4, <2>1
  <1>5. CASE inked # {}
    <2>1. \E i \in inked : \A o \in inked : i <= o
      BY <1>3, <1>5, LeastPlace
    <2>2. \E i \in inked : \A o \in inked : o <= i
      BY <1>1, <1>3, <1>5, GreatestPlace
    <2>3. first \in inked /\ last \in inked
      BY <2>1, <2>2
    <2> HIDE DEF first, last
    <2>4. first \in 1 .. Len(s) /\ last \in 1 .. Len(s)
      BY <1>1, <1>3, <2>3
    <2>5. SubSeq(s, first, last) \in Seq(S)
      BY <1>1, <2>4
    <2>6. QED
      BY <1>2, <1>5, <2>5
  <1>6. QED
    BY <1>4, <1>5

LEMMA NormalisedIsText ==
    ASSUME NEW S, NEW s \in Seq(S)
    PROVE  normaliseText(s) \in Seq(S)
  <1>1. ASSUME NEW u \in Seq(S), NEW c, NEW n PROVE collapse(u, c, n) \in Seq(S)
    BY KeptSubsequence DEF collapse
  <1>2. ASSUME NEW u \in Seq(S) PROVE trimLines(u) \in Seq(S)
    BY KeptSubsequence DEF trimLines
  <1>3. keep(s, {i \in DOMAIN s : s[i] # Invisible}) \in Seq(S)
    BY KeptSubsequence
  <1>4. QED
    BY <1>1, <1>2, <1>3, TrimmedCharacters DEF normaliseText

LEMMA WindowIs ==
    ASSUME NEW o, o.size \in Nat \ {0}, o.overlap \in Nat
    PROVE  windowChars(o) \in Nat \ {0} /\ overlapChars(o) \in Nat
  <1>1. \A a, b \in Nat : a * b \in Nat
    OBVIOUS
  <1>2. QED
    BY <1>1, AlgorithmsAssumption DEF windowChars, overlapChars

(* A cut lies past the cursor and within the window.                        *)
LEMMA CutInWindow ==
    ASSUME NEW text, NEW cursor \in Nat, NEW o, NEW w \in Nat \ {0}, w = windowChars(o)
    PROVE  cutOf(text, cursor, o) \in cursor + 1 .. cursor + w
  <1> DEFINE limit == cursor + w
             floor == cursor + w \div 2
             at(k) == boundaries(text, cursor, limit, floor, Preferences[k])
             kinds == {k \in DOMAIN Preferences : at(k) # {}}
             best == CHOOSE k \in kinds : \A i \in kinds : k <= i
             last == CHOOSE e \in at(best) : \A i \in at(best) : i <= e
  <1>1. limit \in Nat /\ floor \in Nat /\ floor >= cursor /\ limit > cursor
    OBVIOUS
  <1>2. cutOf(text, cursor, o) = IF kinds = {} THEN limit ELSE last
    BY DEF cutOf
  <1>3. kinds \in SUBSET Nat
    <2>1. DOMAIN Preferences = 1 .. 4
      BY DEF Preferences
    <2>2. QED
      BY <2>1
  <1>4. \A k : at(k) \in SUBSET (floor + 1 .. limit)
    BY DEF boundaries
  <1>5. \A k \in kinds : at(k) # {}
    OBVIOUS
  <1> HIDE DEF kinds, at, limit, floor
  <1>6. CASE kinds = {}
    <2>1. cutOf(text, cursor, o) = limit
      BY <1>2, <1>6
    <2>2. QED
      BY <2>1 DEF limit
  <1>7. CASE kinds # {}
    <2>1. \E k \in kinds : \A i \in kinds : k <= i
      BY <1>3, <1>7, LeastPlace
    <2>2. best \in kinds
      BY <2>1
    <2> HIDE DEF best
    <2>3. at(best) # {} /\ at(best) \in SUBSET (0 .. limit)
      BY <1>1, <1>4, <1>5, <2>2
    <2>4. \E e \in at(best) : \A i \in at(best) : i <= e
      BY <1>1, <2>3, GreatestPlace
    <2>5. last \in at(best)
      BY <2>4
    <2> HIDE DEF last
    <2>6. last \in floor + 1 .. limit
      BY <1>4, <2>5
    <2>7. last \in cursor + 1 .. limit
      BY <1>1, <2>6
    <2>8. QED
      BY <1>2, <1>7, <2>7 DEF limit
  <1>8. QED
    BY <1>6, <1>7
(* The pieces cut so far cover the text up to the cursor: each lies in the  *)
(* window, begins past the one before it and not past its end.              *)
Piece == [start : Nat, end : Nat]

Covering(raw, w) ==
    /\ raw \in Seq(Piece)
    /\ \A i \in 1 .. Len(raw) : raw[i].end - raw[i].start \in 1 .. w
    /\ \A i \in 1 .. Len(raw) - 1 : /\ raw[i].start < raw[i + 1].start
                                    /\ raw[i + 1].start <= raw[i].end

\* Where the next piece would begin: at the start of the text, in or right
\* after the last piece, or nowhere when the last one ends the text.
Follows(raw, cursor, size) ==
    IF raw = <<>> THEN cursor = 0
    ELSE /\ raw[1].start = 0
         /\ IF cursor = size THEN raw[Len(raw)].end = size
            ELSE raw[Len(raw)].start < cursor /\ cursor <= raw[Len(raw)].end

LoopInv(s, size, w) ==
    /\ s.cursor \in 0 .. size
    /\ Covering(s.raw, w)
    /\ Follows(s.raw, s.cursor, size)

\* What a turn adds: a piece from the cursor to `to`, within the window.
Pushes(raw, s, to, w) ==
    /\ raw = Append(s.raw, [start |-> s.cursor, end |-> to])
    /\ to - s.cursor \in 1 .. w

LastPiece(raw, s, to) ==
    /\ raw # <<>> /\ raw[1].start = 0
    /\ raw[Len(raw)].start = s.cursor /\ raw[Len(raw)].end = to

LEMMA PiecePushed ==
    ASSUME NEW w \in Nat \ {0}, NEW size \in Nat \ {0}, NEW s, LoopInv(s, size, w),
           s.cursor < size, NEW to \in Nat, NEW raw, Pushes(raw, s, to, w)
    PROVE  Covering(raw, w) /\ LastPiece(raw, s, to)
  <1>1. PICK c \in Nat : c = s.cursor
    BY DEF LoopInv
  <1>2. PICK old \in Seq(Piece) : old = s.raw
    BY DEF LoopInv, Covering
  <1>3. PICK piece \in Piece : piece = [start |-> c, end |-> to]
    BY DEF Piece
  <1>4. piece.start = c /\ piece.end = to
    BY <1>3
  <1>5. raw = Append(old, piece)
    BY <1>1, <1>2, <1>3 DEF Pushes
  <1> DEFINE n == Len(old)
  <1>6. n \in Nat /\ raw \in Seq(Piece) /\ Len(raw) = n + 1
    BY <1>2, <1>3, <1>5
  <1>7. raw[n + 1] = piece /\ \A i \in 1 .. n : raw[i] = old[i] /\ raw[i] \in Piece
    BY <1>2, <1>3, <1>5
  <1>8. /\ \A i \in 1 .. n : old[i].end - old[i].start \in 1 .. w
        /\ \A i \in 1 .. n - 1 : old[i].start < old[i + 1].start /\ old[i + 1].start <= old[i].end
    BY <1>2 DEF LoopInv, Covering
  <1>9. IF old = <<>> THEN c = 0
        ELSE old[1].start = 0 /\ old[n].start < c /\ c <= old[n].end
    BY <1>1, <1>2 DEF LoopInv, Follows
  <1>10. old = <<>> <=> n = 0
    OBVIOUS
  <1> HIDE DEF n
  <1>11. ASSUME NEW i \in 1 .. n + 1 PROVE raw[i].end - raw[i].start \in 1 .. w
    <2>1. CASE i = n + 1
      BY <1>1, <1>4, <1>7, <2>1 DEF Pushes
    <2>2. CASE i # n + 1
      <3>1. i \in 1 .. n
        BY <1>6, <2>2
      <3>2. QED
        BY <1>7, <1>8, <3>1
    <2>3. QED
      BY <2>1, <2>2
  <1>12. ASSUME NEW i \in 1 .. n PROVE raw[i].start < raw[i + 1].start /\ raw[i + 1].start <= raw[i].end
    <2>1. CASE i = n
      <3>1. old # <<>>
        BY <1>6, <1>10, <2>1
      <3>2. raw[i] = old[n] /\ raw[i + 1] = piece
        BY <1>7, <2>1
      <3>3. QED
        BY <1>4, <1>9, <3>1, <3>2
    <2>2. CASE i # n
      <3>1. i \in 1 .. n - 1 /\ i + 1 \in 1 .. n
        BY <1>6, <2>2
      <3>2. QED
        BY <1>7, <1>8, <3>1
    <2>3. QED
      BY <2>1, <2>2
  <1>13. Covering(raw, w)
    <2>1. Len(raw) - 1 = n
      BY <1>6
    <2>2. QED
      BY <1>6, <1>11, <1>12, <2>1 DEF Covering
  <1>14. raw[1].start = 0
    <2>1. CASE n = 0
      BY <1>4, <1>7, <1>9, <1>10, <2>1
    <2>2. CASE n # 0
      <3>1. 1 \in 1 .. n
        BY <1>6, <2>2
      <3>2. QED
        BY <1>7, <1>9, <1>10, <2>2, <3>1
    <2>3. QED
      BY <2>1, <2>2
  <1>15. raw # <<>>
    BY <1>6
  <1>16. QED
    BY <1>1, <1>4, <1>6, <1>7, <1>13, <1>14, <1>15 DEF LastPiece

(* A turn keeps the invariant and moves the cursor, or the text is covered. *)
LEMMA TurnKeeps ==
    ASSUME NEW S, NEW text \in Seq(S), text # <<>>,
           NEW o, o.size \in Nat \ {0}, o.overlap \in Nat,
           NEW s, LoopInv(s, Len(text), windowChars(o))
    PROVE  /\ LoopInv(nextPiece(s, text, o), Len(text), windowChars(o))
           /\ s.cursor = Len(text) => nextPiece(s, text, o) = s
           /\ s.cursor < Len(text) => nextPiece(s, text, o).cursor > s.cursor
           /\ nextPiece(s, text, o).raw = <<>> => s.cursor = Len(text)
  <1> DEFINE w == windowChars(o)
             size == Len(text)
             cut == cutOf(text, s.cursor, o)
             pushed(to, next) == [raw |-> Append(s.raw, [start |-> s.cursor, end |-> to]),
                                  cursor |-> next]
             t == nextPiece(s, text, o)
  <1>1. w \in Nat \ {0} /\ overlapChars(o) \in Nat /\ size \in Nat \ {0}
    BY WindowIs
  <1>2. s.cursor \in 0 .. size
    BY DEF LoopInv
  <1>3. t = IF s.cursor >= size THEN s
            ELSE IF size - s.cursor <= w THEN pushed(size, size)
            ELSE pushed(cut, advanceFrom(s.cursor, cut, o))
    BY DEF nextPiece
  <1>4. LoopInv(s, size, w)
    OBVIOUS
  <1> HIDE DEF t, w, size
  <1>5. CASE s.cursor = size
    <2>1. t = s
      BY <1>1, <1>2, <1>3, <1>5
    <2>2. QED
      BY <1>1, <1>4, <1>5, <2>1 DEF t, size, w
  <1>6. CASE s.cursor < size /\ size - s.cursor <= w
    <2>1. PICK raw : raw = Append(s.raw, [start |-> s.cursor, end |-> size])
      OBVIOUS
    <2>2. t.raw = raw /\ t.cursor = size
      BY <1>1, <1>2, <1>3, <1>6, <2>1
    <2>3. size \in Nat /\ s.cursor < size /\ size - s.cursor \in 1 .. w
      BY <1>1, <1>2, <1>6
    <2>4. Covering(raw, w) /\ LastPiece(raw, s, size)
      <3>1. Pushes(raw, s, size, w)
        BY <2>1, <2>3 DEF Pushes
      <3>2. QED
        BY <1>1, <1>4, <2>3, <3>1, PiecePushed
    <2>5. LoopInv(t, size, w)
      BY <1>1, <2>2, <2>4 DEF LoopInv, Follows, LastPiece
    <2>6. t.cursor > s.cursor
      BY <1>1, <1>2, <1>6, <2>2
    <2>7. QED
      BY <1>1, <1>2, <1>6, <2>2, <2>4, <2>5, <2>6 DEF t, size, w, LastPiece
  <1>7. CASE s.cursor < size /\ ~(size - s.cursor <= w)
    <2>1. cut \in s.cursor + 1 .. s.cursor + w
      <3>1. s.cursor \in Nat
        BY <1>1, <1>2
      <3>2. w = windowChars(o)
        BY DEF w
      <3> HIDE DEF cut
      <3>3. cutOf(text, s.cursor, o) \in s.cursor + 1 .. s.cursor + w
        BY <1>1, <3>1, <3>2, CutInWindow
      <3>4. QED
        BY <3>3 DEF cut
    <2>2. PICK e \in Nat : e = cut
      BY <1>1, <1>2, <2>1
    <2>3. PICK next : next = advanceFrom(s.cursor, e, o)
      OBVIOUS
    <2>4. next \in s.cursor + 1 .. e
      BY <1>1, <1>2, <2>1, <2>2, <2>3 DEF advanceFrom
    <2>5. e \in Nat /\ s.cursor < size /\ e < size /\ e - s.cursor \in 1 .. w
      BY <1>1, <1>2, <1>7, <2>1, <2>2
    <2>6. PICK raw : raw = Append(s.raw, [start |-> s.cursor, end |-> e])
      OBVIOUS
    <2> HIDE DEF cut
    <2>7. t.raw = raw /\ t.cursor = next
      BY <1>1, <1>2, <1>3, <1>7, <2>2, <2>3, <2>6
    <2>8. Covering(raw, w) /\ LastPiece(raw, s, e)
      <3>1. Pushes(raw, s, e, w)
        BY <2>5, <2>6 DEF Pushes
      <3>2. QED
        BY <1>1, <1>4, <2>5, <3>1, PiecePushed
    <2>9. next \in 0 .. size /\ next # size /\ next > s.cursor /\ next <= e
      BY <1>1, <1>2, <2>4, <2>5
    <2>10. Follows(raw, next, size)
      BY <1>1, <1>2, <2>8, <2>9 DEF Follows, LastPiece
    <2>11. LoopInv(t, size, w)
      BY <2>7, <2>8, <2>9, <2>10 DEF LoopInv
    <2>12. QED
      BY <1>1, <1>2, <1>7, <2>7, <2>8, <2>9, <2>11 DEF t, size, w, LastPiece
  <1>8. QED
    BY <1>1, <1>2, <1>5, <1>6, <1>7

(* The states of the loop of chunkText() after each turn.                   *)
Turns(g, text, o, n) ==
    g = [k \in 0 .. n |-> IF k = 0 THEN [raw |-> <<>>, cursor |-> 0]
                          ELSE nextPiece(g[k - 1], text, o)]

LEMMA TurnsRepeat ==
    ASSUME NEW text, NEW o, NEW n \in Nat
    PROVE  \E g : Turns(g, text, o, n)
  <1> DEFINE start == [raw |-> <<>>, cursor |-> 0]
             Good == {k \in Nat : \E g : Turns(g, text, o, k)}
  <1>1. 0 \in Good
    <2> DEFINE g == [k \in 0 .. 0 |-> start]
    <2>1. Turns(g, text, o, 0)
      BY DEF Turns
    <2>2. QED
      BY <2>1
  <1>2. ASSUME NEW k \in Nat, k \in Good PROVE k + 1 \in Good
    <2>1. PICK g : Turns(g, text, o, k)
      BY <1>2
    <2>2. PICK next : next = nextPiece(g[k], text, o)
      OBVIOUS
    <2> DEFINE h == [i \in 0 .. k + 1 |-> IF i = k + 1 THEN next ELSE g[i]]
    <2>3. \A i \in 0 .. k : g[i] = IF i = 0 THEN start ELSE nextPiece(g[i - 1], text, o)
      <3>1. g = [i \in 0 .. k |-> IF i = 0 THEN start ELSE nextPiece(g[i - 1], text, o)]
        BY <2>1 DEF Turns
      <3> HIDE DEF start
      <3>2. QED
        BY <3>1
    <2> HIDE DEF start
    <2>4. ASSUME NEW i \in 0 .. k + 1
          PROVE  h[i] = IF i = 0 THEN start ELSE nextPiece(h[i - 1], text, o)
      <3>1. CASE i = 0
        <4>1. h[i] = g[0] /\ g[0] = start
          BY <2>3, <3>1
        <4>2. QED
          BY <3>1, <4>1
      <3>2. CASE i \in 1 .. k
        <4>1. h[i] = g[i] /\ h[i - 1] = g[i - 1]
          BY <3>2
        <4>2. g[i] = nextPiece(g[i - 1], text, o)
          BY <2>3, <3>2
        <4>3. QED
          BY <3>2, <4>1, <4>2
      <3>3. CASE i = k + 1
        <4>1. h[i] = next /\ h[i - 1] = g[k] /\ i # 0
          BY <3>3
        <4> HIDE DEF h
        <4>2. QED
          BY <2>2, <4>1
      <3>4. QED
        BY <3>1, <3>2, <3>3
    <2>5. h = [i \in 0 .. k + 1 |-> h[i]]
      OBVIOUS
    <2> HIDE DEF h
    <2>6. h = [i \in 0 .. k + 1 |-> IF i = 0 THEN start ELSE nextPiece(h[i - 1], text, o)]
      BY <2>4, <2>5
    <2>7. Turns(h, text, o, k + 1)
      BY <2>6 DEF Turns, start
    <2>8. QED
      BY <2>7
  <1> HIDE DEF Good
  <1>3. Nat \subseteq Good
    BY <1>1, <1>2, CountingUp
  <1>4. QED
    BY <1>3 DEF Good

(* After as many turns as there are characters the pieces cover the text.   *)
LEMMA PiecesCover ==
    ASSUME NEW S, NEW text \in Seq(S), text # <<>>,
           NEW o, o.size \in Nat \ {0}, o.overlap \in Nat
    PROVE  /\ Covering(pieces(text, o), windowChars(o))
           /\ pieces(text, o) # <<>> /\ Follows(pieces(text, o), Len(text), Len(text))
  <1> DEFINE N == Len(text)
             w == windowChars(o)
             g == CHOOSE g : Turns(g, text, o, N)
             Good == {k \in Nat : k <= N =>
                        LoopInv(g[k], N, w) /\ (g[k].cursor = N \/ g[k].cursor >= k)}
  <1>1. N \in Nat \ {0} /\ w \in Nat \ {0}
    BY WindowIs
  <1>2. Turns(g, text, o, N)
    BY <1>1, TurnsRepeat
  <1>3. pieces(text, o) = g[N].raw
    BY Zenon DEF pieces, Turns
  <1> HIDE DEF g
  <1>4. \A i \in 0 .. N : g[i] = IF i = 0 THEN [raw |-> <<>>, cursor |-> 0]
                                  ELSE nextPiece(g[i - 1], text, o)
    <2>1. g = [i \in 0 .. N |-> IF i = 0 THEN [raw |-> <<>>, cursor |-> 0]
                                ELSE nextPiece(g[i - 1], text, o)]
      BY <1>2 DEF Turns
    <2> HIDE DEF N
    <2>2. QED
      BY <2>1
  <1>5. 0 \in Good
    <2>1. PICK none \in Seq(Piece) : none = <<>>
      <3>1. <<>> \in Seq(Piece)
        OBVIOUS
      <3>2. QED
        BY <3>1
    <2>2. g[0].raw = none /\ g[0].cursor = 0
      <3> HIDE DEF N
      <3>1. g[0] = [raw |-> <<>>, cursor |-> 0]
        BY <1>1, <1>4
      <3>2. QED
        BY <2>1, <3>1
    <2>3. Len(none) = 0
      BY <2>1
    <2>4. Covering(none, w)
      BY <2>1, <2>3 DEF Covering
    <2>5. Follows(none, 0, N)
      BY <2>1 DEF Follows
    <2>6. LoopInv(g[0], N, w)
      BY <1>1, <2>2, <2>4, <2>5 DEF LoopInv
    <2>7. QED
      BY <2>2, <2>6
  <1>6. ASSUME NEW k \in Nat, k \in Good PROVE k + 1 \in Good
    <2>1. SUFFICES ASSUME k + 1 <= N
                   PROVE  /\ LoopInv(g[k + 1], N, w)
                          /\ g[k + 1].cursor = N \/ g[k + 1].cursor >= k + 1
      OBVIOUS
    <2>2. LoopInv(g[k], N, w) /\ (g[k].cursor = N \/ g[k].cursor >= k)
      BY <1>1, <1>6, <2>1
    <2>3. g[k + 1] = nextPiece(g[k], text, o)
      <3>1. k + 1 \in 0 .. N /\ k + 1 # 0 /\ k + 1 - 1 = k
        BY <1>1, <2>1
      <3> HIDE DEF N
      <3>2. QED
        BY <1>4, <3>1
    <2>4. PICK a, b : a = g[k] /\ b = g[k + 1] /\ b = nextPiece(a, text, o)
      BY <2>3
    <2>5. /\ LoopInv(b, N, w)
          /\ a.cursor = N => b = a
          /\ a.cursor < N => b.cursor > a.cursor
      BY <2>2, <2>4, TurnKeeps
    <2>6. a.cursor \in 0 .. N /\ b.cursor \in 0 .. N
      BY <2>2, <2>4, <2>5 DEF LoopInv
    <2>7. b.cursor = N \/ b.cursor >= k + 1
      BY <1>1, <2>2, <2>4, <2>5, <2>6
    <2>8. QED
      BY <2>4, <2>5, <2>7
  <1> HIDE DEF Good
  <1>7. N \in Good
    BY <1>1, <1>5, <1>6, CountingUp
  <1>8. PICK st : st = g[N]
    OBVIOUS
  <1>9. LoopInv(st, N, w) /\ (st.cursor = N \/ st.cursor >= N)
    BY <1>1, <1>7, <1>8 DEF Good
  <1>10. st.cursor = N
    BY <1>1, <1>9 DEF LoopInv
  <1>11. Covering(st.raw, w) /\ Follows(st.raw, N, N)
    BY <1>9, <1>10 DEF LoopInv
  <1>12. st.raw # <<>>
    BY <1>1, <1>11 DEF Follows
  <1>13. QED
    BY <1>3, <1>8, <1>11, <1>12

(* What the algorithms are given: a document is a text of characters.       *)
DocumentsInv == algorithm = "document" => input \in Seq(Characters)

LEMMA DocumentsInvHolds == AlgorithmsSpec => []DocumentsInv
  <1>1. AlgorithmsInit => DocumentsInv
    BY DEF AlgorithmsInit, DocumentsInv
  <1>2. DocumentsInv /\ [AlgorithmsNext]_algorithmsVars => DocumentsInv'
    <2>1. ASSUME DocumentsInv, WriteToken PROVE DocumentsInv'
      BY <2>1 DEF DocumentsInv, WriteToken
    <2>2. ASSUME DocumentsInv, WriteTask PROVE DocumentsInv'
      BY <2>2 DEF DocumentsInv, WriteTask
    <2>3. ASSUME DocumentsInv, WriteCharacter PROVE DocumentsInv'
      BY <2>3 DEF DocumentsInv, WriteCharacter
    <2>4. ASSUME DocumentsInv, Poll PROVE DocumentsInv'
      BY <2>4 DEF DocumentsInv, Poll
    <2>5. ASSUME DocumentsInv, UNCHANGED algorithmsVars PROVE DocumentsInv'
      BY <2>5 DEF DocumentsInv, algorithmsVars
    <2>6. QED
      BY <2>1, <2>2, <2>3, <2>4, <2>5 DEF AlgorithmsNext
  <1>3. QED
    BY <1>1, <1>2, PTL DEF AlgorithmsSpec

(* However long a document, and whatever characters it has, its chunks      *)
(* begin at its first character, end at its last, overlap or touch, and     *)
(* none exceeds the window (chunkText(), chunker.ts).                       *)
THEOREM DocumentsCovered == AlgorithmsSpec => []ChunksCover
  <1>1. ASSUME DocumentsInv PROVE ChunksCover
    <2>1. SUFFICES ASSUME algorithm = "document", NEW o \in ChunkOptions,
                          NEW text, text = normaliseText(input),
                          NEW r, r = chunkText(input, o)
                   PROVE  /\ r.ok = (text # <<>> /\ o.overlap < o.size)
                          /\ r.ok =>
                               /\ isGaplessCover(r.chunks)
                               /\ r.chunks[1].start = 0
                               /\ r.chunks[Len(r.chunks)].end = Len(text)
                               /\ \A i \in 1 .. Len(r.chunks) :
                                     r.chunks[i].end - r.chunks[i].start \in 1 .. windowChars(o)
                               /\ \A i \in 1 .. Len(r.chunks) - 1 :
                                     /\ r.chunks[i].start < r.chunks[i + 1].start
                                     /\ r.chunks[i + 1].start <= r.chunks[i].end
      BY Zenon DEF ChunksCover
    <2>2. text \in Seq(Characters)
      BY <1>1, <2>1, NormalisedIsText DEF DocumentsInv
    <2>3. o.size \in Nat \ {0} /\ o.overlap \in Nat
      BY AlgorithmsAssumption
    <2> DEFINE raw == pieces(text, o)
               chunk(i) == [index |-> i - 1, total |-> Len(raw),
                            start |-> raw[i].start, end |-> raw[i].end,
                            text |-> trim(SubSeq(text, raw[i].start + 1, raw[i].end))]
    <2>4. r = IF o.overlap >= o.size \/ text = <<>> THEN [ok |-> FALSE, chunks |-> <<>>]
              ELSE [ok |-> TRUE, chunks |-> [i \in DOMAIN raw |-> chunk(i)]]
      BY <2>1, Zenon DEF chunkText
    <2> HIDE DEF chunk
    <2>5. CASE o.overlap >= o.size \/ text = <<>>
      <3>1. ~(text # <<>> /\ o.overlap < o.size)
        BY <2>3, <2>5
      <3>2. r.ok = FALSE
        BY <2>4, <2>5
      <3>3. r.ok = (text # <<>> /\ o.overlap < o.size) /\ ~r.ok
        BY <3>1, <3>2, Zenon
      <3>4. QED
        BY <3>3
    <2>6. CASE ~(o.overlap >= o.size \/ text = <<>>)
      <3>1. /\ Covering(raw, windowChars(o)) /\ raw # <<>> /\ Follows(raw, Len(text), Len(text))
        BY <2>2, <2>3, <2>6, PiecesCover
      <3>2. PICK n \in Nat \ {0} : n = Len(raw) /\ DOMAIN raw = 1 .. n
        BY <3>1 DEF Covering
      <3> HIDE DEF raw
      <3>3. r.ok = TRUE /\ r.chunks = [i \in 1 .. n |-> chunk(i)]
        BY <2>4, <2>6, <3>2
      <3>4. PICK c : c = r.chunks
        OBVIOUS
      <3>5. Len(c) = n /\ DOMAIN c = 1 .. n /\ c # <<>>
        BY <3>2, <3>3, <3>4
      <3>6. \A i \in 1 .. n : /\ c[i].index = i - 1 /\ c[i].total = n
                              /\ c[i].start = raw[i].start /\ c[i].end = raw[i].end
        BY <3>2, <3>3, <3>4 DEF chunk
      <3>7. isGaplessCover(c)
        <4>1. {c[i].index : i \in 1 .. n} = 0 .. n - 1
          <5>1. \A i \in 1 .. n : c[i].index \in 0 .. n - 1
            BY <3>2, <3>6
          <5>2. ASSUME NEW k \in 0 .. n - 1 PROVE \E i \in 1 .. n : k = c[i].index
            <6>1. PICK i \in 1 .. n : i - 1 = k
              <7>1. k + 1 \in 1 .. n /\ k + 1 - 1 = k
                BY <3>2
              <7>2. QED
                BY <7>1
            <6>2. c[i].index = i - 1
              BY <3>6
            <6>3. QED
              BY <6>1, <6>2
          <5>3. QED
            BY <5>1, <5>2
        <4>2. QED
          BY <3>5, <3>6, <4>1 DEF isGaplessCover
      <3>8. 1 \in 1 .. n /\ n \in 1 .. n
        BY <3>2
      <3>9. raw[1].start = 0 /\ raw[n].end = Len(text)
        BY <3>1, <3>2 DEF Follows
      <3>10. c[1].start = 0 /\ c[n].end = Len(text)
        BY <3>6, <3>8, <3>9
      <3>11. \A i \in 1 .. n : c[i].end - c[i].start \in 1 .. windowChars(o)
        BY <3>1, <3>2, <3>6 DEF Covering
      <3>12. ASSUME NEW i \in 1 .. n - 1
             PROVE  c[i].start < c[i + 1].start /\ c[i + 1].start <= c[i].end
        <4>1. i \in 1 .. n /\ i + 1 \in 1 .. n
          BY <3>2
        <4>2. raw[i].start < raw[i + 1].start /\ raw[i + 1].start <= raw[i].end
          BY <3>1, <3>2 DEF Covering
        <4>3. QED
          BY <3>6, <4>1, <4>2
      <3>13. r.ok = (text # <<>> /\ o.overlap < o.size)
        <4>1. text # <<>> /\ o.overlap < o.size
          BY <2>3, <2>6
        <4>2. QED
          BY <3>3, <4>1, Zenon
      <3>14. QED
        BY <3>4, <3>5, <3>7, <3>10, <3>11, <3>12, <3>13
    <2>7. QED
      BY <2>5, <2>6
  <1>2. QED
    BY <1>1, DocumentsInvHolds, PTL
===============================================================================
