---------------------------- MODULE Algorithms ----------------------------
(***************************************************************************)
(* The sequential algorithms, over every input up to a size: the exact     *)
(* arithmetic of the deterministic provider, the repair of a planner's     *)
(* plan, the chunking of a document and the sentinel's answer to a series  *)
(* of polls.  A behaviour writes one input, element by element.            *)
(***************************************************************************)
EXTENDS Decompose, Chunker

CONSTANTS
    MaxTokens,        \* length of an arithmetic expression
    MaxPlan,          \* tasks in a planner's answer
    PlanCaps,         \* the most tasks a mission may have
    PlannerTasks,     \* the tasks a planner may name
    MaxText,          \* length of a document
    ChunkOptions,     \* [size, overlap], in tokens
    Metrics, HysteresisBreaches, CapacityPerSeries,
    MaxPolls,         \* polls of the sentinel
    Polls             \* metric -> utilisation, NotFinite or Unavailable

ASSUME AlgorithmsAssumption ==
    /\ CHARS_PER_TOKEN \in Nat \ {0} /\ MinWindow \in Nat \ {0}
    /\ MaxTokens \in Nat /\ MaxPlan \in Nat /\ MaxText \in Nat /\ MaxPolls \in Nat
    /\ Metrics # {} /\ Polls \subseteq [Metrics -> Nat \cup {-2, -1}]
    /\ HysteresisBreaches \in Nat \ {0} /\ CapacityPerSeries \in Nat \ {0, 1}
    /\ PlanCaps \subseteq Nat /\ PlannerTasks \subseteq PlannedTask
    /\ \A o \in ChunkOptions : o.size \in Nat \ {0} /\ o.overlap \in Nat

Arith == INSTANCE ExactArithmetic
Guard == INSTANCE Sentinel

VARIABLES
    algorithm, input,
    plane          \* the sentinel under each configuration

algorithmsVars == <<algorithm, input, plane>>

Configs == [degradationEnabled : BOOLEAN, maxLevel : {4, 8}]

Tokens == {Arith!Num(2), Arith!Num(3), Arith!Op("-"), Arith!Op("*"), Arith!Op("^"),
           Arith!LParen, Arith!RParen}

AlgorithmsInit ==
    /\ algorithm \in {"expression", "plan", "document", "polls"}
    /\ input = <<>>
    /\ plane = [config \in Configs |-> Guard!Booted]

WriteToken ==
    /\ algorithm = "expression" /\ Len(input) < MaxTokens
    /\ \E t \in Tokens : input' = Append(input, t)
    /\ UNCHANGED <<algorithm, plane>>

WriteTask ==
    /\ algorithm = "plan" /\ Len(input) < MaxPlan
    /\ \E t \in PlannerTasks : input' = Append(input, t)
    /\ UNCHANGED <<algorithm, plane>>

WriteCharacter ==
    /\ algorithm = "document" /\ Len(input) < MaxText
    /\ \E c \in Characters : input' = Append(input, c)
    /\ UNCHANGED <<algorithm, plane>>

Poll ==
    /\ algorithm = "polls" /\ Len(input) < MaxPolls
    /\ \E p \in Polls :
          /\ input' = Append(input, p)
          /\ plane' = [config \in Configs |-> Guard!collect(plane[config], p, config)]
    /\ UNCHANGED algorithm

AlgorithmsNext == WriteToken \/ WriteTask \/ WriteCharacter \/ Poll

AlgorithmsSpec == AlgorithmsInit /\ [][AlgorithmsNext]_algorithmsVars

----------------------------------------------------------------------------
(* Two operands with no operator between them, or an empty group: the       *)
(* evaluator's stack does not notice some of these.                         *)
juxtaposed(tokens) ==
    \E i \in 1 .. Len(tokens) - 1 :
        \/ tokens[i].t \in {"num", "rparen"} /\ tokens[i + 1].t \in {"num", "lparen"}
        \/ tokens[i].t = "lparen" /\ tokens[i + 1].t = "rparen"

(* A number the deterministic provider presents as exact is the value of    *)
(* the expression by the grammar of precedence, right-associative powers    *)
(* and signs (computeExactly(), deterministic.ts), unless operands are      *)
(* juxtaposed in it; and the grammar gives an expression one value.         *)
ComputedIsExact ==
    algorithm = "expression" =>
        LET expr == Arith!trimDanglingOperators(input)
            r == Arith!computeExactly(input)
        IN  /\ r.ok => r \in Arith!Values(expr) \/ juxtaposed(expr)
            /\ Cardinality(Arith!Values(expr)) <= 1

DistinctIds(s) == \A a, b \in DOMAIN s : s[a].id = s[b].id => a = b

\* Task t names d among its dependencies; so does the task x of s.
Names(t, d) == \E k \in DOMAIN t.deps : t.deps[k] = d

Asked(s, x, d) == \E i \in DOMAIN s : s[i].id = x /\ Names(s[i], d)

\* The task at place j is the first of its name that one of the agents may do.
FirstOf(tasks, agents, j) ==
    /\ tasks[j].agent \in agents
    /\ \A k \in 1 .. j - 1 : tasks[k].agent \in agents => tasks[k].id # tasks[j].id

\* Task x of ids was asked for with d, another of them, among its dependencies.
AskedFirst(tasks, agents, ids, x, d) ==
    /\ x \in ids /\ d \in ids /\ d # x
    /\ \E j \in DOMAIN tasks : FirstOf(tasks, agents, j) /\ tasks[j].id = x /\ Names(tasks[j], d)

\* A set of names of ids each of which was asked for with one of them.
CyclicFirst(tasks, agents, ids) ==
    \E C \in SUBSET ids : C # {} /\ \A x \in C : \E d \in C : AskedFirst(tasks, agents, ids, x, d)

(* Whatever a planner answers, the repaired plan can be carried out in its  *)
(* order: no two tasks share a name, every agent may see the mission's      *)
(* level, every dependency is a task placed earlier and one that the answer *)
(* asks for, and where the dependencies it asks for have no cycle none of   *)
(* them is lost (validatePlan() and topologicalOrder(), decompose.ts).      *)
PlanIsExecutable ==
    algorithm = "plan" =>
        \A available \in {agentsFor(level) : level \in DOMAIN CONFIDENTIALITY_RANK},
           maxTasks \in PlanCaps :
            LET agents == namesOf(available)
                plan == validatePlan(input, available, maxTasks)
                ids == idsOf(plan)
            IN  /\ DistinctIds(plan)
                /\ \A i \in DOMAIN plan :
                      /\ plan[i].agent \in agents
                      /\ \A k \in DOMAIN plan[i].deps :
                            /\ \E j \in 1 .. i - 1 : plan[j].id = plan[i].deps[k]
                            /\ AskedFirst(input, agents, ids, plan[i].id, plan[i].deps[k])
                /\ \/ CyclicFirst(input, agents, ids)
                   \/ \A x, d \in ids : AskedFirst(input, agents, ids, x, d) => Asked(plan, x, d)

(* The chunks of a document leave no character of it out: they begin at its *)
(* first, end at its last, each begins inside or right after the one before *)
(* and none exceeds the window (chunkText(), chunker.ts; the check of       *)
(* K-INV-5 that follows it looks at indices only).                          *)
ChunksCover ==
    algorithm = "document" =>
        \A o \in ChunkOptions :
            LET text == normaliseText(input)
                r == chunkText(input, o)
                n == Len(r.chunks)
            IN  /\ r.ok = (text # <<>> /\ o.overlap < o.size)
                /\ r.ok => /\ isGaplessCover(r.chunks)
                           /\ r.chunks[1].start = 0 /\ r.chunks[n].end = Len(text)
                           /\ \A i \in 1 .. n : r.chunks[i].end - r.chunks[i].start
                                                    \in 1 .. windowChars(o)
                           /\ \A i \in 1 .. n - 1 :
                                 /\ r.chunks[i].start < r.chunks[i + 1].start
                                 /\ r.chunks[i + 1].start <= r.chunks[i].end

\* The places of the polls at which metric m was read, and the band it was in.
heard(polls, m) == {i \in DOMAIN polls : polls[i][m] # Guard!Unavailable}

band(polls, m, i) == Guard!evaluateSeverity(polls[i][m])

\* The readings up to place i that agree with the one at i without a break.
streak(polls, m, i) ==
    {j \in heard(polls, m) :
        /\ j <= i
        /\ \A k \in heard(polls, m) : k \in j .. i => band(polls, m, k) = band(polls, m, i)}

confirmations(polls, m) ==
    {i \in heard(polls, m) : Cardinality(streak(polls, m, i)) >= HysteresisBreaches}

confirmedBand(polls, m) ==
    LET places == confirmations(polls, m)
    IN  IF places = {} THEN "GREEN"
        ELSE band(polls, m, CHOOSE i \in places : \A j \in places : j <= i)

(* After any series of polls the steps of the ladder in force are exactly   *)
(* those that are authorised and that the worst confirmed band triggers,    *)
(* where a metric's band is confirmed by its most recent run of             *)
(* HysteresisBreaches equal readings, probes that failed left out and       *)
(* readings that are no finite number taken for GREEN; there is an alert    *)
(* for just the metrics confirmed above GREEN; and the ring holds as many   *)
(* of the last readings as it has room for (collect(), r-sentinel/index.ts, *)
(* with evaluate() of alert-engine.ts and reconcile() of response-          *)
(* controller.ts).                                                          *)
DegradationIsWarranted ==
    algorithm = "polls" =>
        LET pressures == {Guard!SEVERITY_RANK[confirmedBand(input, m)] : m \in Metrics}
            alarming == {m \in Metrics : confirmedBand(input, m) # "GREEN"}
            size == IF Len(input) < CapacityPerSeries THEN Len(input) ELSE CapacityPerSeries
        IN  \A config \in Configs :
              /\ \A level \in Guard!DEGRADATION_LADDER :
                    level <= Guard!process(plane[config]).degradationLevel <=>
                        /\ level <= config.maxLevel
                        /\ Guard!requiresAuthorisation(level) => config.degradationEnabled
                        /\ \E pressure \in pressures :
                              pressure >= Guard!SEVERITY_RANK[Guard!triggerSeverity(level)]
              /\ Guard!getActiveAlerts(plane[config].series) = alarming
              /\ \A m \in Metrics :
                    Guard!toArray(plane[config].ring[m]) =
                        [i \in 1 .. size |-> input[Len(input) - size + i][m]]
=============================================================================
