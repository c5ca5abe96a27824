----------------------------- MODULE Decompose -----------------------------
(***************************************************************************)
(* The workers and the plan of a mission: the passports of                 *)
(* src/runtime/agents/registry.ts, the repair of a planner's answer in     *)
(* decompose.ts and the choice of tools in workers.ts and tools.ts.        *)
(*                                                                         *)
(* A task is [id, agent, deps, urls]: deps is a sequence of task ids, urls *)
(* says that its instruction names a URL.                                  *)
(***************************************************************************)
EXTENDS Integers, Sequences, FiniteSets, Subsequences

CONFIDENTIALITY_RANK ==
    [public |-> 0, internal |-> 1, restricted |-> 2, sovereign |-> 3]

PASSPORTS ==
    <<[agent |-> "researcher", tools |-> {"knowledge.search", "web.fetch", "calc.exact"},
       max |-> "restricted", task |-> "extraction", evidence |-> 60],
      [agent |-> "analyst", tools |-> {"calc.exact", "knowledge.search"},
       max |-> "sovereign", task |-> "analysis", evidence |-> 0],
      [agent |-> "evidence-curator", tools |-> {"knowledge.search", "web.fetch", "calc.exact"},
       max |-> "restricted", task |-> "verification", evidence |-> 70]>>

passportPermits(passport, level) ==
    CONFIDENTIALITY_RANK[level] <= CONFIDENTIALITY_RANK[passport.max]

agentsFor(level) ==
    keep(PASSPORTS, {i \in DOMAIN PASSPORTS : passportPermits(PASSPORTS[i], level)})

namesOf(available) == {available[i].agent : i \in DOMAIN available}

getPassport(agent) ==
    PASSPORTS[CHOOSE i \in DOMAIN PASSPORTS : PASSPORTS[i].agent = agent]

----------------------------------------------------------------------------
(* Names are strings.  Those of the fallback plan are written out because   *)
(* the provers do not take a literal for a member of STRING.                *)
Name == STRING \cup {"t1", "t2", "t3", "researcher", "analyst", "evidence-curator"}

PlannedTask == [id : Name, agent : Name, deps : Seq(Name), urls : BOOLEAN]

idsOf(tasks) == {tasks[i].id : i \in DOMAIN tasks}

(* Kahn's rounds: every task with no dependency left joins, in the order of *)
(* the plan; when there is none, the first remaining task loses its first   *)
(* unmet dependency.  A round removes a task or an edge.                    *)

(* Mutant: a task is ready as soon as one of its dependencies is met. *)
ready_Any(t, remaining) ==
    t.deps = <<>> \/ \E i \in DOMAIN t.deps : t.deps[i] \notin idsOf(remaining)

ready(t, remaining) == \A i \in DOMAIN t.deps : t.deps[i] \notin idsOf(remaining)

severFirst(t, remaining) ==
    LET unmet == {i \in DOMAIN t.deps : t.deps[i] \in idsOf(remaining)}
        first == CHOOSE i \in unmet : \A k \in unmet : i <= k
    IN  [t EXCEPT !.deps = keep(@, {i \in DOMAIN @ : @[i] # t.deps[first]})]

round(s) ==
    LET free == {i \in DOMAIN s.remaining : ready(s.remaining[i], s.remaining)}
    IN  IF s.remaining = <<>> THEN s
        ELSE IF free = {}
        THEN [s EXCEPT !.remaining = <<severFirst(Head(@), @)>> \o Tail(@)]
        ELSE [ordered |-> s.ordered \o keep(s.remaining, free),
              remaining |-> keep(s.remaining, DOMAIN s.remaining \ free)]

edgesOf(tasks) == UNION {{i} \X DOMAIN tasks[i].deps : i \in DOMAIN tasks}

topologicalOrder(tasks) ==
    LET rounds == Len(tasks) + Cardinality(edgesOf(tasks))
        state[n \in 0 .. rounds] ==
            IF n = 0 THEN [ordered |-> <<>>, remaining |-> tasks] ELSE round(state[n - 1])
    IN  state[rounds].ordered

(* Unknown agents and repeated ids are dropped, the rest is cut to the cap, *)
(* dependencies on what was dropped or on itself are removed, cycles are    *)
(* broken.                                                                  *)
validatePlan(tasks, available, maxTasks) ==
    LET known == keep(tasks, {i \in DOMAIN tasks : tasks[i].agent \in namesOf(available)})
        firsts == keep(known, {i \in DOMAIN known :
                                  \A k \in 1 .. i - 1 : known[k].id # known[i].id})
        kept == SubSeq(firsts, 1, IF Len(firsts) > maxTasks THEN maxTasks ELSE Len(firsts))
        within(t) == {k \in DOMAIN t.deps : t.deps[k] \in idsOf(kept) /\ t.deps[k] # t.id}
    IN  topologicalOrder(
            [i \in DOMAIN kept |-> [kept[i] EXCEPT !.deps = keep(@, within(kept[i]))]])

(* parsePlan(): an entry without an id, an agent or an instruction is       *)
(* skipped; no usable entry is no plan.                                     *)
parsePlan(answer) == keep(answer, {i \in DOMAIN answer : answer[i].id # "" /\ answer[i].agent # ""})

(* Gather, analyse, verify, with the workers there are.  The analyst may    *)
(* see every level, so the plan is never empty.                             *)
fallbackPlan(available, requireEvidence) ==
    LET task(id, agent, deps) == [id |-> id, agent |-> agent, deps |-> deps, urls |-> FALSE]
        has(agent) == agent \in namesOf(available)
        gather == IF has("researcher") THEN <<task("t1", "researcher", <<>>)>> ELSE <<>>
        analyse == gather \o
            (IF has("analyst") THEN <<task("t2", "analyst", [i \in DOMAIN gather |-> gather[i].id])>>
             ELSE <<>>)
    IN  analyse \o
        (IF requireEvidence /\ has("evidence-curator")
         THEN <<task("t3", "evidence-curator", [i \in DOMAIN analyse |-> analyse[i].id])>>
         ELSE <<>>)

(* What decomposeObjective() makes of the planner's answer; an exchange     *)
(* that failed answers with nothing.                                        *)
planFrom(answer, level, maxTasks, requireEvidence) ==
    LET available == agentsFor(level)
        parsed == parsePlan(answer)
    IN  IF parsed = <<>> THEN fallbackPlan(available, requireEvidence)
        ELSE validatePlan(parsed, available, maxTasks)

----------------------------------------------------------------------------
planToolCalls(passport, task, useKnowledge) ==
    {tool \in passport.tools : \/ tool = "knowledge.search" /\ useKnowledge
                               \/ tool = "web.fetch" /\ task.urls}

(* Sovereign material causes no request to leave the host.                  *)
invokeTool(tool, passport, level) ==
    tool \in passport.tools /\ ~(tool = "web.fetch" /\ level = "sovereign")

toolsRun(passport, task, useKnowledge, level) ==
    {tool \in planToolCalls(passport, task, useKnowledge) : invokeTool(tool, passport, level)}
=============================================================================
