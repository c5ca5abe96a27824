------------------------- MODULE MCMissionDispatch -------------------------
EXTENDS MissionDispatch

(* A host with its own small models, a vendor and one that attests nothing  *)
(* (level 0, barred from restricted material), and one that reaches a single*)
(* vendor through a gateway, under the repository's policy and under one    *)
(* that leaves runtime.* out.                                               *)
Gateway(tier) ==
    [env |-> [keys |-> {}, gateway |-> {"gpt-5"}, ollama |-> FALSE, contabo |-> FALSE],
     tier |-> tier]

MCDeployments ==
    {[env |-> [keys |-> {"deepseek", "google"}, gateway |-> {}, ollama |-> TRUE, contabo |-> FALSE],
      tier |-> "classified"],
     Gateway("classified"), Gateway("unacceptable")}

Mission(level, cost, pin, evidence) ==
    [kind |-> "mission", confidentiality |-> level, cost |-> cost, pin |-> pin, maxTasks |-> 2,
     evidence |-> evidence, knowledge |-> TRUE, computable |-> FALSE]

Query(task, level, pin, hostile, dry) ==
    [kind |-> "query", task |-> task, confidentiality |-> level, allowed |-> {}, denied |-> {},
     cost |-> 0, pin |-> pin, hostile |-> hostile, dry |-> dry, computable |-> TRUE]

MCMissions == {Mission("sovereign", 0, "none", TRUE), Mission("internal", 2500000, "EU", TRUE)}

(* Restricted, with a vendor among the allowed that the policy refuses it.  *)
MCRestricted == [Query("summarization", "restricted", "none", FALSE, FALSE)
                 EXCEPT !.allowed = {"deepseek", "gemini-3.6-flash", "qwen3:4b"}]

MCQueries == {MCRestricted,
              Query("calculation", "sovereign", "none", FALSE, FALSE),
              Query("analysis", "sovereign", "none", FALSE, FALSE),
              Query("analysis", "internal", "US", FALSE, TRUE),
              Query("analysis", "internal", "none", TRUE, FALSE)}

Task(id, agent, deps, urls) == [id |-> id, agent |-> agent, deps |-> deps, urls |-> urls]

MCPlannerAnswers ==
    {<<>>, <<Task("x", "auditor", <<>>, FALSE)>>,
     <<Task("b", "analyst", <<"a">>, FALSE), Task("a", "researcher", <<"b">>, TRUE)>>}

MCOutcomes == {[k |-> "answer"], [k |-> "blocked"], [k |-> "timedOut"]}

MCUsages == {[input |-> 1000, output |-> 900]}
=============================================================================
