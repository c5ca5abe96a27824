------------------------ MODULE MCGovernedDecisions ------------------------
(* Instance: two replicas and two operators.  The deployments cover a       *)
(* policy that classifies the inference domain and the repository's own,    *)
(* a disarmed gate in and out of production, two decision sessions, and two *)
(* queries to the Model Exchange.                                           *)
(* Two autonomous actions an hour, so that one day meets the limit.         *)
EXTENDS GovernedDecisions

MCAsset == [ratedPower |-> 5, ratedEnergy |-> 20, soc |-> 10,
            socIntegrity |-> 94, voltage |-> 91, reliability |-> 88]

(* A dear hour between two cheap ones: its discharge is held, the charge    *)
(* after it is not, and the battery ends above the ceiling.                 *)
MCTicks == <<[dam |-> 45, fcr |-> 60], [dam |-> 90, fcr |-> 70], [dam |-> 40, fcr |-> 60],
             [dam |-> 60, fcr |-> 60]>>

MCSymmetry ==
    UNION {Permutations(S) : S \in {Replicas, Operators, Requests, Sessions, Queries}}

Env(production, enforceOff, unknownTier) ==
    [production |-> production, enforceOff |-> enforceOff, unknownTier |-> unknownTier,
     keys |-> {}]

(* Engines with one key, so that calls to it may fail and others are simulated. *)
Exchanging(unknownTier) ==
    [Env(TRUE, FALSE, unknownTier) EXCEPT !.keys = {"anthropic"}]

MCDeployments ==
    {[env |-> Env(TRUE, FALSE, "limited"), work |-> Requests],
     [env |-> Env(TRUE, FALSE, "unacceptable"), work |-> Requests],
     [env |-> Env(FALSE, TRUE, "limited"), work |-> Requests],
     [env |-> Env(TRUE, TRUE, "limited"), work |-> Requests],
     [env |-> Env(TRUE, FALSE, "unacceptable"), work |-> Sessions],
     [env |-> Exchanging("limited"), work |-> Queries],
     [env |-> Exchanging("unacceptable"), work |-> Queries]}

MCModelActions ==
    {<<DispatchAction("discharge", 2, 100, 90), DispatchAction("charge", 12, 90, 90)>>,
     <<DispatchAction("afrr-bid-up", 40, 9, 60), DispatchAction("hold", 0, 0, 95)>>, <<>>}

(* An open question, a calculation that is one and one that is not (with    *)
(* only the deterministic engine affordable), a sovereign question, one for *)
(* American engines, and one no engine satisfies.                           *)
Ask(task) == [task |-> task, level |-> "internal", providers |-> {}, latency |-> 0,
              cost |-> 0, evidence |-> 0, pin |-> "any", words |-> 10,
              computable |-> FALSE]

MCUnifiedRequests ==
    {Ask("reasoning"), [Ask("calculation") EXCEPT !.computable = TRUE],
     Ask("calculation"), [Ask("calculation") EXCEPT !.cost = 1],
     [Ask("analysis") EXCEPT !.level = "sovereign"],
     [Ask("reasoning") EXCEPT !.providers = {"openai", "anthropic"}],
     [Ask("validation") EXCEPT !.pin = "EU", !.latency = 2500],
     [Ask("lookup") EXCEPT !.pin = "sovereign", !.evidence = 101]}

MCDecisionDomains ==
    {<<"energy", "bess", "dispatch">>, <<"energy", "forecast", "price">>}
============================================================================
