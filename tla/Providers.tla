----------------------------- MODULE Providers -----------------------------
(***************************************************************************)
(* The vendor adapters of src/runtime/providers: which wire a model can be *)
(* reached on under the process environment, and what an adapter makes of  *)
(* the answer.  Adapters never throw: a failure is a typed response.       *)
(*                                                                         *)
(* An environment is [keys: vendors with a native key, gateway: models on  *)
(* the gateway's allow-list (empty without a gateway), ollama: enabled,    *)
(* contabo: the second host's URL is set and admissible].                  *)
(***************************************************************************)
EXTENDS Integers, Sequences, FiniteSets

ProviderId == {"openai", "anthropic", "google", "deepseek", "perplexity", "kimi",
               "xai", "ollama", "deterministic"}

OPENAI_MODELS == {"gpt-5.5", "gpt-5", "gpt-5-mini", "gpt-5-nano"}
ANTHROPIC_MODELS == {"claude-opus-4-7", "claude-opus-4-6", "claude-sonnet-4-6", "claude-haiku-4-5"}
GOOGLE_MODELS == {"gemini-3.1-pro-preview", "gemini-3.7-flash", "gemini-3.6-flash"}
DEEPSEEK_MODELS == {"deepseek-chat", "deepseek-reasoner"}
PERPLEXITY_MODELS == {"sonar-pro", "sonar", "sonar-reasoning-pro"}
XAI_MODELS == {"grok-4.5"}
CONTABO_MODELS == {"qwen2.5:72b", "qwen3.5:35b", "qwen3-coder:30b", "deepseek-r1:70b",
                   "llama3.1:70b", "bge-m3"}
OLLAMA_MODELS == {"qwen3:4b", "qwen3.5:4b", "qwen2.5-coder:3b", "deepseek-r1:1.5b",
                  "qwen3-embedding"} \cup CONTABO_MODELS
EMBEDDING_ONLY_MODELS == {"qwen3-embedding", "bge-m3"}

DEFAULT_GATEWAY_MODELS ==
    OPENAI_MODELS \cup ANTHROPIC_MODELS \cup {"gemini-3-flash-preview", "gemini-3.1-pro-preview"}

(* Both the URL and the key of the gateway are needed; a declared list      *)
(* replaces the default one.                                                *)
resolveGateway(url, key, declared) ==
    IF ~url \/ ~key THEN {} ELSE IF declared = {} THEN DEFAULT_GATEWAY_MODELS ELSE declared

gatewayServes(model, env) == model \in env.gateway

nativeKey(provider, env) == provider \in env.keys

----------------------------------------------------------------------------
(* credentialState() of an adapter looks at the provider: one model on the  *)
(* gateway's list makes all of them live.  invoke() looks at the model.     *)
stateOf(provider, models, env) ==
    IF nativeKey(provider, env) THEN "live-native"
    ELSE IF models \cap env.gateway # {} THEN "live-gateway" ELSE "key-absent"

wireOf(provider, model, env) ==
    IF nativeKey(provider, env) THEN "native"
    ELSE IF gatewayServes(model, env) THEN "gateway" ELSE "credential-absent"

OpenAIAdapter(model, env) ==
    [state |-> stateOf("openai", OPENAI_MODELS, env), wire |-> wireOf("openai", model, env)]
AnthropicAdapter(model, env) ==
    [state |-> stateOf("anthropic", ANTHROPIC_MODELS, env), wire |-> wireOf("anthropic", model, env)]
GoogleAdapter(model, env) ==
    [state |-> stateOf("google", GOOGLE_MODELS, env), wire |-> wireOf("google", model, env)]
DeepSeekAdapter(model, env) ==
    [state |-> stateOf("deepseek", DEEPSEEK_MODELS, env), wire |-> wireOf("deepseek", model, env)]
PerplexityAdapter(model, env) ==
    [state |-> stateOf("perplexity", PERPLEXITY_MODELS, env), wire |-> wireOf("perplexity", model, env)]
XAIAdapter(model, env) ==
    [state |-> stateOf("xai", XAI_MODELS, env), wire |-> wireOf("xai", model, env)]

(* Kimi has no gateway route.                                               *)
KimiAdapter(model, env) ==
    IF nativeKey("kimi", env) THEN [state |-> "live-native", wire |-> "native"]
    ELSE [state |-> "key-absent", wire |-> "credential-absent"]

OllamaAdapter(model, env) ==
    [state |-> IF env.ollama THEN "live-local" ELSE "key-absent",
     wire |-> IF ~env.ollama THEN "credential-absent"
              ELSE IF model \notin OLLAMA_MODELS \ EMBEDDING_ONLY_MODELS THEN "model-unsupported"
              ELSE IF model \in CONTABO_MODELS /\ ~env.contabo THEN "credential-absent"
              ELSE "local"]

DeterministicAdapter(model, env) == [state |-> "live-local", wire |-> "local"]

getAdapter(provider, model, env) ==
    CASE provider = "openai" -> OpenAIAdapter(model, env)
      [] provider = "anthropic" -> AnthropicAdapter(model, env)
      [] provider = "google" -> GoogleAdapter(model, env)
      [] provider = "deepseek" -> DeepSeekAdapter(model, env)
      [] provider = "perplexity" -> PerplexityAdapter(model, env)
      [] provider = "kimi" -> KimiAdapter(model, env)
      [] provider = "xai" -> XAIAdapter(model, env)
      [] provider = "ollama" -> OllamaAdapter(model, env)
      [] provider = "deterministic" -> DeterministicAdapter(model, env)

invocableProviders(env) ==
    {p \in ProviderId : getAdapter(p, "any", env).state # "key-absent"}

----------------------------------------------------------------------------
(* What comes back over the wire: no answer in time, no connection, an HTTP *)
(* status, or a body that is not JSON, carries an error, is a safety block, *)
(* is empty, or is an answer.                                               *)
Statuses == {400, 401, 403, 404, 429, 500}
WireResults == {[k |-> "timedOut"], [k |-> "error"], [k |-> "non-json"], [k |-> "payload-error"],
                [k |-> "blocked"], [k |-> "empty"], [k |-> "answer"]}
               \cup {[k |-> "status", code |-> s] : s \in Statuses}

classifyHttpStatus(code) ==
    CASE code \in {401, 403} -> "auth-rejected" [] code \in {400, 404} -> "model-unsupported"
      [] code = 429 -> "rate-limited" [] OTHER -> "server-error"

(* A failure is charged nothing: its usage is zero.                         *)
providerFailure(kind) == [ok |-> FALSE, kind |-> kind, input |-> 0, output |-> 0]

answerOf(usage) == [ok |-> TRUE, kind |-> "none", input |-> usage.input, output |-> usage.output]

fetchWithTimeout(res) ==
    CASE res.k = "timedOut" -> "timeout" [] res.k = "error" -> "network"
      [] res.k = "status" -> classifyHttpStatus(res.code) [] OTHER -> "body"

(* A 200 that carries an error, or no text, is a failure.  The compatible   *)
(* endpoints know no safety block: it comes as an empty completion.         *)
invokeOpenAICompatible(res, usage) ==
    LET reached == fetchWithTimeout(res)
    IN  IF reached # "body" THEN providerFailure(reached)
        ELSE CASE res.k = "payload-error" -> providerFailure("server-error")
               [] res.k \in {"non-json", "empty", "blocked"} -> providerFailure("bad-response")
               [] OTHER -> answerOf(usage)

anthropicNative(res, usage) ==
    LET reached == fetchWithTimeout(res)
    IN  IF reached # "body" THEN providerFailure(reached)
        ELSE IF res.k # "answer" THEN providerFailure("bad-response") ELSE answerOf(usage)

googleNative(res, usage) ==
    LET reached == fetchWithTimeout(res)
    IN  IF reached # "body" THEN providerFailure(reached)
        ELSE CASE res.k = "blocked" -> providerFailure("content-refused")
               [] res.k = "answer" -> answerOf(usage)
               [] OTHER -> providerFailure("bad-response")

(* A body that does not parse is thrown and reported as unreachable; an     *)
(* empty message is an answer here.                                         *)
ollamaChat(res, usage) ==
    CASE res.k = "timedOut" -> providerFailure("timeout")
      [] res.k \in {"error", "non-json"} -> providerFailure("network")
      [] res.k = "status" -> providerFailure(IF res.code = 404 THEN "model-unsupported" ELSE "server-error")
      [] res.k \in {"answer", "empty"} -> answerOf(usage)
      [] OTHER -> providerFailure("bad-response")

(* The exact core computes or declines.                                     *)
deterministicCore(computable) ==
    IF computable THEN answerOf([input |-> 0, output |-> 0]) ELSE providerFailure("not-computable")

(* invoke() of the adapter of an entry, given what its wire returns.        *)
invoke(entry, env, res, usage, computable) ==
    LET wire == getAdapter(entry.provider, entry.model, env).wire
    IN  IF wire \in {"credential-absent", "model-unsupported"} THEN providerFailure(wire)
        ELSE CASE entry.provider = "deterministic" -> deterministicCore(computable)
               [] entry.provider = "ollama" -> ollamaChat(res, usage)
               [] entry.provider = "anthropic" /\ wire = "native" -> anthropicNative(res, usage)
               [] entry.provider = "google" /\ wire = "native" -> googleNative(res, usage)
               [] OTHER -> invokeOpenAICompatible(res, usage)
=============================================================================
