--------------------------- MODULE KnowledgeConfig ---------------------------
(***************************************************************************)
(* What the R-Knowledge plane derives from its environment: the resolved   *)
(* configuration (planes/r-knowledge/config.ts), the store it selects      *)
(* (stores/vector-store.ts), the embedding adapter it builds               *)
(* (embedding/*.ts), the level computed from the health of both            *)
(* (degradation.ts) and the readiness report (deployment-health.ts).       *)
(* A configuration is a record of the answers those functions look at;     *)
(* strings, paths and numbers that no decision depends on are left out.    *)
(***************************************************************************)
EXTENDS Naturals, Sequences

Classifications == <<"PUBLIC", "INTERNAL", "CONFIDENTIAL", "RESTRICTED">>

CLASSIFICATION_RANK == [c \in {"PUBLIC", "INTERNAL", "CONFIDENTIAL", "RESTRICTED"} |->
    CHOOSE i \in 1..4 : Classifications[i] = c]

within(classification, ceiling) ==
    CLASSIFICATION_RANK[classification] <= CLASSIFICATION_RANK[ceiling]

\* Both stores that hold anything declare INTERNAL; the null store holds nothing.
storeCeiling == "INTERNAL"

\* The variables that resolveKnowledgeConfig() reads, as they decide something:
\* an unknown store name resolves to "null", an unknown provider to
\* "deterministic", an unknown classification to INTERNAL, and a strict boolean
\* is true for the string "true" only.
resolveStore(env) ==
    CASE env.KNOWLEDGE_VECTOR_STORE = ""                        -> "sqlite"
      [] env.KNOWLEDGE_VECTOR_STORE \in {"sqlite", "qdrant"}    -> env.KNOWLEDGE_VECTOR_STORE
      [] OTHER                                                  -> "null"

resolveEmbeddingProvider(env) ==
    IF env.KNOWLEDGE_EMBEDDING_PROVIDER \in {"local", "external", "openai"}
    THEN env.KNOWLEDGE_EMBEDDING_PROVIDER ELSE "deterministic"

resolveClassification(env) ==
    IF env.KNOWLEDGE_MAX_CLASSIFICATION \in DOMAIN CLASSIFICATION_RANK
    THEN env.KNOWLEDGE_MAX_CLASSIFICATION ELSE "INTERNAL"

\* The published width of a known model outranks the declared one.
resolveOpenAI(env) ==
    [model                   |-> env.KNOWLEDGE_OPENAI_MODEL,
     dimensions              |-> IF env.KNOWLEDGE_OPENAI_MODEL = "published" THEN 1536
                                 ELSE env.KNOWLEDGE_EMBEDDING_DIMENSIONS,
     apiKeyPresent           |-> env.OPENAI_API_KEY,
     endpointAcceptable      |-> env.KNOWLEDGE_OPENAI_BASE_URL,
     fallbackToDeterministic |-> env.KNOWLEDGE_OPENAI_FALLBACK]

resolveQdrant(env) ==
    [endpoint       |-> env.QDRANT_URL,
     apiKeyPresent  |-> env.QDRANT_API_KEY,
     authorisation  |-> env.KNOWLEDGE_QDRANT_ENVIRONMENT_AUTHORISATION]

resolveKnowledgeConfig(env) ==
    LET provider == resolveEmbeddingProvider(env)
        openai   == resolveOpenAI(env)
    IN  [enabled                  |-> env.KNOWLEDGE_ENABLED,
         environmentClass         |-> env.NODE_ENV,
         vectorStore              |-> resolveStore(env),
         embeddingProvider        |-> provider,
         embeddingDimensions      |-> IF provider = "openai" THEN openai.dimensions
                                      ELSE env.KNOWLEDGE_EMBEDDING_DIMENSIONS,
         externalEgressAuthorised |-> env.KNOWLEDGE_EXTERNAL_EGRESS_AUTHORISED,
         maxClassification        |-> resolveClassification(env),
         chunkSizeTokens          |-> env.KNOWLEDGE_CHUNK_SIZE_TOKENS,
         chunkOverlapTokens       |-> env.KNOWLEDGE_CHUNK_OVERLAP_TOKENS,
         retrievalTopK            |-> env.KNOWLEDGE_RETRIEVAL_TOP_K,
         ragEnabled               |-> env.KNOWLEDGE_RAG_ENABLED,
         ragMinSources            |-> env.KNOWLEDGE_RAG_MIN_SOURCES,
         qdrant                   |-> resolveQdrant(env),
         openai                   |-> openai]

\* "" when the configuration is admissible, the refusal otherwise.
assessConfigAdmissibility(config) ==
    IF \/ config.chunkOverlapTokens >= config.chunkSizeTokens
       \/ config.embeddingProvider = "openai" /\ config.openai.model = "none"
    THEN "CONFIG_INVALID"
    ELSE IF config.environmentClass = "production" /\ config.vectorStore = "sqlite"
    THEN "SQLITE_PROHIBITED_IN_PRODUCTION"
    ELSE IF /\ config.environmentClass = "production" /\ config.vectorStore = "qdrant"
            /\ config.qdrant.endpoint = "none"
    THEN "CONFIG_INVALID"
    ELSE ""

\* A store that may not be used is replaced by the null store, never by another.
selectVectorStore(config) ==
    LET refusal == assessConfigAdmissibility(config)
    IN  IF refusal # "" THEN [kind |-> "null", reason |-> refusal]
        ELSE IF config.vectorStore = "null" THEN [kind |-> "null", reason |-> "STORE_UNCONFIGURED"]
        ELSE [kind |-> config.vectorStore, reason |-> ""]

\* The static conditions precedent of the qdrant adapter, in their order; the
\* first unsatisfied one names the refusal.
evaluateStaticConditions(config) ==
    << <<config.enabled, "KNOWLEDGE_DISABLED">>,
       <<config.vectorStore = "qdrant", "STORE_UNCONFIGURED">>,
       <<config.externalEgressAuthorised, "STORE_UNAUTHORISED_EGRESS">>,
       <<config.qdrant.endpoint = "https",
         IF config.qdrant.endpoint = "none" THEN "STORE_UNCONFIGURED" ELSE "STORE_TLS_FAILURE">>,
       <<config.qdrant.apiKeyPresent, "STORE_AUTH_FAILURE">>,
       <<config.qdrant.authorisation, "STORE_NOT_AUTHORISED_FOR_ENVIRONMENT">> >>

\* selectVectorStore() constructs the adapter without a transport factory, so
\* with every condition satisfied the default factory still answers
\* "unreachable": no configuration of this repository opens a qdrant store.
qdrantOpenFailure(config) ==
    LET verdicts == evaluateStaticConditions(config)
        failed   == {i \in DOMAIN verdicts : ~verdicts[i][1]}
    IN  IF failed = {} THEN "STORE_UNAVAILABLE"
        ELSE verdicts[CHOOSE i \in failed : \A k \in failed : i <= k][2]

\* createEmbeddingAdapter(): "" when a working adapter is built, otherwise the
\* reason of the refusing one.
adapterRefusal(config) ==
    IF config.embeddingProvider = "deterministic" THEN ""
    ELSE IF config.embeddingProvider = "local" THEN "EMBEDDING_MODEL_ABSENT"
    ELSE IF ~config.externalEgressAuthorised THEN "EMBEDDING_EGRESS_UNAUTHORISED"
    ELSE IF config.openai.model = "none" THEN "EMBEDDING_MODEL_ABSENT"
    ELSE IF config.embeddingProvider = "external" THEN "EMBEDDING_UNAVAILABLE"
    ELSE IF ~config.openai.apiKeyPresent THEN "EMBEDDING_CREDENTIALS_ABSENT"
    ELSE ""

\* The learned adapter's own conditions, evaluated by init(): what is left after
\* the factory's is that the endpoint may be used and that a width is declared.
adapterInitialises(config) ==
    /\ adapterRefusal(config) = ""
    /\ config.embeddingProvider = "openai" =>
          config.openai.endpointAcceptable /\ config.openai.dimensions > 0

\* health(): the deterministic adapter is always available, a refusing one
\* never, the learned one while its service answers.
embedderAvailable(config, serviceUp) ==
    /\ adapterInitialises(config)
    /\ config.embeddingProvider = "openai" => serviceUp

\* embed(): the vector's origin and width, or a refusal. A learned adapter that
\* cannot reach its service, or has no transport, falls back if configured to.
embed(config, serviceUp) ==
    LET vector(origin, width) == [ok |-> TRUE, origin |-> origin, width |-> width]
        refused == [ok |-> FALSE, origin |-> "none", width |-> 0]
    IN  IF adapterRefusal(config) # "" THEN refused
        ELSE IF config.embeddingProvider = "deterministic"
        THEN vector("deterministic", config.embeddingDimensions)
        ELSE IF adapterInitialises(config) /\ serviceUp
        THEN vector("openai", config.openai.dimensions)
        ELSE IF config.openai.fallbackToDeterministic
        THEN vector("deterministic", config.openai.dimensions)
        ELSE refused

\* Store unavailability outranks a refused write, which outranks the embedder.
computeDegradation(storeAvailable, storeWritable, embedder) ==
    IF ~storeAvailable THEN 3 ELSE IF ~storeWritable THEN 2 ELSE IF ~embedder THEN 1 ELSE 0

\* The readiness report's `operational`: level 0 and every dependency ready.
deploymentReady(config, level, storeReachable, embedder) ==
    /\ config.enabled
    /\ config.vectorStore # "null"
    /\ config.vectorStore = "qdrant" => config.qdrant.endpoint # "none"
    /\ storeReachable
    /\ embedder
    /\ level = 0

\* Mutant: a public request is given internal material.
classificationCeilingFor_Widened(confidentiality) ==
    [public |-> "INTERNAL", internal |-> "INTERNAL",
     restricted |-> "CONFIDENTIAL", sovereign |-> "RESTRICTED"][confidentiality]

\* The bridge's ceiling for a request of the runtime.
classificationCeilingFor(confidentiality) ==
    [public |-> "PUBLIC", internal |-> "INTERNAL",
     restricted |-> "CONFIDENTIAL", sovereign |-> "RESTRICTED"][confidentiality]
=============================================================================
