----------------------------- MODULE MCKnowledge -----------------------------
EXTENDS Knowledge, TLC

CONSTANTS a, b, c, j1, j2

Doc(chunks, classification, form) ==
    [chunks |-> chunks, classification |-> classification, form |-> form]

\* Annex has Notice's text as its first chunk, Manual has it as its last.
Notice  == Doc(<<a>>, "PUBLIC", "ok")
Manual  == Doc(<<b, a>>, "INTERNAL", "ok")
Annex   == Doc(<<a, c>>, "INTERNAL", "ok")
Secret  == Doc(<<c>>, "CONFIDENTIAL", "ok")
Hostile == Doc(<<c>>, "PUBLIC", "hostile")
Spaced  == Doc(<<c>>, "PUBLIC", "blank_chunk")

MCDocuments == {Notice, Manual, Annex, Secret, Hostile, Spaced}
MCBatches == {[documents |-> <<Manual>>, stop |-> FALSE],
              [documents |-> <<Secret, Spaced, Notice>>, stop |-> FALSE],
              [documents |-> <<Hostile, Annex>>, stop |-> TRUE]}
MCQueries ==
    {[confidentiality |-> "public", maxClassification |-> "INTERNAL", compose |-> FALSE,
      form |-> "ok", about |-> {a, b}, k |-> 1],
     [confidentiality |-> "sovereign", maxClassification |-> "default", compose |-> TRUE,
      form |-> "ok", about |-> {b}, k |-> 2],
     [confidentiality |-> "internal", maxClassification |-> "default", compose |-> FALSE,
      form |-> "hostile", about |-> {}, k |-> 1]}

Laboratory ==
    [KNOWLEDGE_ENABLED |-> TRUE, NODE_ENV |-> "development", KNOWLEDGE_VECTOR_STORE |-> "",
     KNOWLEDGE_EMBEDDING_PROVIDER |-> "", KNOWLEDGE_EMBEDDING_DIMENSIONS |-> 384,
     KNOWLEDGE_MAX_CLASSIFICATION |-> "CONFIDENTIAL", KNOWLEDGE_OPENAI_MODEL |-> "none",
     OPENAI_API_KEY |-> FALSE, KNOWLEDGE_OPENAI_BASE_URL |-> TRUE, KNOWLEDGE_OPENAI_FALLBACK |-> TRUE,
     QDRANT_URL |-> "none", QDRANT_API_KEY |-> FALSE,
     KNOWLEDGE_QDRANT_ENVIRONMENT_AUTHORISATION |-> FALSE,
     KNOWLEDGE_EXTERNAL_EGRESS_AUTHORISED |-> FALSE,
     KNOWLEDGE_CHUNK_SIZE_TOKENS |-> 512, KNOWLEDGE_CHUNK_OVERLAP_TOKENS |-> 64,
     KNOWLEDGE_RETRIEVAL_TOP_K |-> 2, KNOWLEDGE_RAG_ENABLED |-> TRUE,
     KNOWLEDGE_RAG_MIN_SOURCES |-> 2]

Learned == [Laboratory EXCEPT !.KNOWLEDGE_EMBEDDING_PROVIDER = "openai",
    !.KNOWLEDGE_OPENAI_MODEL = "named", !.OPENAI_API_KEY = TRUE, !.KNOWLEDGE_OPENAI_FALLBACK = FALSE,
    !.KNOWLEDGE_MAX_CLASSIFICATION = "other", !.KNOWLEDGE_EXTERNAL_EGRESS_AUTHORISED = TRUE]

Production == [Laboratory EXCEPT !.NODE_ENV = "production", !.KNOWLEDGE_VECTOR_STORE = "qdrant",
    !.QDRANT_URL = "https", !.QDRANT_API_KEY = TRUE, !.KNOWLEDGE_EXTERNAL_EGRESS_AUTHORISED = TRUE,
    !.KNOWLEDGE_QDRANT_ENVIRONMENT_AUTHORISATION = TRUE]

MCEnvironments ==
    {Laboratory, Learned, Production,
     [Laboratory EXCEPT !.KNOWLEDGE_ENABLED = FALSE]}

OneEnvironment == {Laboratory}
OneBatch == {[documents |-> <<Notice>>, stop |-> FALSE]}
NoQuery == {}

JobSymmetry == Permutations(Jobs)
=============================================================================
