------------------------------ MODULE Knowledge ------------------------------
(***************************************************************************)
(* The R-Knowledge plane: ingestion (knowledge/ingestion.ts, corpus.ts),   *)
(* retrieval and composition (retrieval.ts, rag.ts), the plane object      *)
(* (planes/r-knowledge/index.ts), the embedded store                       *)
(* (stores/sqlite-store.ts) and the runtime's bridge                       *)
(* (runtime/knowledge/bridge.ts).                                          *)
(*                                                                         *)
(* A process holds up to two planes over one database file: the one        *)
(* src/index.ts creates and serves through /api/v1/knowledge, and the one  *)
(* the runtime's bridge creates at its first request.  Requests run        *)
(* concurrently; a step of the model is the code between two awaits whose  *)
(* result another request, a fault or a restart can change.  The request   *)
(* counters and the ring of quarantine digests are reported and never      *)
(* read by a decision: they are left out.                                  *)
(***************************************************************************)
EXTENDS KnowledgeConfig, FiniteSets, FiniteSetsExt, SequencesExt

CONSTANTS
    Jobs,           \* requests in progress at the same time
    Documents,      \* documents a caller may offer
    Batches,        \* what is offered together: one document for /ingest, several
                    \* for /corpus, which may ask to stop at the first failure
    Queries,        \* retrieval requests
    Environments,   \* environments the process may be started with
    MaxRows,        \* bound on the stored objects
    MaxFaults,      \* bound on failing reads, writes, embeddings and bit rot
    MaxRestarts     \* bound on restarts of the process

ASSUME KnowledgeAssumption ==
    /\ \A d \in Documents :
          /\ d.chunks # <<>>
          /\ d.classification \in DOMAIN CLASSIFICATION_RANK
          /\ d.form \in {"ok", "malformed", "too_large", "hostile", "empty", "blank_chunk"}
    /\ \A b \in Batches : b.documents \in Seq(Documents) \ {<<>>} /\ b.stop \in BOOLEAN
    /\ \A q \in Queries : q.confidentiality \in {"public", "internal", "restricted", "sovereign"}
    /\ {MaxRows, MaxFaults, MaxRestarts} \subseteq Nat

VARIABLES
    config,         \* the resolved configuration of the running process
    plane,          \* the two planes: the router's and the bridge's
    rows,           \* the objects in the database file
    service,        \* the embedding service answers
    job,            \* the requests in progress
    faults, restarts

knowledgeVars == <<config, plane, rows, service, job, faults, restarts>>

Planes == {"main", "bridge"}
Healthy == [level |-> 0, reason |-> ""]
NoJob == [pc |-> "idle"]
Fresh == [status |-> "fresh", open |-> FALSE, writeRefused |-> FALSE, degradation |-> Healthy]

-----------------------------------------------------------------------------
(* The store.                                                              *)

storeKind == selectVectorStore(config).kind

\* The code a store reports while it holds no handle.
closedReason == IF storeKind = "qdrant" THEN qdrantOpenFailure(config)
                ELSE IF storeKind = "null" THEN selectVectorStore(config).reason
                ELSE "STORE_UNAVAILABLE"

\* Rows whose bytes verify: the content digest, and the vector digest with it.
verifyObjectIntegrity(r) == r.intact

\* Mutant: the last chunk decides.
getByHash_Last(d) ==
    LET found == {r \in rows : r.content = Last(d.chunks)}
    IN  IF found = {} THEN {FALSE} ELSE {verifyObjectIntegrity(r) : r \in found}

\* The answers to "already held": the first chunk decides.  The SELECT takes one
\* of the rows with its digest, no matter which, and only that one is verified.
getByHash(d) ==
    LET found == {r \in rows : r.content = Head(d.chunks)}
    IN  IF found = {} THEN {FALSE} ELSE {verifyObjectIntegrity(r) : r \in found}

\* The SELECT of search() and the checks on every row it returns; a vector of
\* another width, or none, is not a candidate.
candidates(ceiling, width) ==
    {r \in rows : /\ within(r.classification, ceiling)
                  /\ verifyObjectIntegrity(r)
                  /\ r.width = width}

\* The objects one ingestion builds: one per chunk, labelled with the adapter
\* the plane is configured with, whatever adapter made the vector.
objectsOf(d, vector) ==
    {[batch |-> Cardinality({r.batch : r \in rows}) + 1, document |-> d, chunk |-> i,
      content |-> d.chunks[i], classification |-> d.classification,
      origin |-> vector.origin, width |-> vector.width,
      provider |-> config.embeddingProvider, intact |-> TRUE] : i \in DOMAIN d.chunks}

\* The store's own ceiling excludes the objects above it.
admissible(objects) == {o \in objects : within(o.classification, storeCeiling)}

\* The admitted objects go into one transaction: it commits or leaves nothing.
upserted(objects, fails) == IF fails THEN {} ELSE admissible(objects)

-----------------------------------------------------------------------------
(* Creating a plane.                                                       *)

Io(fails) ==
    /\ fails => faults < MaxFaults
    /\ faults' = faults + (IF fails THEN 1 ELSE 0)

\* store.open(), then embedder.init(); neither throws.
Opens(p, fails) ==
    LET opened == storeKind = "sqlite" /\ ~fails
        level  == computeDegradation(opened, opened, adapterInitialises(config))
    IN  plane' = [plane EXCEPT ![p] =
            [status |-> "ready", open |-> opened, writeRefused |-> FALSE,
             degradation |-> [level  |-> level,
                              reason |-> CASE level = 3 -> closedReason
                                           [] level = 0 -> ""
                                           [] OTHER     -> "EMBEDDING_UNAVAILABLE"]]]

\* src/index.ts awaits create() and init() before the server listens.
StartMain(fails) ==
    /\ plane["main"].status = "fresh"
    /\ Io(fails)
    /\ fails => storeKind = "sqlite"
    /\ IF config.enabled THEN Opens("main", fails)
       ELSE plane' = [plane EXCEPT !["main"].status = "disabled"]
    /\ UNCHANGED <<config, rows, service, job, restarts>>

-----------------------------------------------------------------------------
(* Requests.                                                               *)

Unavailable(req, why) ==
    IF req.kind = "ingest" THEN [j \in 1..Len(req.documents) |-> "refused"]
    ELSE [reason |-> why, results |-> {}, composed |-> FALSE]

Started(p, req, pc) ==
    [pc |-> pc, plane |-> p, req |-> req, reachable |-> FALSE, writable |-> FALSE,
     level |-> Healthy, out |-> IF req.kind = "ingest" THEN <<>> ELSE Unavailable(req, "none"),
     hits |-> {}, origin |-> "none", operational |-> FALSE]

Requests == {[kind |-> "ingest", documents |-> b.documents, stop |-> b.stop] : b \in Batches}
              \union [kind : {"query"}, query : Queries] \union [kind : {"status"}]

\* The objects a batch in progress may still write are counted against MaxRows.
pending(req) ==
    IF req.kind # "ingest" THEN 0
    ELSE FoldFunction(+, 0, [i \in DOMAIN req.documents |->
            LET d == req.documents[i]
            IN  IF d.form = "ok" /\ within(d.classification, storeCeiling) THEN Len(d.chunks) ELSE 0])
room(req) ==
    Cardinality(rows) + pending(req)
      + FoldFunction(+, 0, [j \in Jobs |-> IF job[j].pc \in {"idle", "done"} THEN 0
                                           ELSE pending(job[j].req)]) <= MaxRows

\* A request to the mounted router.
RequestMain(j, req) ==
    /\ job[j].pc = "idle"
    /\ plane["main"].status = "ready"
    /\ room(req)
    /\ job' = [job EXCEPT ![j] = Started("main", req, "store")]
    /\ UNCHANGED <<config, plane, rows, service, faults, restarts>>

\* A request through the bridge, which never asks to stop.  The first one creates the plane and waits for
\* init(); `initialised` is already set, so a second one arriving meanwhile gets
\* neither a plane nor a reason.
RequestBridge(j, r) ==
    LET req == IF r.kind = "ingest" THEN [r EXCEPT !.stop = FALSE] ELSE r IN
    /\ job[j].pc = "idle"
    /\ req.kind # "status"
    /\ room(req)
    /\ LET status == plane["bridge"].status
       IN  /\ job' = [job EXCEPT ![j] =
                IF status = "ready" THEN Started("bridge", req, "store")
                ELSE IF status = "fresh" /\ config.enabled THEN Started("bridge", req, "init")
                ELSE [Started("bridge", req, "done") EXCEPT !.out =
                        Unavailable(req, IF config.enabled THEN "KNOWLEDGE_UNAVAILABLE"
                                         ELSE "KNOWLEDGE_DISABLED")]]
           /\ plane' = IF status # "fresh" THEN plane
                       ELSE [plane EXCEPT !["bridge"].status =
                                IF config.enabled THEN "opening" ELSE "disabled"]
    /\ UNCHANGED <<config, rows, service, faults, restarts>>

InitBridge(j, fails) ==
    /\ job[j].pc = "init"
    /\ Io(fails)
    /\ fails => storeKind = "sqlite"
    /\ Opens("bridge", fails)
    /\ job' = [job EXCEPT ![j].pc = "store"]
    /\ UNCHANGED <<config, rows, service, restarts>>

\* refreshDegradation(), first await: store.health().
ProbeStore(j, fails) ==
    /\ job[j].pc = "store"
    /\ Io(fails)
    /\ fails => plane[job[j].plane].open
    /\ job' = [job EXCEPT ![j].pc = "embedder",
                          ![j].reachable = plane[job[j].plane].open /\ ~fails,
                          ![j].writable  = ~plane[job[j].plane].writeRefused]
    /\ UNCHANGED <<config, plane, rows, service, restarts>>

\* Second await: embedder.health().  The level goes into the field all requests
\* of the plane share.
ProbeEmbedder(j) ==
    LET p     == job[j].plane
        level == computeDegradation(job[j].reachable, job[j].writable,
                                    embedderAvailable(config, service))
    IN  /\ job[j].pc = "embedder"
        /\ plane' = [plane EXCEPT ![p].degradation =
              [level  |-> level,
               reason |-> CASE level = 3 -> closedReason
                            [] level = 2 -> "STORE_WRITE_REFUSED"
                            [] level = 1 -> "EMBEDDING_UNAVAILABLE"
                            [] OTHER     -> ""]]
        /\ job' = [job EXCEPT ![j].pc = IF job[j].req.kind = "ingest" THEN "next"
                                        ELSE job[j].req.kind,
                              ![j].writable = FALSE]
        /\ UNCHANGED <<config, rows, service, faults, restarts>>

-----------------------------------------------------------------------------
(* Ingestion.                                                              *)

\* IngestionRequestSchema: the shape of an offered document.
wellFormed(d) == d.form # "malformed"

\* The screening rules, on the text as it arrived.
screenForInjection(item) == item.form = "hostile"

\* Stages I-1 to I-6, in their order: "" when the document has its chunks.
screen(d) ==
    IF ~wellFormed(d) \/ d.form = "too_large" THEN "refused"
    ELSE IF \/ ~within(d.classification, config.maxClassification)
            \/ screenForInjection(d) THEN "quarantined"
    ELSE IF \/ d.form = "empty"
            \/ config.chunkOverlapTokens >= config.chunkSizeTokens THEN "refused"
    ELSE ""

\* Every chunk has some text left after trimming, and a vector its declared width.
constructKnowledgeObject(d, vector) ==
    /\ d.form # "blank_chunk"
    /\ vector.ok => vector.width = config.embeddingDimensions

\* A dependency failure is not the document's fault.
dispositionOf(reason) ==
    IF reason \in {"STORE_UNAVAILABLE", "STORE_WRITE_REFUSED", "STORE_AUTH_FAILURE",
                   "STORE_TLS_FAILURE"} THEN "degraded" ELSE "refused"

\* The corpus loop: record the outcome, and stop or go on to the next document.
Recorded(j, outcome) ==
    LET req  == job[j].req
        out  == Append(job[j].out, outcome)
        stop == req.stop /\ outcome \notin {"ingested", "duplicate"}
        rest == [i \in 1..(Len(req.documents) - Len(out)) |-> "refused"]
    IN  IF stop \/ Len(out) = Len(req.documents)
        THEN [Started(job[j].plane, req, "done") EXCEPT !.out = IF stop THEN out \o rest ELSE out]
        ELSE [job[j] EXCEPT !.out = out, !.pc = "next"]

\* I-1 to I-8 of the next document.  The level is the one the plane had when
\* the request's refresh returned, for every document of the batch.
Screen(j, fails) ==
    LET d       == job[j].req.documents[Len(job[j].out) + 1]
        outcome == screen(d)
        p       == job[j].plane
        snap    == IF job[j].out = <<>> THEN plane[p].degradation ELSE job[j].level
    IN  /\ job[j].pc = "next"
        /\ Io(fails)
        /\ fails => outcome = "" /\ plane[p].open
        /\ \E held \in getByHash(d) :
           LET next == IF outcome # "" THEN Recorded(j, outcome)
                       ELSE IF plane[p].open /\ ~fails /\ held
                            THEN Recorded(j, "duplicate")
                       ELSE [job[j] EXCEPT !.pc = "embed"]
           IN  job' = [job EXCEPT ![j] = IF next.pc = "done" THEN next
                                         ELSE [next EXCEPT !.level = snap]]
        /\ UNCHANGED <<config, plane, rows, service, restarts>>

\* I-9 to I-11: the embedding returns, the objects are built, and unless the
\* level forbids it they are written.  A failed write marks the store; only a
\* committed transaction unmarks it.
Store(j, fails) ==
    LET d       == job[j].req.documents[Len(job[j].out) + 1]
        p       == job[j].plane
        vector  == embed(config, service)
        objects == objectsOf(d, vector)
        written == upserted(objects, fails)
        built   == constructKnowledgeObject(d, vector)
        barred  == job[j].level.level >= 2
        writes  == built /\ ~barred /\ plane[p].open
    IN  /\ job[j].pc = "embed"
        /\ Io(fails)
        /\ fails => writes
        /\ job' = [job EXCEPT ![j] = Recorded(j,
                IF ~built THEN "refused"
                ELSE IF barred THEN dispositionOf(job[j].level.reason)
                ELSE IF ~plane[p].open THEN dispositionOf(closedReason)
                ELSE IF fails THEN dispositionOf("STORE_WRITE_REFUSED")
                ELSE IF written # objects THEN dispositionOf("STORE_CLASSIFICATION_REFUSED")
                ELSE "ingested")]
        /\ rows' = IF writes THEN rows \union written ELSE rows
        /\ plane' = IF writes THEN [plane EXCEPT ![p].writeRefused = fails] ELSE plane
        /\ UNCHANGED <<config, service, restarts>>

-----------------------------------------------------------------------------
(* Retrieval and composition.                                              *)

\* The ceiling of a query: the caller's on the router, or the plane's own; the
\* request's confidentiality on the bridge, which always composes.
ceilingOf(j) ==
    LET q == job[j].req.query
    IN  IF job[j].plane = "bridge" THEN classificationCeilingFor(q.confidentiality)
        ELSE IF q.maxClassification # "default" THEN q.maxClassification
        ELSE config.maxClassification

composes(j) == job[j].plane = "bridge" \/ job[j].req.query.compose

Answered(j, why, results, composed) ==
    [Started(job[j].plane, job[j].req, "done") EXCEPT
        !.out = [reason |-> why, results |-> results, composed |-> composed]]

\* G-1 and R-1 to R-4.
Query(j) ==
    LET p == job[j].plane
        q == job[j].req.query
    IN  /\ job[j].pc = "query"
        /\ job' = [job EXCEPT ![j] =
              IF composes(j) /\ ~config.ragEnabled THEN Answered(j, "RAG_DISABLED", {}, FALSE)
              ELSE IF ~wellFormed(q) THEN Answered(j, "ADMISSION_MALFORMED", {}, FALSE)
              ELSE IF plane[p].degradation.level >= 3
                   THEN Answered(j, plane[p].degradation.reason, {}, FALSE)
              ELSE IF q.form = "empty" THEN Answered(j, "NORMALISATION_FAILED", {}, FALSE)
              ELSE IF screenForInjection(q) THEN Answered(j, "INJECTION_DETECTED", {}, FALSE)
              ELSE [job[j] EXCEPT !.pc = "search"]]
        /\ UNCHANGED <<config, plane, rows, service, faults, restarts>>

\* R-5 and R-6: the query is embedded and the table searched for k * 4 candidates.
\* A read that fails returns no candidate.
OVERSAMPLE_FACTOR == 4

Search(j, fails) ==
    LET vector == embed(config, service)
        found  == candidates(ceilingOf(j), vector.width)
        want   == OVERSAMPLE_FACTOR * job[j].req.query.k
    IN  /\ job[j].pc = "search"
        /\ Io(fails)
        /\ fails => vector.ok
        /\ \E hits \in IF fails THEN {{}} ELSE kSubset(Min({want, Cardinality(found)}), found) :
              job' = [job EXCEPT ![j] =
                 IF ~vector.ok THEN Answered(j, "EMBEDDING_UNAVAILABLE", {}, FALSE)
                 ELSE [job[j] EXCEPT !.pc = "hydrate", !.origin = vector.origin,
                                     !.hits = {<<r.batch, r.chunk>> : r \in hits}]]
        /\ UNCHANGED <<config, plane, rows, service, restarts>>

\* G-4 to G-8 on what retrieval returned: composed only from enough sources.
composeRag(j, results) ==
    IF Cardinality(results) < config.ragMinSources
    THEN Answered(j, "RAG_INSUFFICIENT_EVIDENCE", results, FALSE)
    ELSE Answered(j, "", results, TRUE)

\* R-7 to R-11.  Vectors of one origin are close when the texts
\* are about the same thing; between two origins the score is arbitrary.
Hydrate(j, fails) ==
    LET q        == job[j].req.query
        hydrated == {r \in rows : /\ <<r.batch, r.chunk>> \in job[j].hits
                                  /\ verifyObjectIntegrity(r) /\ ~fails}
        admitted == {r \in hydrated : within(r.classification, ceilingOf(j))}
        foreign  == {r \in admitted : r.origin # job[j].origin}
        related  == {r \in admitted \ foreign : r.content \in q.about}
    IN  /\ job[j].pc = "hydrate"
        /\ Io(fails)
        /\ fails => job[j].hits # {}
        /\ \E chance \in SUBSET foreign :
           LET above == related \union chance
           IN  \E results \in kSubset(Min({q.k, Cardinality(above)}), above) :
               job' = [job EXCEPT ![j] =
                 IF results = {}
                 THEN Answered(j, IF admitted # {} THEN "RETRIEVAL_BELOW_SIMILARITY_FLOOR"
                                  ELSE "RETRIEVAL_EMPTY", {}, FALSE)
                 ELSE IF composes(j) THEN composeRag(j, results)
                 ELSE Answered(j, "", results, FALSE)]
        /\ UNCHANGED <<config, plane, rows, service, restarts>>

\* deploymentReadiness(): a second embedder.health() after the refresh, and the
\* report from both and the shared level.
Status(j) ==
    /\ job[j].pc = "status"
    /\ job' = [job EXCEPT ![j] = [Started(job[j].plane, job[j].req, "done") EXCEPT
          !.operational = deploymentReady(config, plane[job[j].plane].degradation.level,
                                          job[j].reachable, embedderAvailable(config, service))]]
    /\ UNCHANGED <<config, plane, rows, service, faults, restarts>>

\* The response is sent and the slot is free for another request.
Respond(j) ==
    /\ job[j].pc = "done"
    /\ job' = [job EXCEPT ![j] = NoJob]
    /\ UNCHANGED <<config, plane, rows, service, faults, restarts>>

-----------------------------------------------------------------------------
(* The environment.                                                        *)

ServiceFails ==
    /\ service /\ faults < MaxFaults
    /\ config.embeddingProvider = "openai"
    /\ service' = FALSE
    /\ faults' = faults + 1
    /\ UNCHANGED <<config, plane, rows, job, restarts>>

ServiceReturns ==
    /\ ~service
    /\ service' = TRUE
    /\ UNCHANGED <<config, plane, rows, job, faults, restarts>>

\* A row's bytes change under the store.
Rot(r) ==
    /\ r.intact /\ faults < MaxFaults
    /\ rows' = (rows \ {r}) \union {[r EXCEPT !.intact = FALSE]}
    /\ faults' = faults + 1
    /\ UNCHANGED <<config, plane, service, job, restarts>>

\* The process stops and starts, perhaps with another environment: requests,
\* planes and their quarantine rings are gone, the database file is not.
ProcessRestart(env) ==
    /\ restarts < MaxRestarts
    /\ restarts' = restarts + 1
    /\ config' = resolveKnowledgeConfig(env)
    /\ plane' = [p \in Planes |-> Fresh]
    /\ job' = [j \in Jobs |-> NoJob]
    /\ UNCHANGED <<rows, service, faults>>

KnowledgeInit ==
    /\ config \in {resolveKnowledgeConfig(env) : env \in Environments}
    /\ plane = [p \in Planes |-> Fresh]
    /\ rows = {}
    /\ service = TRUE
    /\ job = [j \in Jobs |-> NoJob]
    /\ faults = 0
    /\ restarts = 0

KnowledgeNext ==
    \/ \E fails \in BOOLEAN : StartMain(fails)
    \/ \E j \in Jobs : \E req \in Requests : RequestMain(j, req) \/ RequestBridge(j, req)
    \/ \E j \in Jobs : \E fails \in BOOLEAN :
          \/ InitBridge(j, fails) \/ ProbeStore(j, fails)
          \/ Screen(j, fails) \/ Store(j, fails)
          \/ Search(j, fails) \/ Hydrate(j, fails)
    \/ \E j \in Jobs : ProbeEmbedder(j) \/ Query(j) \/ Status(j) \/ Respond(j)
    \/ ServiceFails
    \/ ServiceReturns
    \/ \E r \in rows : Rot(r)
    \/ \E env \in Environments : ProcessRestart(env)

KnowledgeSpec == KnowledgeInit /\ [][KnowledgeNext]_knowledgeVars

\* A request once accepted is carried to its response: every await of the code
\* settles.  A refused caller is "being asked to retry" (ingestion.ts), so an
\* ingestion is offered to a ready plane again and again.
Progress(j) ==
    \/ ProbeStore(j, FALSE) \/ ProbeEmbedder(j) \/ Screen(j, FALSE) \/ Store(j, FALSE)
    \/ InitBridge(j, FALSE) \/ Query(j) \/ Search(j, FALSE) \/ Hydrate(j, FALSE)
    \/ Status(j) \/ Respond(j)

Offers(p) == \E j \in Jobs : \E req \in Requests :
    /\ req.kind = "ingest"
    /\ IF p = "main" THEN RequestMain(j, req) ELSE RequestBridge(j, req)

Fairness ==
    /\ WF_knowledgeVars(StartMain(FALSE)) /\ WF_knowledgeVars(ServiceReturns)
    /\ \A j \in Jobs : WF_knowledgeVars(Progress(j))
    /\ \A p \in Planes : SF_knowledgeVars(Offers(p))

KnowledgeFairSpec == KnowledgeSpec /\ Fairness

-----------------------------------------------------------------------------
(* Properties.                                                             *)

KnowledgeTypeOK ==
    /\ plane \in [Planes -> [status : {"fresh", "opening", "ready", "disabled"}, open : BOOLEAN,
                             writeRefused : BOOLEAN,
                             degradation : [level : 0..3, reason : STRING]]]
    /\ \A r \in rows : r.document \in Documents /\ r.chunk \in DOMAIN r.document.chunks
    /\ service \in BOOLEAN
    /\ faults \in 0..MaxFaults /\ restarts \in 0..MaxRestarts

\* The classifications a request of each confidentiality is cleared for, as the
\* bridge's comment states them: public sees public material only.
cleared == [public     |-> {"PUBLIC"},
            internal   |-> {"PUBLIC", "INTERNAL"},
            restricted |-> {"PUBLIC", "INTERNAL", "CONFIDENTIAL"},
            sovereign  |-> {"PUBLIC", "INTERNAL", "CONFIDENTIAL", "RESTRICTED"}]

\* Whatever was ingested, rotted or restarted meanwhile, an answer to a request
\* of the runtime cites only objects its confidentiality is cleared for, and no
\* answer cites an object of a hostile document or one above the store's
\* ceiling (bridge.ts classificationCeilingFor, retrieval.ts R-6 to R-8).
AnswersWithinClearance ==
    \A j \in Jobs : job[j].pc = "done" /\ job[j].req.kind = "query" =>
        \A r \in job[j].out.results :
            /\ job[j].plane = "bridge" =>
                  r.classification \in cleared[job[j].req.query.confidentiality]
            /\ r.document.form = "ok"
            /\ within(r.classification, storeCeiling)

\* A document reported ingested is held to its last chunk.  One reported as a
\* duplicate is held to its last chunk too, unless another document contains its
\* first chunk, which is all I-8 compares; that chunk is held in any case.  What
\* has rotted since is still a row (ingestion.ts I-8 and I-11, corpus.ts `ok`).
AcknowledgedIsHeld ==
    \A j \in Jobs : job[j].pc # "idle" /\ job[j].req.kind = "ingest" =>
        \A i \in DOMAIN job[j].out :
            LET d       == job[j].req.documents[i]
                held    == {r.content : r \in rows}
                entire  == Range(d.chunks) \subseteq held
                another == \E e \in Documents \ {d} : Head(d.chunks) \in Range(e.chunks)
            IN  /\ job[j].out[i] = "ingested" => entire
                /\ job[j].out[i] = "duplicate" => Head(d.chunks) \in held /\ (entire \/ another)

\* A plane that refuses ingestion because its store refused a write accepts
\* again once the fault is over, without a restart: "this is what makes every
\* level reversible without a restart" (planes/r-knowledge/index.ts).
LevelRecovers == \A p \in Planes : plane[p].writeRefused ~> ~plane[p].writeRefused
=============================================================================
