------------------------------ MODULE RagIndex ------------------------------
(***************************************************************************)
(* Documents and their vectors (app/tools/rag_tools.py): ingestion,        *)
(* indexing, search and vector deletion over two stores that share no      *)
(* transaction, the repository (documents, chunks, embedding records) and  *)
(* the vector backend.                                                     *)
(*                                                                         *)
(* Every call is a thread and every repository or vector-store call a      *)
(* step; a document is named by the call that ingests it.  Chunks are      *)
(* numbered, in the order of their offsets, and every chunk holds a term   *)
(* of every query.  One embedding model is used.                           *)
(***************************************************************************)
EXTENDS Integers, FiniteSets

CONSTANTS
    Callers,         \* calls of the RAG tools, and the documents they ingest
    Tenants,         \* tenants of documents and searches
    Collections,     \* vector collections: shared, of a tenant, named
    NoTenant, NoCollection,
    Configurations,  \* which repository and which vector backend may be used
    MaxChunks,       \* bound on the chunks of a document
    Limit,           \* results of a search
    MaxFaults        \* bound on failing store calls and process restarts

ASSUME RagAssumption ==
    /\ NoTenant \notin Tenants
    /\ NoCollection \notin Collections
    /\ Configurations \subseteq [sql : BOOLEAN, qdrant : BOOLEAN]
    /\ MaxChunks \in Nat \ {0}
    /\ Limit \in Nat \ {0}
    /\ MaxFaults \in Nat

VARIABLES
    config,     \* REPOSITORY_BACKEND and VECTOR_BACKEND of the deployment
    documents,  \* documents the repository has
    chunks,     \* how many chunks of each document it has
    records,    \* the collection in the embedding record of each chunk
    collections,  \* collections Qdrant has
    vectors,    \* its vectors: collection, chunk, and tenant in the payload
    pc,         \* the next store call of each thread
    call,       \* the payload of each call
    work,       \* its locals: chunks listed, records saved, documents, matches
    reply,      \* its answer
    faults,     \* failing store calls and restarts so far
    known,      \* history: documents ingested when the call began
    dropped     \* history: vectors a deletion removed

repoVars == <<documents, chunks, records>>
storeVars == <<collections, vectors>>
envVars == <<config, faults>>
vars == <<config, documents, chunks, records, collections, vectors, pc, call,
          work, reply, faults, known, dropped>>

Chunk == Callers \X (1..MaxChunks)

RepositorySteps == {"save_document", "save_chunk", "get_document", "list_chunks",
                    "save_record", "hydrate", "list_documents", "collect"}
VectorSteps == {"ensure", "upsert", "vector_search", "delete"}

\* What a call asks for.  The size of an ingested document and the collection
\* of its vectors are known once its last chunk is saved; index_vectors and
\* strict_vector are read once, where they are chosen.
Call == [op : {"none", "ingest", "index", "search", "delete"},
         doc : Callers, tenant : Tenants \cup {NoTenant},
         coll : Collections \cup {NoCollection}, size : 0..MaxChunks]

Work == [count : 0..MaxChunks, done : 0..MaxChunks,
         todo : SUBSET Callers, found : SUBSET Chunk]

Reply == [status : {"none", "error", "ingested", "indexed", "searched",
                    "deleted", "delete_skipped"},
          detail : {"none", "indexed", "index_skipped", "vector",
                    "repository_lexical", "inline_lexical"},
          count : 0..MaxChunks, results : SUBSET Chunk, texts : SUBSET Chunk]

Says(status, detail) == [status |-> status, detail |-> detail, count |-> 0,
                         results |-> {}, texts |-> {}]

NoReply == Says("none", "none")

NoWork == [count |-> 0, done |-> 0, todo |-> {}, found |-> {}]

TypeOK ==
    /\ config \in Configurations
    /\ documents \subseteq Callers
    /\ chunks \in [Callers -> 0..MaxChunks]
    /\ records \in [Chunk -> Collections \cup {NoCollection}]
    /\ collections \subseteq Collections
    /\ vectors \subseteq Collections \X Chunk \X Tenants
    /\ pc \in [Callers -> {"idle", "over"} \cup RepositorySteps \cup VectorSteps]
    /\ call \in [Callers -> Call]
    /\ work \in [Callers -> Work]
    /\ reply \in [Callers -> Reply]
    /\ faults \in 0..MaxFaults
    /\ known \in [Callers -> SUBSET Callers]
    /\ dropped \subseteq Collections \X Chunk

Asks(op, d, t, c) == [op |-> op, doc |-> d, tenant |-> t, coll |-> c, size |-> 0]

Init ==
    /\ config \in Configurations
    /\ documents = {}
    /\ chunks = [d \in Callers |-> 0]
    /\ records = [ch \in Chunk |-> NoCollection]
    /\ collections = {}
    /\ vectors = {}
    /\ pc = [p \in Callers |-> "idle"]
    /\ call = [p \in Callers |-> Asks("none", p, NoTenant, NoCollection)]
    /\ work = [p \in Callers |-> NoWork]
    /\ reply = [p \in Callers |-> NoReply]
    /\ faults = 0
    /\ known = [p \in Callers |-> {}]
    /\ dropped = {}

ChunksOf(d) == {<<d, k>> : k \in 1..chunks[d]}

\* The chunks that have a vector, by collection.
Stored == {<<v[1], v[2]>> : v \in vectors}

\* The documents a caller has been told are ingested.
Ingested == {d \in documents : reply[d].status = "ingested"}

Least(m, n) == IF m < n THEN m ELSE n

\* What is left of candidates after [:limit]; their order is left open.
Cut(candidates) ==
    {s \in SUBSET candidates : Cardinality(s) = Least(Limit, Cardinality(candidates))}

-----------------------------------------------------------------------------
(* Calls and answers.                                                      *)

Start(p, payload, at, heard) ==
    /\ pc[p] = "idle"
    /\ pc' = [pc EXCEPT ![p] = at]
    /\ call' = [call EXCEPT ![p] = payload]
    /\ known' = [known EXCEPT ![p] = heard]
    /\ UNCHANGED <<repoVars, storeVars, work, reply, envVars, dropped>>

Answer(p, answer) ==
    /\ pc' = [pc EXCEPT ![p] = "over"]
    /\ reply' = [reply EXCEPT ![p] = answer]
    /\ work' = [work EXCEPT ![p] = NoWork]

Proceed(p, at, locals) ==
    /\ pc' = [pc EXCEPT ![p] = at]
    /\ work' = [work EXCEPT ![p] = locals]
    /\ UNCHANGED reply

Goto(p, at) == Proceed(p, at, work[p])

Failed == Says("error", "none")

\* The title, content, query or document_id is missing, or names no document.
Refuse(p) ==
    /\ pc[p] = "idle"
    /\ Answer(p, Failed)
    /\ UNCHANGED <<repoVars, storeVars, call, envVars, known, dropped>>

\* An upsert whose status is not looked at (no raise_for_status).
FailUnnoticed(p) ==
    \/ /\ pc[p] = "upsert"
       /\ Goto(p, "save_record")
    \/ Answer(p, Failed)

\* How an exception ends a call.  An ingestion that was to be indexed, a vector
\* search and a deletion swallow it unless strict_vector is set.
Fail(p) ==
    \/ Answer(p, Failed)
    \/ /\ call[p].op = "ingest"
       /\ pc[p] \notin {"save_document", "save_chunk"}
       /\ Answer(p, Says("ingested", "index_skipped"))
    \/ /\ pc[p] = "vector_search"
       /\ Goto(p, "list_documents")
    \/ /\ pc[p] = "delete"
       /\ Answer(p, Says("delete_skipped", "none"))

-----------------------------------------------------------------------------
(* ingest_document and DocumentIngestor.ingest.                            *)

Ingest(p, t) ==
    Start(p, Asks("ingest", p, t, NoCollection), "save_document", {})

SaveDocument(p) ==
    /\ pc[p] = "save_document"
    /\ documents' = documents \cup {p}
    /\ Goto(p, "save_chunk")
    /\ UNCHANGED <<chunks, records, storeVars, call, envVars, known, dropped>>

\* An off-by-one in the ranges of TextChunker that adds an empty chunk.
SaveChunkOverrun(p) ==
    /\ pc[p] = "save_chunk"
    /\ chunks' = [chunks EXCEPT ![p] = @ + 1]
    /\ \/ /\ chunks[p] < MaxChunks
          /\ Goto(p, "save_chunk")
          /\ UNCHANGED call
       \/ /\ \E c \in Collections :
                call' = [call EXCEPT ![p].size = chunks[p], ![p].coll = c]
          /\ Goto(p, "get_document")
    /\ UNCHANGED <<documents, records, storeVars, envVars, known, dropped>>

\* The chunks are saved one by one; after the last the vectors may follow, in
\* the collection the payload names or that of the model and the tenant.
SaveChunk(p) ==
    /\ pc[p] = "save_chunk"
    /\ chunks' = [chunks EXCEPT ![p] = @ + 1]
    /\ \/ /\ chunks[p] + 1 < MaxChunks
          /\ Goto(p, "save_chunk")
          /\ UNCHANGED call
       \/ /\ \E c \in Collections :
                call' = [call EXCEPT ![p].size = chunks[p] + 1, ![p].coll = c]
          /\ Goto(p, "get_document")
       \/ /\ call' = [call EXCEPT ![p].size = chunks[p] + 1]
          /\ Answer(p, Says("ingested", "none"))
    /\ UNCHANGED <<documents, records, storeVars, envVars, known, dropped>>

-----------------------------------------------------------------------------
(* index_document, called as a tool or at the end of an ingestion.         *)

\* The tenant is the one the payload names, or the document's (rag_tools.py:77).
Index(p, d, t, c) ==
    Start(p, Asks("index", d, t, c), "get_document", Ingested)

GetDocument(p) ==
    /\ pc[p] = "get_document"
    /\ IF call[p].doc \in documents THEN Goto(p, "list_chunks") ELSE Fail(p)
    /\ UNCHANGED <<repoVars, storeVars, call, envVars, known, dropped>>

\* Chunks counted in the text of the document, not in the repository.
ListChunksOfText(p) ==
    /\ pc[p] = "list_chunks"
    /\ Proceed(p, "ensure", [work[p] EXCEPT !.count = MaxChunks])
    /\ UNCHANGED <<repoVars, storeVars, call, envVars, known, dropped>>

ListChunks(p) ==
    /\ pc[p] = "list_chunks"
    /\ LET listed == chunks[call[p].doc] IN
       IF listed > 0 THEN Proceed(p, "ensure", [work[p] EXCEPT !.count = listed])
       ELSE Fail(p)
    /\ UNCHANGED <<repoVars, storeVars, call, envVars, known, dropped>>

\* The embedding records are saved before the upsert.
EnsureCollectionRecording(p) ==
    /\ pc[p] = "ensure"
    /\ records' = [ch \in Chunk |->
                     IF ch[1] = call[p].doc /\ ch[2] <= work[p].count
                     THEN call[p].coll ELSE records[ch]]
    /\ Goto(p, "upsert")
    /\ UNCHANGED <<documents, chunks, storeVars, call, envVars, known, dropped>>

\* Qdrant does not know the collection, and says so.
Absent(p) == config.qdrant /\ call[p].coll \notin collections

\* The collection is created without asking whether it is there: Qdrant refuses
\* one it has.  An in-memory store has nothing to create.
EnsureCollection(p) ==
    /\ pc[p] = "ensure"
    /\ \/ /\ Absent(p)
          /\ collections' = collections \cup {call[p].coll}
          /\ Goto(p, "upsert")
       \/ /\ config.qdrant /\ ~Absent(p)
          /\ Fail(p)
          /\ UNCHANGED collections
       \/ /\ ~config.qdrant
          /\ Goto(p, "upsert")
          /\ UNCHANGED collections
    /\ UNCHANGED <<repoVars, vectors, call, envVars, known, dropped>>

\* The vectors of the chunks that were listed, for the tenant of the call.  An
\* in-memory vector store is a new one for every call: nothing is left of them.
Upserted(p) ==
    LET points == {<<call[p].coll, <<call[p].doc, k>>>> : k \in 1..work[p].count}
    IN IF config.qdrant
       THEN {v \in vectors : <<v[1], v[2]>> \notin points}
            \cup {<<x[1], x[2], call[p].tenant>> : x \in points}
       ELSE vectors

Upsert(p) ==
    /\ pc[p] = "upsert"
    /\ vectors' = Upserted(p)
    /\ Goto(p, "save_record")
    /\ UNCHANGED <<repoVars, collections, call, envVars, known, dropped>>

\* The answer of index_document, or of the ingestion it ends.
Indexed(p) == [status |-> IF call[p].op = "index" THEN "indexed" ELSE "ingested",
               detail |-> "indexed", count |-> work[p].count,
               results |-> {}, texts |-> {}]

\* A unique constraint on the document in place of the chunk.
SaveRecordPerDocument(p) ==
    LET ch == <<call[p].doc, work[p].done + 1>> IN
    /\ pc[p] = "save_record"
    /\ IF config.sql /\ \E k \in 1..MaxChunks : records[<<call[p].doc, k>>] # NoCollection
       THEN /\ Fail(p)
            /\ UNCHANGED records
       ELSE /\ records' = [records EXCEPT ![ch] = call[p].coll]
            /\ IF work[p].done + 1 < work[p].count
               THEN Proceed(p, "save_record", [work[p] EXCEPT !.done = @ + 1])
               ELSE Answer(p, Indexed(p))
    /\ UNCHANGED <<documents, chunks, storeVars, call, envVars, known, dropped>>

\* The embedding record of the next chunk.  The in-memory repository replaces
\* the record of the chunk, the SQL one adds a row, which the unique
\* constraint on (chunk_id, embedding_model, vector_backend) may refuse.
SaveRecord(p) ==
    LET ch == <<call[p].doc, work[p].done + 1>> IN
    /\ pc[p] = "save_record"
    /\ IF config.sql /\ records[ch] # NoCollection
       THEN /\ Fail(p)
            /\ UNCHANGED records
       ELSE /\ records' = [records EXCEPT ![ch] = call[p].coll]
            /\ IF work[p].done + 1 < work[p].count
               THEN Proceed(p, "save_record", [work[p] EXCEPT !.done = @ + 1])
               ELSE Answer(p, Indexed(p))
    /\ UNCHANGED <<documents, chunks, storeVars, call, envVars, known, dropped>>

-----------------------------------------------------------------------------
(* search.                                                                 *)

Finds(mode, results, texts) ==
    [status |-> "searched", detail |-> mode, count |-> 0,
     results |-> results, texts |-> texts]

\* With use_vector, in a collection, or in the repository only.
Search(p, t) ==
    \/ \E c \in Collections :
            Start(p, Asks("search", p, t, c), "vector_search", Ingested)
    \/ Start(p, Asks("search", p, t, NoCollection), "list_documents", Ingested)

\* Documents in the payload are searched without either store.
SearchInline(p) ==
    /\ pc[p] = "idle"
    /\ Answer(p, Finds("inline_lexical", {}, {}))
    /\ UNCHANGED <<repoVars, storeVars, call, envVars, known, dropped>>

\* A vector search without its payload filter.
MatchesUnfiltered(p) == {ch \in Chunk : <<call[p].coll, ch>> \in Stored}

\* The vectors of a collection that carry the tenant.
Matches(p) ==
    {v[2] : v \in {w \in vectors : w[1] = call[p].coll /\ w[3] = call[p].tenant}}

\* Without a match the search goes on with the repository.
VectorSearch(p) ==
    /\ pc[p] = "vector_search"
    /\ \/ /\ ~Absent(p)
          /\ \E found \in Cut(Matches(p)) :
                Proceed(p, IF found = {} THEN "list_documents" ELSE "hydrate",
                        [work[p] EXCEPT !.found = found])
       \/ Absent(p) /\ Fail(p)
    /\ UNCHANGED <<repoVars, storeVars, call, envVars, known, dropped>>

\* The text of a match is that of its chunk, if the repository has it.  Chunks
\* are never removed while the call runs, so one step reads them all.
Hydrate(p) ==
    /\ pc[p] = "hydrate"
    /\ Answer(p, Finds("vector", work[p].found,
                       {ch \in work[p].found : ch \in ChunksOf(ch[1])}))
    /\ UNCHANGED <<repoVars, storeVars, call, envVars, known, dropped>>

\* A fallback that leaves indexed documents to the vector search.
ListDocumentsUnindexed(p) ==
    /\ pc[p] = "list_documents"
    /\ Proceed(p, "collect", [work[p] EXCEPT
                !.todo = {d \in documents : /\ call[d].tenant = call[p].tenant
                                            /\ records[<<d, 1>>] = NoCollection}])
    /\ UNCHANGED <<repoVars, storeVars, call, envVars, known, dropped>>

ListDocuments(p) ==
    /\ pc[p] = "list_documents"
    /\ Proceed(p, "collect", [work[p] EXCEPT
                !.todo = {d \in documents : call[d].tenant = call[p].tenant}])
    /\ UNCHANGED <<repoVars, storeVars, call, envVars, known, dropped>>

\* The chunks of one document after the other, then the best of them.
CollectChunks(p) ==
    /\ pc[p] = "collect"
    /\ \E d \in work[p].todo :
        Proceed(p, "collect", [count |-> 0, done |-> 0, todo |-> work[p].todo \ {d},
                               found |-> work[p].found \cup ChunksOf(d)])
    /\ UNCHANGED <<repoVars, storeVars, call, envVars, known, dropped>>

AnswerLexically(p) ==
    /\ pc[p] = "collect"
    /\ work[p].todo = {}
    /\ \E best \in Cut(work[p].found) :
        Answer(p, Finds("repository_lexical", best, best))
    /\ UNCHANGED <<repoVars, storeVars, call, envVars, known, dropped>>

-----------------------------------------------------------------------------
(* delete_document_vectors: the embedding records stay.                    *)

Delete(p, d, c) ==
    Start(p, Asks("delete", d, NoTenant, c), "delete", {})

\* The vectors of the document in the collection.
Doomed(p) == {v \in Stored : v[1] = call[p].coll /\ v[2][1] = call[p].doc}

DropVectors(p) ==
    /\ vectors' = {v \in vectors : <<v[1], v[2]>> \notin Doomed(p)}
    /\ dropped' = dropped \cup Doomed(p)

DeleteVectors(p) ==
    /\ pc[p] = "delete"
    /\ \/ /\ ~Absent(p)
          /\ DropVectors(p)
          /\ Answer(p, Says("deleted", "none"))
       \/ /\ Absent(p)
          /\ Fail(p)
          /\ UNCHANGED <<vectors, dropped>>
    /\ UNCHANGED <<repoVars, collections, call, envVars, known>>

-----------------------------------------------------------------------------
(* Failures.                                                               *)

\* The database refuses or cannot be reached.
RepositoryError(p) ==
    /\ config.sql
    /\ faults < MaxFaults
    /\ pc[p] \in RepositorySteps
    /\ pc[p] = "collect" => work[p].todo # {}
    /\ faults' = faults + 1
    /\ Fail(p)
    /\ UNCHANGED <<repoVars, storeVars, call, config, known, dropped>>

\* A request to Qdrant fails or times out: Qdrant may have served it.
VectorError(p) ==
    /\ config.qdrant
    /\ faults < MaxFaults
    /\ pc[p] \in VectorSteps
    /\ faults' = faults + 1
    /\ \/ UNCHANGED <<storeVars, dropped>>
       \/ /\ pc[p] = "ensure"
          /\ collections' = collections \cup {call[p].coll}
          /\ UNCHANGED <<vectors, dropped>>
       \/ /\ pc[p] = "upsert"
          /\ vectors' = Upserted(p)
          /\ UNCHANGED <<collections, dropped>>
       \/ /\ pc[p] = "delete" /\ ~Absent(p)
          /\ DropVectors(p)
          /\ UNCHANGED collections
    /\ Fail(p)
    /\ UNCHANGED <<repoVars, call, config, known>>

\* The process restarts: calls in progress get no answer and an in-memory
\* repository is empty again.  Qdrant keeps its vectors.
Restart ==
    /\ faults < MaxFaults
    /\ faults' = faults + 1
    /\ pc' = [p \in Callers |-> IF pc[p] = "idle" THEN "idle" ELSE "over"]
    /\ \/ /\ config.sql
          /\ UNCHANGED repoVars
       \/ /\ ~config.sql
          /\ documents' = {}
          /\ chunks' = [d \in Callers |-> 0]
          /\ records' = [ch \in Chunk |-> NoCollection]
    /\ work' = [p \in Callers |-> NoWork]
    /\ UNCHANGED <<storeVars, call, reply, config, known, dropped>>

-----------------------------------------------------------------------------

\* The document ids there are to name: those of documents that were saved,
\* although a restart may have forgotten them.
Named == {d \in Callers : call[d].op = "ingest" /\ pc[d] # "save_document"}

Request(p) ==
    \/ \E t \in Tenants : Ingest(p, t) \/ Search(p, t)
    \/ \E d \in Named, c \in Collections :
        \/ \E t \in Tenants : Index(p, d, t, c)
        \/ Delete(p, d, c)
    \/ SearchInline(p)
    \/ Refuse(p)

Step(p) ==
    \/ SaveDocument(p) \/ SaveChunk(p)
    \/ GetDocument(p) \/ ListChunks(p)
    \/ EnsureCollection(p) \/ Upsert(p) \/ SaveRecord(p)
    \/ VectorSearch(p) \/ Hydrate(p)
    \/ ListDocuments(p) \/ CollectChunks(p) \/ AnswerLexically(p)
    \/ DeleteVectors(p)

Next ==
    \/ \E p \in Callers :
        Request(p) \/ Step(p) \/ RepositoryError(p) \/ VectorError(p)
    \/ Restart

Spec == Init /\ [][Next]_vars

-----------------------------------------------------------------------------
(* Properties.                                                             *)

\* Every embedding record speaks of a vector that is in its collection, or was
\* there until somebody deleted it: index_document saves no record before the
\* upsert, whatever fails, times out or runs at the same time.
RecordsBacked ==
    config.qdrant =>
        \A ch \in Chunk :
            records[ch] # NoCollection => <<records[ch], ch>> \in Stored \cup dropped

\* An answer that says "indexed" is about chunks that all have their vectors,
\* unless a deletion took them, and, in SQL, their records; and if the
\* ingestion was over when the call began, or is itself the call, it is about
\* every chunk of the document.
IndexedIsComplete ==
    \A p \in Callers : reply[p].detail = "indexed" =>
        LET d == call[p].doc  c == call[p].coll IN
        /\ \A k \in 1..reply[p].count :
            /\ config.qdrant => <<c, <<d, k>>>> \in Stored \cup dropped
            /\ config.sql => records[<<d, k>>] = c
        /\ d \in known[p] \cup {p} => reply[p].count = call[d].size

\* With a repository that survives restarts, every result of a search has its
\* text: a vector is upserted for a stored chunk only, and chunks stay.
DurableEvidence ==
    config.sql => \A p \in Callers : reply[p].results = reply[p].texts

\* A search that falls back to the repository finds what was ingested before
\* it began: as many chunks as those documents have, up to the limit.
IngestedIsFound ==
    \A p \in Callers : reply[p].detail = "repository_lexical" =>
        LET due == {ch \in Chunk : /\ ch[1] \in known[p]
                                   /\ call[ch[1]].tenant = call[p].tenant
                                   /\ ch[2] <= call[ch[1]].size}
        IN  Cardinality(reply[p].results) >= Least(Limit, Cardinality(due))

\* A call that puts vectors of a document into a collection.
Indexes(q, d, c) ==
    call[q].op \in {"ingest", "index"} /\ call[q].doc = d /\ call[q].coll = c

\* Search results are the tenant's: those from the repository are chunks of its
\* documents, and those from a collection were indexed there for the tenant, by
\* the ingestion of its document or by a call that names the tenant, which
\* index_document lets any call do for any document (rag_tools.py:77).
TenantIsolated ==
    \A p \in Callers : \A ch \in reply[p].results :
        \/ call[ch[1]].tenant = call[p].tenant
        \/ /\ reply[p].detail = "vector"
           /\ \E q \in Callers : /\ Indexes(q, ch[1], call[p].coll)
                                /\ call[q].tenant = call[p].tenant

\* Without a failing store and without another call that indexes the same
\* document, an ingestion that asks for vectors gets them, never colliding with
\* records of its own, unless another call indexes into its collection: only
\* the first call that indexes into a collection does not find it there
\* already, which Qdrant refuses (vectorstore.py:107).
CleanIngestIndexed ==
    \A p \in Callers :
        (/\ faults = 0
         /\ call[p].op = "ingest"
         /\ \A q \in Callers \ {p} : call[q].op = "index" => call[q].doc # p)
        => \/ reply[p].status # "error" /\ reply[p].detail # "index_skipped"
           \/ /\ call[p].coll \in collections
              /\ \E q \in Callers \ {p}, d \in Callers : Indexes(q, d, call[p].coll)

\* "Searches repository-backed chunks and returns cited evidence records"
\* (docs/api-guide.md on POST /rag/search): every result has its chunk's text.
EvidenceHasText ==
    \A p \in Callers : reply[p].results = reply[p].texts

=============================================================================
