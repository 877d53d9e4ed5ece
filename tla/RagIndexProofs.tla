--------------------------- MODULE RagIndexProofs ---------------------------
(***************************************************************************)
(* Theorems about documents and vectors, for any number of calls, tenants, *)
(* collections and chunks and every deployment: types, what an embedding   *)
(* record and an "indexed" answer guarantee, where the results of a search *)
(* come from, and which ingestions end up indexed and are found.           *)
(***************************************************************************)
EXTENDS RagIndex, FiniteSetTheorems, TLAPS

-----------------------------------------------------------------------------
(* The inductive invariant.                                                *)

IndexSteps == {"get_document", "list_chunks", "ensure", "upsert", "save_record"}
Listed == {"ensure", "upsert", "save_record"}
SearchSteps == {"vector_search", "hydrate", "list_documents", "collect"}

\* Where a thread may be, by the call it serves.
StageAt(p) ==
    \/ /\ call[p].op = "none"
       /\ pc[p] \in {"idle", "over"}
    \/ /\ call[p].op = "ingest"
       /\ call[p].doc = p
       /\ call[p].tenant \in Tenants
       /\ \/ pc[p] \in {"save_document", "save_chunk"} /\ call[p].coll = NoCollection
          \/ pc[p] \in IndexSteps /\ call[p].coll \in Collections
          \/ pc[p] = "over"
    \/ /\ call[p].op = "index"
       /\ call[p].tenant \in Tenants
       /\ call[p].coll \in Collections
       /\ pc[p] \in {"over"} \cup IndexSteps
    \/ /\ call[p].op = "search"
       /\ pc[p] \in {"over"} \cup SearchSteps
    \/ /\ call[p].op = "delete"
       /\ pc[p] \in {"delete", "over"}

\* What the repository has of the document a call ingests.
DocumentAt(p) ==
    /\ call[p].op # "ingest" => p \notin documents /\ chunks[p] = 0
    /\ pc[p] = "save_document" => p \notin documents /\ chunks[p] = 0
    /\ pc[p] = "save_chunk" => p \in documents /\ chunks[p] < MaxChunks
    /\ call[p].size > 0 =>
        /\ call[p].op = "ingest"
        /\ pc[p] \in {"over"} \cup IndexSteps
        /\ p \in documents => chunks[p] = call[p].size
    /\ call[p].op = "ingest" /\ pc[p] \in IndexSteps =>
        call[p].size > 0 /\ p \in documents
    /\ reply[p].status = "ingested" => call[p].size > 0

\* While a thread runs, the documents it knew of are there, with all chunks.
KnownAt(p) ==
    pc[p] \notin {"idle", "over"} =>
        \A d \in known[p] : d \in documents /\ call[d].size > 0

\* Chunk k of a document has its vector in c, or had it.
Backed(c, d, k) == config.qdrant => <<c, <<d, k>>>> \in Stored \cup dropped

\* How far the indexing of a call has come.
IndexAt(p) ==
    LET d == call[p].doc  c == call[p].coll IN
    /\ pc[p] \in Listed =>
        /\ work[p].count > 0
        /\ work[p].count <= chunks[d]
        /\ d \in known[p] \cup {p} => work[p].count = call[d].size
    /\ pc[p] = "save_record" =>
        /\ work[p].done < work[p].count
        /\ \A k \in 1..work[p].count : Backed(c, d, k)
        /\ \A k \in 1..work[p].done : config.sql => records[<<d, k>>] = c
    /\ pc[p] \in {"ensure", "upsert"} => work[p].done = 0
    /\ pc[p] \notin Listed \cup {"hydrate", "collect"} => work[p] = NoWork

\* A document whose tenant is that of the search.
Admissible(p, d) == call[d].op # "none" /\ call[d].tenant = call[p].tenant

\* A call has indexed document d into c for t, or is about to.
Meant(d, c, t) == \E q \in Callers : Indexes(q, d, c) /\ call[q].tenant = t

\* A document a search may show from its collection.
Indexable(p, d) ==
    call[p].coll \in Collections /\ Meant(d, call[p].coll, call[p].tenant)

\* What a search has gathered.
SearchAt(p) ==
    /\ pc[p] = "hydrate" => \A ch \in work[p].found :
        /\ Indexable(p, ch[1])
        /\ config.sql => ch[2] <= chunks[ch[1]]
    /\ pc[p] = "collect" =>
        /\ \A d \in work[p].todo : Admissible(p, d)
        /\ \A ch \in work[p].found : Admissible(p, ch[1])

\* What an answer has said.
ReplyAt(p) ==
    LET d == call[p].doc  c == call[p].coll IN
    /\ pc[p] # "over" => reply[p] = NoReply
    /\ reply[p].detail = "indexed" =>
        /\ reply[p].count > 0
        /\ \A k \in 1..reply[p].count :
            Backed(c, d, k) /\ (config.sql => c # NoCollection /\ records[<<d, k>>] = c)
        /\ d \in known[p] \cup {p} => reply[p].count = call[d].size
    /\ config.sql => reply[p].results = reply[p].texts
    /\ \A ch \in reply[p].results :
        Admissible(p, ch[1]) \/ (reply[p].detail = "vector" /\ Indexable(p, ch[1]))

CallAt(p) ==
    StageAt(p) /\ DocumentAt(p) /\ KnownAt(p) /\ IndexAt(p) /\ SearchAt(p) /\ ReplyAt(p)

\* A vector is of a call that indexes its document for its tenant, and in SQL of
\* a stored chunk.
VectorsAt ==
    \A c \in Collections, d \in Callers, k \in 1..MaxChunks, t \in Tenants :
        <<c, <<d, k>>, t>> \in vectors =>
            /\ Meant(d, c, t)
            /\ config.sql => k <= chunks[d]

RagInv ==
    /\ TypeOK
    /\ VectorsAt
    /\ RecordsBacked
    /\ \A p \in Callers : CallAt(p)

-----------------------------------------------------------------------------
(* Types.                                                                  *)

Stages == {"idle", "over"} \cup RepositorySteps \cup VectorSteps

LEMMA BoundType == MaxChunks \in Nat \ {0} /\ 0 \in 0..MaxChunks
BY RagAssumption

\* An answer ends a call.
LEMMA AnswerType ==
    ASSUME TypeOK, NEW p \in Callers, NEW answer \in Reply, Answer(p, answer)
    PROVE  /\ pc' \in [Callers -> Stages]
           /\ work' \in [Callers -> Work]
           /\ reply' \in [Callers -> Reply]
<1>1. NoWork \in Work
  BY BoundType DEF NoWork, Work
<1>2. QED
  BY <1>1 DEF TypeOK, Answer, Stages

LEMMA ProceedType ==
    ASSUME TypeOK, NEW p \in Callers, NEW at \in Stages, NEW locals \in Work,
           Proceed(p, at, locals)
    PROVE  /\ pc' \in [Callers -> Stages]
           /\ work' \in [Callers -> Work]
           /\ reply' \in [Callers -> Reply]
BY DEF TypeOK, Proceed, Stages

LEMMA GotoType ==
    ASSUME TypeOK, NEW p \in Callers, NEW at \in Stages, Goto(p, at)
    PROVE  /\ pc' \in [Callers -> Stages]
           /\ work' \in [Callers -> Work]
           /\ reply' \in [Callers -> Reply]
<1>1. work[p] \in Work
  BY DEF TypeOK
<1>2. QED
  BY <1>1, ProceedType DEF Goto

\* The answers without a count.
LEMMA PlainReplies ==
    /\ NoReply \in Reply
    /\ Failed \in Reply
    /\ Says("ingested", "none") \in Reply
    /\ Says("ingested", "index_skipped") \in Reply
    /\ Says("deleted", "none") \in Reply
    /\ Says("delete_skipped", "none") \in Reply
BY BoundType DEF NoReply, Failed, Says, Reply

LEMMA FindsType ==
    ASSUME NEW mode \in {"vector", "repository_lexical", "inline_lexical"},
           NEW results \in SUBSET Chunk, NEW texts \in SUBSET Chunk
    PROVE  Finds(mode, results, texts) \in Reply
BY BoundType DEF Finds, Reply

LEMMA FailType ==
    ASSUME TypeOK, NEW p \in Callers, Fail(p)
    PROVE  /\ pc' \in [Callers -> Stages]
           /\ work' \in [Callers -> Work]
           /\ reply' \in [Callers -> Reply]
<1>1. CASE Answer(p, Failed)
  BY <1>1, PlainReplies, AnswerType
<1>2. CASE Answer(p, Says("ingested", "index_skipped"))
  BY <1>2, PlainReplies, AnswerType
<1>3. CASE Goto(p, "list_documents")
  BY <1>3, GotoType DEF Stages, RepositorySteps
<1>4. CASE Answer(p, Says("delete_skipped", "none"))
  BY <1>4, PlainReplies, AnswerType
<1>5. QED
  BY <1>1, <1>2, <1>3, <1>4 DEF Fail

\* The request that starts a call.
LEMMA StartType ==
    ASSUME TypeOK, NEW p \in Callers, NEW payload \in Call, NEW at \in Stages,
           NEW heard \in SUBSET Callers, Start(p, payload, at, heard)
    PROVE  TypeOK'
BY DEF TypeOK, Start, repoVars, envVars, storeVars, Stages

LEMMA AsksType ==
    ASSUME NEW op \in {"none", "ingest", "index", "search", "delete"},
           NEW d \in Callers, NEW t \in Tenants \cup {NoTenant},
           NEW c \in Collections \cup {NoCollection}
    PROVE  Asks(op, d, t, c) \in Call
BY BoundType DEF Asks, Call

LEMMA ChunkMember ==
    ASSUME NEW d \in Callers, NEW k \in 1..MaxChunks
    PROVE  <<d, k>> \in Chunk
BY DEF Chunk

LEMMA TypeInit == Init => TypeOK
<1> SUFFICES ASSUME Init PROVE TypeOK
  OBVIOUS
<1>1. call \in [Callers -> Call]
  BY AsksType DEF Init
<1>2. work \in [Callers -> Work] /\ reply \in [Callers -> Reply]
  BY BoundType, PlainReplies DEF Init, NoWork, Work
<1>3. QED
  BY <1>1, <1>2, BoundType, RagAssumption DEF Init, TypeOK

\* Actions that change nothing but the thread and its answer.
LEMMA LocalType ==
    ASSUME TypeOK, pc' \in [Callers -> Stages], work' \in [Callers -> Work],
           reply' \in [Callers -> Reply],
           UNCHANGED <<repoVars, storeVars, call, envVars, known, dropped>>
    PROVE  TypeOK'
BY DEF TypeOK, Stages, repoVars, envVars, storeVars

LEMMA RequestType == ASSUME TypeOK, NEW p \in Callers, Request(p) PROVE TypeOK'
<1> USE DEF Stages, RepositorySteps, VectorSteps
<1>1. Ingested \in SUBSET Callers /\ {} \in SUBSET Callers
  BY DEF Ingested, TypeOK
<1>2. ASSUME NEW t \in Tenants, Ingest(p, t) \/ Search(p, t) PROVE TypeOK'
  <2>1. ASSUME NEW op \in {"ingest", "search"}, NEW c \in Collections \cup {NoCollection},
               NEW at \in Stages, NEW heard \in SUBSET Callers,
               Start(p, Asks(op, p, t, c), at, heard)
        PROVE  TypeOK'
    BY <2>1, AsksType, StartType
  <2>2. QED
    BY <1>1, <1>2, <2>1 DEF Ingest, Search
<1>3. ASSUME NEW d \in Named, NEW c \in Collections,
             (\E t \in Tenants : Index(p, d, t, c)) \/ Delete(p, d, c)
      PROVE  TypeOK'
  <2>1. ASSUME NEW op \in {"index", "delete"}, NEW t \in Tenants \cup {NoTenant},
               NEW at \in Stages, NEW heard \in SUBSET Callers,
               Start(p, Asks(op, d, t, c), at, heard)
        PROVE  TypeOK'
    BY <2>1, AsksType, StartType DEF Named
  <2>2. QED
    BY <1>1, <1>3, <2>1 DEF Index, Delete
<1>4. CASE SearchInline(p)
  <2>1. Finds("inline_lexical", {}, {}) \in Reply
    BY FindsType
  <2>2. QED
    BY <1>4, <2>1, AnswerType, LocalType DEF SearchInline
<1>5. CASE Refuse(p)
  BY <1>5, PlainReplies, AnswerType, LocalType DEF Refuse
<1>6. QED
  BY <1>2, <1>3, <1>4, <1>5 DEF Request

\* What the steps assume about the stores they write.
LEMMA UpsertedType ==
    ASSUME TypeOK, NEW p \in Callers, call[p].coll \in Collections,
           call[p].tenant \in Tenants
    PROVE  Upserted(p) \subseteq Collections \X Chunk \X Tenants
<1> DEFINE points == {<<call[p].coll, <<call[p].doc, k>>>> : k \in 1..work[p].count}
<1>1. call[p].doc \in Callers /\ work[p].count \in 0..MaxChunks
  BY DEF TypeOK, Call, Work
<1>2. \A k \in 1..work[p].count : <<call[p].doc, k>> \in Chunk
  BY <1>1, BoundType DEF Chunk
<1>3. \A x \in points : x[1] \in Collections /\ x[2] \in Chunk
  BY <1>2
<1>4. \A x \in points :
        <<x[1], x[2], call[p].tenant>> \in Collections \X Chunk \X Tenants
  BY <1>3
<1>5. vectors \subseteq Collections \X Chunk \X Tenants
  BY DEF TypeOK
<1>6. Upserted(p) \subseteq vectors \cup {<<x[1], x[2], call[p].tenant>> : x \in points}
  BY DEF Upserted
<1>7. QED
  BY <1>4, <1>5, <1>6

LEMMA IngestStepType ==
    ASSUME RagInv, NEW p \in Callers, SaveDocument(p) \/ SaveChunk(p)
    PROVE  TypeOK'
<1> USE DEF Stages, RepositorySteps, VectorSteps
<1>1. TypeOK /\ DocumentAt(p)
  BY DEF RagInv, CallAt
<1>2. CASE SaveDocument(p)
  <2>1. pc' \in [Callers -> Stages] /\ work' \in [Callers -> Work]
        /\ reply' \in [Callers -> Reply]
    BY <1>1, <1>2, GotoType DEF SaveDocument
  <2>2. QED
    BY <1>1, <1>2, <2>1 DEF TypeOK, SaveDocument, envVars, storeVars
<1>3. CASE SaveChunk(p)
  <2>1. chunks[p] \in 0..MaxChunks /\ chunks[p] < MaxChunks
    BY <1>1, <1>3 DEF SaveChunk, DocumentAt, TypeOK
  <2>2. chunks[p] + 1 \in 0..MaxChunks
    BY <2>1, BoundType
  <2>3. chunks' \in [Callers -> 0..MaxChunks]
    BY <1>1, <1>3, <2>2 DEF SaveChunk, TypeOK
  <2>4. call[p] \in Call
    BY <1>1 DEF TypeOK
  <2>5. [call[p] EXCEPT !.size = chunks[p] + 1] \in Call
    BY <2>2, <2>4 DEF Call
  <2>6. call' \in [Callers -> Call]
    BY <1>1, <1>3, <2>5 DEF SaveChunk, TypeOK
  <2>7. pc' \in [Callers -> Stages] /\ work' \in [Callers -> Work]
        /\ reply' \in [Callers -> Reply]
    BY <1>1, <1>3, GotoType, AnswerType, PlainReplies DEF SaveChunk
  <2>8. QED
    BY <1>1, <1>3, <2>3, <2>6, <2>7 DEF TypeOK, SaveChunk, envVars, storeVars
<1>4. QED
  BY <1>2, <1>3

LEMMA IndexStepType ==
    ASSUME RagInv, NEW p \in Callers,
           \/ GetDocument(p) \/ ListChunks(p) \/ EnsureCollection(p)
           \/ Upsert(p) \/ SaveRecord(p)
    PROVE  TypeOK'
<1> USE DEF Stages, RepositorySteps, VectorSteps
<1>1. TypeOK /\ StageAt(p) /\ IndexAt(p) /\ work[p] \in Work /\ call[p] \in Call
  BY DEF RagInv, CallAt, TypeOK
<1>2. CASE GetDocument(p)
  BY <1>1, <1>2, GotoType, FailType, LocalType DEF GetDocument
<1>3. CASE ListChunks(p)
  <2>1. chunks[call[p].doc] \in 0..MaxChunks
    BY <1>1 DEF TypeOK, Call
  <2>2. [work[p] EXCEPT !.count = chunks[call[p].doc]] \in Work
    BY <1>1, <2>1 DEF Work
  <2>3. QED
    BY <1>1, <1>3, <2>2, ProceedType, FailType, LocalType DEF ListChunks
<1>4. CASE EnsureCollection(p)
  <2>1. call[p].coll \in Collections
    BY <1>1, <1>4 DEF EnsureCollection, StageAt, SearchSteps, IndexSteps
  <2>2. collections' \subseteq Collections
    BY <1>1, <1>4, <2>1 DEF EnsureCollection, TypeOK
  <2>3. pc' \in [Callers -> Stages] /\ work' \in [Callers -> Work]
        /\ reply' \in [Callers -> Reply]
    BY <1>1, <1>4, GotoType, FailType DEF EnsureCollection
  <2>4. QED
    BY <1>1, <1>4, <2>2, <2>3 DEF TypeOK, EnsureCollection, repoVars, envVars
<1>5. CASE Upsert(p)
  <2>1. call[p].coll \in Collections /\ call[p].tenant \in Tenants
    BY <1>1, <1>5 DEF Upsert, StageAt, SearchSteps, IndexSteps
  <2>2. vectors' \subseteq Collections \X Chunk \X Tenants
    BY <1>1, <1>5, <2>1, UpsertedType DEF Upsert
  <2>3. pc' \in [Callers -> Stages] /\ work' \in [Callers -> Work]
        /\ reply' \in [Callers -> Reply]
    BY <1>1, <1>5, GotoType DEF Upsert
  <2>4. QED
    BY <1>1, <1>5, <2>2, <2>3 DEF TypeOK, Upsert, repoVars, envVars, storeVars
<1>6. CASE SaveRecord(p)
  <2> DEFINE ch == <<call[p].doc, work[p].done + 1>>
  <2>1. work[p].done \in 0..MaxChunks /\ work[p].count \in 0..MaxChunks
        /\ work[p].done < work[p].count
    BY <1>1, <1>6 DEF Work, SaveRecord, IndexAt
  <2>2. work[p].done + 1 \in 0..MaxChunks
    BY <2>1, BoundType
  <2>3. [work[p] EXCEPT !.done = @ + 1] \in Work
    BY <1>1, <2>2 DEF Work
  <2>4. Indexed(p) \in Reply
    BY <1>1 DEF Indexed, Reply, Work
  <2>5. pc' \in [Callers -> Stages] /\ work' \in [Callers -> Work]
        /\ reply' \in [Callers -> Reply]
    BY <1>1, <1>6, <2>3, <2>4, ProceedType, AnswerType, FailType DEF SaveRecord
  <2>6. call[p].coll \in Collections \cup {NoCollection}
    BY <1>1 DEF Call
  <2>7. records' \in [Chunk -> Collections \cup {NoCollection}]
    BY <1>1, <1>6, <2>6 DEF SaveRecord, TypeOK
  <2>8. QED
    BY <1>1, <1>6, <2>5, <2>7 DEF TypeOK, SaveRecord, envVars, storeVars
<1>7. QED
  BY <1>2, <1>3, <1>4, <1>5, <1>6

LEMMA ChunksOfType ==
    ASSUME TypeOK, NEW d \in Callers
    PROVE  ChunksOf(d) \subseteq Chunk
<1>1. chunks[d] \in 0..MaxChunks
  BY DEF TypeOK
<1>2. QED
  BY <1>1, BoundType DEF ChunksOf, Chunk

LEMMA MatchType ==
    ASSUME TypeOK, NEW p \in Callers, NEW ch \in Matches(p)
    PROVE  ch \in Chunk /\ call[p].coll \in Collections /\ call[p].tenant \in Tenants
           /\ <<call[p].coll, ch, call[p].tenant>> \in vectors
<1>1. PICK v \in vectors : v[1] = call[p].coll /\ v[3] = call[p].tenant /\ ch = v[2]
  BY DEF Matches
<1>2. v \in Collections \X Chunk \X Tenants
  BY DEF TypeOK
<1>3. v = <<v[1], v[2], v[3]>> /\ v[1] \in Collections /\ v[2] \in Chunk
      /\ v[3] \in Tenants
  BY <1>2
<1>4. QED
  BY <1>1, <1>3

LEMMA SearchStepType ==
    ASSUME TypeOK, NEW p \in Callers,
           \/ VectorSearch(p) \/ Hydrate(p) \/ ListDocuments(p)
           \/ CollectChunks(p) \/ AnswerLexically(p)
    PROVE  TypeOK'
<1> USE DEF Stages, RepositorySteps, VectorSteps
<1>1. work[p] \in Work /\ work[p].found \subseteq Chunk /\ work[p].todo \subseteq Callers
  BY DEF TypeOK, Work
<1>2. CASE VectorSearch(p) /\ ~Absent(p)
  <2>1. PICK found \in Cut(Matches(p)) :
          Proceed(p, IF found = {} THEN "list_documents" ELSE "hydrate",
                  [work[p] EXCEPT !.found = found])
    BY <1>2 DEF VectorSearch
  <2>2. found \subseteq Chunk
    BY <2>1, MatchType DEF Cut
  <2>3. [work[p] EXCEPT !.found = found] \in Work
    BY <1>1, <2>2 DEF Work
  <2>4. QED
    BY <1>2, <2>1, <2>3, ProceedType, LocalType DEF VectorSearch
<1>2a. CASE VectorSearch(p) /\ Absent(p)
  BY <1>2a, FailType, LocalType DEF VectorSearch
<1>3. CASE Hydrate(p)
  <2>1. Finds("vector", work[p].found,
              {ch \in work[p].found : ch \in ChunksOf(ch[1])}) \in Reply
    BY <1>1, FindsType
  <2>2. QED
    BY <1>3, <2>1, AnswerType, LocalType DEF Hydrate
<1>4. CASE ListDocuments(p)
  <2>1. [work[p] EXCEPT
            !.todo = {d \in documents : call[d].tenant = call[p].tenant}] \in Work
    BY <1>1 DEF Work, TypeOK
  <2>2. QED
    BY <1>4, <2>1, ProceedType, LocalType DEF ListDocuments
<1>5. CASE CollectChunks(p)
  <2>1. PICK d \in work[p].todo :
          Proceed(p, "collect", [count |-> 0, done |-> 0, todo |-> work[p].todo \ {d},
                                 found |-> work[p].found \cup ChunksOf(d)])
    BY <1>5 DEF CollectChunks
  <2>2. [count |-> 0, done |-> 0, todo |-> work[p].todo \ {d},
         found |-> work[p].found \cup ChunksOf(d)] \in Work
    BY <1>1, <2>1, BoundType, ChunksOfType DEF Work
  <2>3. QED
    BY <1>5, <2>1, <2>2, ProceedType, LocalType DEF CollectChunks
<1>6. CASE AnswerLexically(p)
  <2>1. PICK best \in Cut(work[p].found) :
          Answer(p, Finds("repository_lexical", best, best))
    BY <1>6 DEF AnswerLexically
  <2>2. best \subseteq Chunk
    BY <1>1, <2>1 DEF Cut
  <2>3. QED
    BY <1>6, <2>1, <2>2, FindsType, AnswerType, LocalType DEF AnswerLexically
<1>7. QED
  BY <1>2, <1>2a, <1>3, <1>4, <1>5, <1>6

LEMMA DropType ==
    ASSUME TypeOK, NEW p \in Callers, DropVectors(p)
    PROVE  /\ vectors' \subseteq Collections \X Chunk \X Tenants
           /\ dropped' \subseteq Collections \X Chunk
<1>1. Stored \subseteq Collections \X Chunk
  <2>1. ASSUME NEW v \in vectors PROVE <<v[1], v[2]>> \in Collections \X Chunk
    BY DEF TypeOK
  <2>2. QED
    BY <2>1 DEF Stored
<1>2. Doomed(p) \subseteq Stored
  BY DEF Doomed
<1>3. QED
  BY <1>1, <1>2 DEF TypeOK, DropVectors

LEMMA DeleteType == ASSUME TypeOK, NEW p \in Callers, DeleteVectors(p) PROVE TypeOK'
<1>1. pc' \in [Callers -> Stages] /\ work' \in [Callers -> Work]
      /\ reply' \in [Callers -> Reply]
  BY PlainReplies, AnswerType, FailType DEF DeleteVectors
<1>2. /\ vectors' \subseteq Collections \X Chunk \X Tenants
      /\ dropped' \subseteq Collections \X Chunk
  BY DropType DEF DeleteVectors, TypeOK
<1>3. QED
  BY <1>1, <1>2 DEF TypeOK, DeleteVectors, Stages, repoVars, envVars

LEMMA FaultType ==
    ASSUME RagInv, NEW p \in Callers, RepositoryError(p) \/ VectorError(p)
    PROVE  TypeOK'
<1>1. TypeOK /\ StageAt(p)
  BY DEF RagInv, CallAt
<1>2. pc' \in [Callers -> Stages] /\ work' \in [Callers -> Work]
      /\ reply' \in [Callers -> Reply]
  BY <1>1, FailType DEF RepositoryError, VectorError
<1>3. faults' \in 0..MaxFaults
  BY <1>1, RagAssumption DEF RepositoryError, VectorError, TypeOK
<1>4. CASE RepositoryError(p)
  BY <1>1, <1>2, <1>3, <1>4 DEF TypeOK, RepositoryError, Stages, repoVars, storeVars
<1>5. CASE VectorError(p)
  <2>1. pc[p] \in {"ensure", "upsert"} =>
            call[p].coll \in Collections /\ call[p].tenant \in Tenants
    BY <1>1 DEF StageAt, SearchSteps, IndexSteps
  <2>2. collections' \subseteq Collections
    BY <1>1, <1>5, <2>1 DEF TypeOK, VectorError, storeVars
  <2>3. /\ vectors' \subseteq Collections \X Chunk \X Tenants
        /\ dropped' \subseteq Collections \X Chunk
    <3>1. CASE vectors' = vectors /\ dropped' = dropped
      BY <1>1, <3>1 DEF TypeOK
    <3>2. CASE pc[p] = "upsert" /\ vectors' = Upserted(p) /\ dropped' = dropped
      BY <1>1, <2>1, <3>2, UpsertedType DEF TypeOK
    <3>3. CASE DropVectors(p)
      BY <1>1, <3>3, DropType
    <3>4. QED
      BY <1>5, <3>1, <3>2, <3>3 DEF VectorError, storeVars
  <2>4. QED
    BY <1>1, <1>2, <1>3, <1>5, <2>2, <2>3 DEF TypeOK, VectorError, Stages, repoVars
<1>6. QED
  BY <1>4, <1>5

LEMMA RestartType == ASSUME TypeOK, Restart PROVE TypeOK'
<1>1. NoWork \in Work
  BY BoundType DEF NoWork, Work
<1>2. faults' \in 0..MaxFaults
  BY RagAssumption DEF Restart, TypeOK
<1>3. QED
  BY <1>1, <1>2, BoundType DEF TypeOK, Restart, repoVars, storeVars

LEMMA TypeStep == ASSUME RagInv, [Next]_vars PROVE TypeOK'
<1>1. TypeOK
  BY DEF RagInv
<1>2. CASE Restart
  BY <1>1, <1>2, RestartType
<1>3. ASSUME NEW p \in Callers,
             Request(p) \/ Step(p) \/ RepositoryError(p) \/ VectorError(p)
      PROVE  TypeOK'
  BY <1>1, <1>3, RequestType, IngestStepType, IndexStepType, SearchStepType,
     DeleteType, FaultType DEF Step
<1>4. CASE UNCHANGED vars
  BY <1>1, <1>4 DEF vars, TypeOK
<1>5. QED
  BY <1>2, <1>3, <1>4 DEF Next

-----------------------------------------------------------------------------
(* What a step of one thread means to the others.                          *)

\* What every step but a restart keeps.
Kept ==
    /\ config' = config
    /\ documents \subseteq documents'
    /\ \A d \in Callers : chunks[d] <= chunks'[d]
    /\ \A d \in Callers : call[d].op # "none" =>
        /\ call'[d].op = call[d].op /\ call'[d].doc = call[d].doc
        /\ call'[d].tenant = call[d].tenant
        /\ call[d].coll \in Collections => call'[d].coll = call[d].coll
    /\ \A d \in Callers : call[d].size > 0 => call'[d].size = call[d].size
    /\ Stored \cup dropped \subseteq Stored' \cup dropped'
    /\ config.sql =>
        \A ch \in Chunk : records[ch] # NoCollection => records'[ch] = records[ch]

\* Thread q has not moved, and what it asks for is the same.
Still(q) ==
    /\ pc'[q] = pc[q]
    /\ work'[q] = work[q]
    /\ reply'[q] = reply[q]
    /\ known'[q] = known[q]
    /\ call'[q] = call[q]

\* The repository has as much of the document of q as before.
Same(q) == (q \in documents' <=> q \in documents) /\ chunks'[q] = chunks[q]

\* Members of the well-typed state that the steps below look at.
LEMMA Members ==
    ASSUME TypeOK, NEW p \in Callers
    PROVE  /\ call[p] \in Call /\ call[p].doc \in Callers /\ call[p].size \in 0..MaxChunks
           /\ call[p].coll \in Collections \cup {NoCollection}
           /\ work[p] \in Work /\ work[p].count \in 0..MaxChunks
           /\ work[p].done \in 0..MaxChunks /\ work[p].todo \subseteq Callers
           /\ work[p].found \subseteq Chunk
           /\ reply[p] \in Reply /\ reply[p].count \in 0..MaxChunks
           /\ reply[p].results \subseteq Chunk
           /\ chunks[p] \in 0..MaxChunks /\ known[p] \subseteq Callers
<1>1. call[p] \in Call /\ work[p] \in Work /\ reply[p] \in Reply
  BY DEF TypeOK
<1>2. chunks[p] \in 0..MaxChunks /\ known[p] \subseteq Callers
  BY DEF TypeOK
<1>3. QED
  BY <1>1, <1>2 DEF Call, Work, Reply

LEMMA ChunkParts ==
    ASSUME NEW ch \in Chunk
    PROVE  ch[1] \in Callers /\ ch[2] \in 1..MaxChunks /\ ch = <<ch[1], ch[2]>>
BY DEF Chunk

\* A chunk that was backed stays so, and its record in SQL stays.
LEMMA BackedKept ==
    ASSUME Kept, NEW c, NEW d, NEW k, Backed(c, d, k)
    PROVE  Backed(c, d, k)'
BY DEF Kept, Backed

LEMMA RecordKept ==
    ASSUME Kept, NEW c, NEW d \in Callers, NEW k \in 1..MaxChunks, config.sql,
           c # NoCollection, records[<<d, k>>] = c
    PROVE  records'[<<d, k>>] = c
BY ChunkMember DEF Kept

LEMMA AdmissibleKept ==
    ASSUME Kept, NEW q \in Callers, NEW d \in Callers, Admissible(q, d),
           call'[q].tenant = call[q].tenant
    PROVE  Admissible(q, d)'
BY DEF Kept, Admissible

LEMMA MeantKept ==
    ASSUME Kept, NEW d \in Callers, NEW c \in Collections, NEW t, Meant(d, c, t)
    PROVE  Meant(d, c, t)'
<1>1. PICK q \in Callers : Indexes(q, d, c) /\ call[q].tenant = t
  BY DEF Meant
<1>2. call'[q].op = call[q].op /\ call'[q].doc = d /\ call'[q].coll = c
      /\ call'[q].tenant = t
  BY <1>1 DEF Indexes, Kept
<1>3. QED
  BY <1>1, <1>2 DEF Meant, Indexes

LEMMA IndexableKept ==
    ASSUME Kept, NEW q \in Callers, NEW d \in Callers, Indexable(q, d),
           call'[q] = call[q]
    PROVE  Indexable(q, d)'
<1>1. Meant(d, call[q].coll, call[q].tenant)'
  BY MeantKept DEF Indexable
<1>2. QED
  BY <1>1 DEF Indexable, Meant, Indexes

LEMMA KnownKept ==
    ASSUME RagInv, Kept, NEW q \in Callers, known'[q] = known[q],
           pc[q] \notin {"idle", "over"}
    PROVE  KnownAt(q)'
<1>1. TypeOK /\ KnownAt(q)
  BY DEF RagInv, CallAt
<1>2. known[q] \subseteq Callers
  BY <1>1, Members
<1>3. QED
  BY <1>1, <1>2 DEF KnownAt, Kept

LEMMA ReplyKept ==
    ASSUME RagInv, Kept, NEW q \in Callers, reply'[q] = reply[q], known'[q] = known[q],
           call'[q] = call[q], pc[q] = "over" => pc'[q] = "over"
    PROVE  ReplyAt(q)'
<1> DEFINE d == call[q].doc
           c == call[q].coll
<1>1. TypeOK /\ ReplyAt(q) /\ config' = config
  BY DEF RagInv, CallAt, Kept
<1>2. d \in Callers /\ reply[q].count \in 0..MaxChunks /\ reply[q].results \subseteq Chunk
  BY <1>1, Members
<1>3. ASSUME reply[q].detail = "indexed"
      PROVE  /\ reply[q].count > 0
             /\ \A k \in 1..reply[q].count :
                 /\ Backed(c, d, k)'
                 /\ config.sql => c # NoCollection /\ records'[<<d, k>>] = c
             /\ d \in known[q] \cup {q} => reply[q].count = call'[d].size
  <2>1. reply[q].count > 0
    BY <1>1, <1>3 DEF ReplyAt
  <2>2. ASSUME NEW k \in 1..reply[q].count
        PROVE  /\ Backed(c, d, k)'
               /\ config.sql => c # NoCollection /\ records'[<<d, k>>] = c
    <3>1. Backed(c, d, k) /\ (config.sql => c # NoCollection /\ records[<<d, k>>] = c)
      BY <1>1, <1>3, <2>2 DEF ReplyAt
    <3>2. k \in 1..MaxChunks
      BY <1>2, <2>2, BoundType
    <3>3. Backed(c, d, k)'
      BY <3>1 DEF Kept, Backed
    <3>4. QED
      BY <1>2, <3>1, <3>2, <3>3, RecordKept
  <2>3. d \in known[q] \cup {q} => reply[q].count = call'[d].size
    BY <1>1, <1>2, <1>3, <2>1 DEF ReplyAt, Kept
  <2>4. QED
    BY <2>1, <2>2, <2>3
<1>4. \A ch \in reply[q].results :
        Admissible(q, ch[1])' \/ (reply[q].detail = "vector" /\ Indexable(q, ch[1])')
  BY <1>1, <1>2, ChunkParts, AdmissibleKept, IndexableKept DEF ReplyAt
<1>5. pc'[q] # "over" => reply'[q] = NoReply
  BY <1>1 DEF ReplyAt
<1>6. QED
  BY <1>1, <1>3, <1>4, <1>5 DEF ReplyAt, Backed

LEMMA SearchKept ==
    ASSUME RagInv, TypeOK', Kept, NEW q \in Callers, pc'[q] = pc[q], work'[q] = work[q],
           call'[q] = call[q]
    PROVE  SearchAt(q)'
<1>1. TypeOK /\ SearchAt(q) /\ config' = config
  BY DEF RagInv, CallAt, Kept
<1>2. work[q].found \subseteq Chunk /\ work[q].todo \subseteq Callers
  BY <1>1, Members
<1>3. ASSUME pc[q] = "collect"
      PROVE  /\ \A d \in work[q].todo : Admissible(q, d)'
             /\ \A ch \in work[q].found : Admissible(q, ch[1])'
  BY <1>1, <1>2, <1>3, ChunkParts, AdmissibleKept DEF SearchAt
<1>4. ASSUME pc[q] = "hydrate", NEW ch \in work[q].found
      PROVE  /\ Indexable(q, ch[1])'
             /\ config.sql => ch[2] <= chunks'[ch[1]]
  <2>1. ch[1] \in Callers /\ ch[2] \in 1..MaxChunks
    BY <1>2, <1>4, ChunkParts
  <2>2. Indexable(q, ch[1])'
    BY <1>1, <1>4, <2>1, IndexableKept DEF SearchAt
  <2>3. chunks[ch[1]] \in 0..MaxChunks /\ chunks[ch[1]] <= chunks'[ch[1]]
    BY <1>1, <2>1, Members DEF Kept
  <2>4. chunks'[ch[1]] \in 0..MaxChunks
    BY <2>1 DEF TypeOK
  <2>5. ASSUME config.sql PROVE ch[2] <= chunks'[ch[1]]
    <3>1. ch[2] <= chunks[ch[1]]
      BY <1>1, <1>4, <2>5 DEF SearchAt
    <3>2. QED
      BY <2>1, <2>3, <2>4, <3>1, BoundType
  <2>6. QED
    BY <2>2, <2>5
<1>5. QED
  BY <1>1, <1>3, <1>4 DEF SearchAt

LEMMA IndexKept ==
    ASSUME RagInv, TypeOK', Kept, NEW q \in Callers, Still(q)
    PROVE  IndexAt(q)'
<1> DEFINE d == call[q].doc
           c == call[q].coll
<1>1. TypeOK /\ StageAt(q) /\ IndexAt(q) /\ config' = config
  BY DEF RagInv, CallAt, Kept
<1>2. d \in Callers /\ work[q].count \in 0..MaxChunks /\ work[q].done \in 0..MaxChunks
  BY <1>1, Members
<1>3. ASSUME pc[q] \in Listed
      PROVE  /\ work[q].count > 0
             /\ work[q].count <= chunks'[d]
             /\ d \in known[q] \cup {q} => work[q].count = call'[d].size
  <2>1. work[q].count > 0 /\ work[q].count <= chunks[d]
        /\ (d \in known[q] \cup {q} => work[q].count = call[d].size)
    BY <1>1, <1>3 DEF IndexAt
  <2>2. /\ chunks[d] \in 0..MaxChunks /\ chunks'[d] \in 0..MaxChunks
        /\ chunks[d] <= chunks'[d]
    BY <1>1, <1>2 DEF TypeOK, Kept
  <2>3. QED
    BY <1>2, <2>1, <2>2, BoundType DEF Kept
<1>4. ASSUME pc[q] = "save_record"
      PROVE  /\ work[q].done < work[q].count
             /\ \A k \in 1..work[q].count : Backed(c, d, k)'
             /\ \A k \in 1..work[q].done : config.sql => records'[<<d, k>>] = c
  <2>1. /\ work[q].done < work[q].count
        /\ \A k \in 1..work[q].count : Backed(c, d, k)
        /\ \A k \in 1..work[q].done : config.sql => records[<<d, k>>] = c
    BY <1>1, <1>4 DEF IndexAt
  <2>2. c # NoCollection
    BY <1>1, <1>4, RagAssumption DEF StageAt, SearchSteps
  <2>3. \A k \in 1..work[q].done : k \in 1..MaxChunks
    BY <1>2, BoundType
  <2>4. \A k \in 1..work[q].count : Backed(c, d, k)'
    BY <2>1 DEF Backed, Kept, Still
  <2>5. \A k \in 1..work[q].done : config.sql => records'[<<d, k>>] = c
    BY <1>2, <2>1, <2>2, <2>3, RecordKept
  <2>6. QED
    BY <2>1, <2>4, <2>5
<1>5. pc[q] \in {"ensure", "upsert"} => work[q].done = 0
  BY <1>1 DEF IndexAt
<1>6. pc[q] \notin Listed \cup {"hydrate", "collect"} => work[q] = NoWork
  BY <1>1 DEF IndexAt
<1>7. QED
  BY <1>1, <1>3, <1>4, <1>5, <1>6 DEF Still, IndexAt, Backed

\* A step that leaves a thread and its document alone keeps what is true of it.
LEMMA CallKept ==
    ASSUME RagInv, TypeOK', Kept, NEW q \in Callers, Still(q), Same(q)
    PROVE  CallAt(q)'
<1>1. TypeOK /\ StageAt(q) /\ DocumentAt(q) /\ KnownAt(q)
  BY DEF RagInv, CallAt
<1>2. StageAt(q)'
  BY <1>1 DEF StageAt, Still
<1>3. DocumentAt(q)'
  BY <1>1 DEF DocumentAt, Still, Same
<1>4. KnownAt(q)'
  <2>1. CASE pc[q] \in {"idle", "over"}
    BY <2>1 DEF KnownAt, Still
  <2>2. CASE pc[q] \notin {"idle", "over"}
    BY <2>2, KnownKept DEF Still
  <2>3. QED
    BY <2>1, <2>2
<1>5. IndexAt(q)' /\ SearchAt(q)' /\ ReplyAt(q)'
  BY IndexKept, SearchKept, ReplyKept DEF Still
<1>6. QED
  BY <1>2, <1>3, <1>4, <1>5 DEF CallAt

\* The other threads and their documents.
Alone(p) == \A q \in Callers \ {p} : Still(q) /\ Same(q)

\* Vectors and records: a step of a thread keeps them if it adds none.
LEMMA VectorsKept ==
    ASSUME RagInv, TypeOK', Kept, vectors' \subseteq vectors
    PROVE  VectorsAt'
<1>1. TypeOK /\ VectorsAt /\ config' = config
  BY DEF RagInv, Kept
<1>2. ASSUME NEW c \in Collections, NEW d \in Callers, NEW k \in 1..MaxChunks,
             NEW t \in Tenants, <<c, <<d, k>>, t>> \in vectors'
      PROVE  Meant(d, c, t)' /\ (config'.sql => k <= chunks'[d])
  <2>1. Meant(d, c, t) /\ (config.sql => k <= chunks[d])
    BY <1>1, <1>2 DEF VectorsAt
  <2>2. /\ chunks[d] \in 0..MaxChunks /\ chunks'[d] \in 0..MaxChunks
        /\ chunks[d] <= chunks'[d]
    BY <1>1, <1>2 DEF TypeOK, Kept
  <2>3. Meant(d, c, t)'
    BY <2>1, MeantKept
  <2>4. QED
    BY <1>1, <1>2, <2>1, <2>2, <2>3, BoundType
<1>3. QED
  BY <1>2 DEF VectorsAt

LEMMA RecordsKept ==
    ASSUME RagInv, Kept, UNCHANGED records
    PROVE  RecordsBacked'
BY DEF RagInv, Kept, RecordsBacked

\* What is left to show of a step: that what is true of the thread stays so.
LEMMA StepFrame ==
    ASSUME RagInv, TypeOK', NEW p \in Callers, Kept, Alone(p), CallAt(p)',
           VectorsAt', RecordsBacked'
    PROVE  RagInv'
<1>1. \A q \in Callers \ {p} : CallAt(q)'
  BY CallKept DEF Alone
<1>2. QED
  BY <1>1 DEF RagInv

-----------------------------------------------------------------------------
(* What a step means to its own thread.                                    *)

LEMMA MoveEffect ==
    ASSUME TypeOK, NEW p \in Callers, NEW at, NEW locals, Proceed(p, at, locals)
    PROVE  /\ pc'[p] = at /\ work'[p] = locals /\ reply'[p] = reply[p]
           /\ \A q \in Callers \ {p} :
                pc'[q] = pc[q] /\ work'[q] = work[q] /\ reply'[q] = reply[q]
BY DEF TypeOK, Proceed

LEMMA AnswerEffect ==
    ASSUME TypeOK, NEW p \in Callers, NEW answer, Answer(p, answer)
    PROVE  /\ pc'[p] = "over" /\ work'[p] = NoWork /\ reply'[p] = answer
           /\ \A q \in Callers \ {p} :
                pc'[q] = pc[q] /\ work'[q] = work[q] /\ reply'[q] = reply[q]
BY DEF TypeOK, Answer

\* A step that touches neither store nor the calls keeps everything.
LEMMA LocalKept ==
    ASSUME TypeOK, UNCHANGED <<repoVars, vectors, call, config, dropped>>
    PROVE  Kept /\ \A q \in Callers : Same(q)
BY DEF TypeOK, Kept, Same, Stored, repoVars

LEMMA SaysReply ==
    ASSUME NEW p \in Callers, NEW status, NEW detail, detail # "indexed",
           pc'[p] = "over", reply'[p] = Says(status, detail)
    PROVE  ReplyAt(p)'
BY DEF ReplyAt, Says

LEMMA NoReplyAt ==
    ASSUME NEW p \in Callers, reply'[p] = NoReply
    PROVE  ReplyAt(p)'
BY DEF ReplyAt, NoReply, Says

\* The thread ends with an answer that is true.
LEMMA Ended ==
    ASSUME RagInv, NEW p \in Callers, pc'[p] = "over", work'[p] = NoWork,
           call'[p] = call[p], known'[p] = known[p], Same(p),
           reply'[p].status = "ingested" => call[p].size > 0,
           ReplyAt(p)'
    PROVE  CallAt(p)'
<1>1. StageAt(p) /\ DocumentAt(p)
  BY DEF RagInv, CallAt
<1>2. StageAt(p)'
  BY <1>1 DEF StageAt
<1>3. DocumentAt(p)'
  BY <1>1 DEF DocumentAt, Same, IndexSteps
<1>4. KnownAt(p)' /\ IndexAt(p)' /\ SearchAt(p)'
  BY DEF KnownAt, IndexAt, SearchAt, Listed
<1>5. QED
  BY <1>2, <1>3, <1>4 DEF CallAt

\* The thread goes on to another call of a store.
LEMMA Moved ==
    ASSUME RagInv, Kept, NEW p \in Callers, pc[p] \notin {"idle", "over"},
           pc'[p] \in IndexSteps \cup SearchSteps,
           call[p].op = "ingest" => pc[p] \in IndexSteps,
           reply'[p] = reply[p], call'[p] = call[p], known'[p] = known[p], Same(p),
           StageAt(p)', IndexAt(p)', SearchAt(p)'
    PROVE  CallAt(p)'
<1>1. StageAt(p) /\ DocumentAt(p) /\ ReplyAt(p)
  BY DEF RagInv, CallAt
<1>2. pc'[p] \notin {"save_document", "save_chunk", "over", "idle"}
  BY DEF IndexSteps, SearchSteps
<1>3. DocumentAt(p)'
  <2>1. call[p].size > 0 =>
            call[p].op = "ingest" /\ (p \in documents => chunks[p] = call[p].size)
    BY <1>1 DEF DocumentAt
  <2>2. call[p].op = "ingest" => pc'[p] \in IndexSteps
    BY <1>2 DEF StageAt
  <2>3. call[p].op = "ingest" => call[p].size > 0 /\ p \in documents
    BY <1>1 DEF DocumentAt
  <2>4. call[p].op # "ingest" => p \notin documents /\ chunks[p] = 0
    BY <1>1 DEF DocumentAt
  <2>5. reply[p].status = "ingested" => call[p].size > 0
    BY <1>1 DEF DocumentAt
  <2>6. QED
    BY <1>2, <2>1, <2>2, <2>3, <2>4, <2>5 DEF DocumentAt, Same
<1>4. KnownAt(p)'
  BY KnownKept
<1>5. ReplyAt(p)'
  BY <1>1, NoReplyAt DEF ReplyAt
<1>6. QED
  BY <1>3, <1>4, <1>5 DEF CallAt

\* An exception: of a thread that is neither idle nor over.
LEMMA Failing ==
    ASSUME RagInv, TypeOK', Kept, NEW p \in Callers, Fail(p),
           pc[p] \notin {"idle", "over"}, UNCHANGED <<call, known>>, Same(p)
    PROVE  CallAt(p)' /\ \A q \in Callers \ {p} : Still(q)
<1>1. TypeOK /\ StageAt(p) /\ DocumentAt(p) /\ IndexAt(p)
  BY DEF RagInv, CallAt
<1>2. CASE Answer(p, Failed)
  <2>1. pc'[p] = "over" /\ work'[p] = NoWork /\ reply'[p] = Says("error", "none")
    BY <1>1, <1>2, AnswerEffect DEF Failed
  <2>2. reply'[p].status # "ingested" /\ ReplyAt(p)'
    BY <2>1, SaysReply DEF Says
  <2>3. CallAt(p)'
    BY <2>1, <2>2, Ended
  <2>4. QED
    BY <1>1, <1>2, <2>3, AnswerEffect DEF Still
<1>3. CASE /\ call[p].op = "ingest"
           /\ pc[p] \notin {"save_document", "save_chunk"}
           /\ Answer(p, Says("ingested", "index_skipped"))
  <2>1. pc'[p] = "over" /\ work'[p] = NoWork
        /\ reply'[p] = Says("ingested", "index_skipped")
    BY <1>1, <1>3, AnswerEffect
  <2>2. pc[p] \in IndexSteps
    BY <1>1, <1>3 DEF StageAt
  <2>3. call[p].size > 0
    BY <1>1, <1>3, <2>2 DEF DocumentAt
  <2>4. ReplyAt(p)'
    BY <2>1, SaysReply
  <2>5. CallAt(p)'
    BY <2>1, <2>3, <2>4, Ended
  <2>6. QED
    BY <1>1, <1>3, <2>5, AnswerEffect DEF Still
<1>4. CASE pc[p] = "vector_search" /\ Goto(p, "list_documents")
  <2>1. pc'[p] = "list_documents" /\ work'[p] = work[p] /\ reply'[p] = reply[p]
        /\ \A q \in Callers \ {p} : Still(q)
    BY <1>1, <1>4, MoveEffect DEF Goto, Still
  <2>2. work[p] = NoWork /\ call[p].op = "search"
    BY <1>1, <1>4 DEF IndexAt, Listed, StageAt, IndexSteps
  <2>3. StageAt(p)' /\ IndexAt(p)' /\ SearchAt(p)'
    BY <2>1, <2>2 DEF StageAt, IndexAt, SearchAt, Listed, SearchSteps
  <2>4. CallAt(p)'
    BY <2>1, <2>2, <2>3, Moved DEF SearchSteps
  <2>5. QED
    BY <2>1, <2>4
<1>5. CASE pc[p] = "delete" /\ Answer(p, Says("delete_skipped", "none"))
  <2>1. pc'[p] = "over" /\ work'[p] = NoWork /\ reply'[p] = Says("delete_skipped", "none")
    BY <1>1, <1>5, AnswerEffect
  <2>2. reply'[p].status # "ingested" /\ ReplyAt(p)'
    BY <2>1, SaysReply DEF Says
  <2>3. CallAt(p)'
    BY <2>1, <2>2, Ended
  <2>4. QED
    BY <1>1, <1>5, <2>3, AnswerEffect DEF Still
<1>6. QED
  BY <1>2, <1>3, <1>4, <1>5 DEF Fail

-----------------------------------------------------------------------------
(* One lemma per kind of step.                                             *)

\* A step of a thread on its own.
LEMMA LocalStep ==
    ASSUME RagInv, TypeOK', NEW p \in Callers, CallAt(p)',
           UNCHANGED <<repoVars, vectors, call, config, dropped>>,
           \A q \in Callers \ {p} : Still(q)
    PROVE  RagInv'
<1>1. TypeOK
  BY DEF RagInv
<1>2. Kept /\ \A q \in Callers : Same(q)
  BY <1>1, LocalKept
<1>3. Alone(p)
  BY <1>2 DEF Alone
<1>4. VectorsAt' /\ RecordsBacked'
  BY <1>2, VectorsKept, RecordsKept DEF repoVars
<1>5. QED
  BY <1>2, <1>3, <1>4, StepFrame

\* The same, when the step may end in an exception.
LEMMA FailStep ==
    ASSUME RagInv, TypeOK', NEW p \in Callers, Fail(p), pc[p] \notin {"idle", "over"},
           UNCHANGED <<repoVars, vectors, call, config, known, dropped>>
    PROVE  RagInv'
<1>1. TypeOK
  BY DEF RagInv
<1>2. Kept /\ Same(p)
  BY <1>1, LocalKept
<1>3. CallAt(p)' /\ \A q \in Callers \ {p} : Still(q)
  BY <1>2, Failing
<1>4. QED
  BY <1>3, LocalStep

LEMMA StartStep ==
    ASSUME RagInv, TypeOK', NEW p \in Callers, NEW op, NEW d, NEW t, NEW c,
           NEW at, NEW heard \in SUBSET Ingested, Start(p, Asks(op, d, t, c), at, heard),
           \/ /\ op = "ingest" /\ d = p /\ t \in Tenants /\ c = NoCollection
              /\ at = "save_document"
           \/ op = "index" /\ t \in Tenants /\ c \in Collections /\ at = "get_document"
           \/ op = "search" /\ at \in {"vector_search", "list_documents"}
           \/ op = "delete" /\ at = "delete"
    PROVE  RagInv'
<1>1. /\ TypeOK /\ StageAt(p) /\ DocumentAt(p) /\ IndexAt(p) /\ ReplyAt(p)
      /\ \A q \in Callers : DocumentAt(q)
  BY DEF RagInv, CallAt
<1>2. pc[p] = "idle" /\ call[p].op = "none"
  BY <1>1 DEF Start, StageAt, IndexSteps, SearchSteps
<1>3. p \notin documents /\ chunks[p] = 0 /\ ~(call[p].size > 0)
      /\ work[p] = NoWork /\ reply[p] = NoReply
  BY <1>1, <1>2 DEF DocumentAt, IndexAt, ReplyAt, Listed
<1>4. /\ pc'[p] = at /\ call'[p] = Asks(op, d, t, c) /\ known'[p] = heard
      /\ \A q \in Callers \ {p} : Still(q)
      /\ UNCHANGED <<repoVars, vectors, work, reply, envVars, dropped>>
  BY <1>1 DEF Start, TypeOK, Still, storeVars
<1>5. /\ call'[p].op = op /\ call'[p].doc = d /\ call'[p].coll = c
      /\ call'[p].tenant = t /\ call'[p].size = 0
  BY <1>4 DEF Asks
<1>6. Kept /\ Alone(p)
  <2>1. \A q \in Callers : Same(q) /\ chunks[q] <= chunks'[q]
    BY <1>1, <1>4 DEF Same, repoVars, TypeOK
  <2>2. \A q \in Callers \ {p} : call'[q] = call[q]
    BY <1>4 DEF Still
  <2>3. QED
    BY <1>2, <1>3, <1>4, <2>1, <2>2 DEF Kept, Alone, Stored, repoVars, envVars
<1>7. StageAt(p)'
  BY <1>4, <1>5 DEF StageAt, IndexSteps, SearchSteps
<1>8. DocumentAt(p)'
  BY <1>3, <1>4, <1>5 DEF DocumentAt, repoVars, NoReply, Says, IndexSteps
<1>9. KnownAt(p)'
  <2>1. \A e \in heard : e \in documents /\ call[e].size > 0
    BY <1>1 DEF Ingested, DocumentAt, TypeOK
  <2>2. \A e \in heard : e # p /\ e \in Callers
    BY <1>1, <1>3, <2>1 DEF TypeOK
  <2>3. QED
    BY <1>4, <2>1, <2>2 DEF KnownAt, Still, repoVars
<1>10. IndexAt(p)' /\ SearchAt(p)'
  BY <1>3, <1>4 DEF IndexAt, SearchAt, Listed
<1>11. ReplyAt(p)'
  BY <1>3, <1>4, NoReplyAt
<1>12. CallAt(p)'
  BY <1>7, <1>8, <1>9, <1>10, <1>11 DEF CallAt
<1>13. VectorsAt' /\ RecordsBacked'
  BY <1>4, <1>6, VectorsKept, RecordsKept DEF repoVars
<1>14. QED
  BY <1>6, <1>12, <1>13, StepFrame

\* An answer without a call of either store.
LEMMA SimpleAnswer ==
    ASSUME RagInv, TypeOK', NEW p \in Callers, NEW status, NEW detail,
           detail # "indexed", status # "ingested", Answer(p, Says(status, detail)),
           UNCHANGED <<repoVars, vectors, call, config, known, dropped>>
    PROVE  RagInv'
<1>1. TypeOK
  BY DEF RagInv
<1>2. /\ pc'[p] = "over" /\ work'[p] = NoWork /\ reply'[p] = Says(status, detail)
      /\ \A q \in Callers \ {p} : Still(q)
  BY <1>1, AnswerEffect DEF Still
<1>3. reply'[p].status # "ingested"
  BY <1>2 DEF Says
<1>4. ReplyAt(p)'
  BY <1>2, SaysReply
<1>5. Same(p)
  BY <1>1, LocalKept
<1>6. CallAt(p)'
  BY <1>2, <1>3, <1>4, <1>5, Ended
<1>7. QED
  BY <1>2, <1>6, LocalStep

LEMMA RequestStep ==
    ASSUME RagInv, TypeOK', NEW p \in Callers, Request(p)
    PROVE  RagInv'
<1>1. Ingested \in SUBSET Ingested /\ {} \in SUBSET Ingested
  OBVIOUS
<1>2. CASE \E t \in Tenants : Ingest(p, t) \/ Search(p, t)
  <2>1. PICK t \in Tenants : Ingest(p, t) \/ Search(p, t)
    BY <1>2
  <2>2. CASE Ingest(p, t)
    BY <1>1, <2>2, StartStep DEF Ingest
  <2>3. CASE Search(p, t)
    <3>1. PICK c \in Collections \cup {NoCollection},
               at \in {"vector_search", "list_documents"} :
            Start(p, Asks("search", p, t, c), at, Ingested)
      BY <2>3 DEF Search
    <3>2. QED
      BY <1>1, <3>1, StartStep
  <2>4. QED
    BY <2>1, <2>2, <2>3
<1>3. ASSUME NEW d \in Named, NEW c \in Collections,
             (\E t \in Tenants : Index(p, d, t, c)) \/ Delete(p, d, c)
      PROVE  RagInv'
  BY <1>1, <1>3, StartStep DEF Index, Delete
<1>4. CASE SearchInline(p)
  <2>1. Finds("inline_lexical", {}, {}) = Says("searched", "inline_lexical")
    BY DEF Finds, Says
  <2>2. QED
    BY <1>4, <2>1, SimpleAnswer DEF SearchInline, envVars, storeVars
<1>5. CASE Refuse(p)
  BY <1>5, SimpleAnswer DEF Refuse, Failed, envVars, storeVars
<1>6. QED
  BY <1>2, <1>3, <1>4, <1>5 DEF Request

LEMMA SaveDocumentStep ==
    ASSUME RagInv, TypeOK', NEW p \in Callers, SaveDocument(p)
    PROVE  RagInv'
<1>1. TypeOK /\ StageAt(p) /\ DocumentAt(p) /\ IndexAt(p) /\ ReplyAt(p)
  BY DEF RagInv, CallAt
<1>2. /\ pc[p] = "save_document" /\ pc'[p] = "save_chunk"
      /\ work'[p] = work[p] /\ reply'[p] = reply[p]
      /\ documents' = documents \cup {p}
      /\ UNCHANGED <<chunks, records, vectors, call, config, known, dropped>>
      /\ \A q \in Callers \ {p} : Still(q)
  BY <1>1, MoveEffect DEF SaveDocument, Goto, Still, envVars, storeVars
<1>3. Kept /\ Alone(p)
  BY <1>1, <1>2 DEF Kept, Alone, Same, Stored, TypeOK
<1>4. /\ chunks[p] = 0 /\ work[p] = NoWork /\ reply[p] = NoReply
      /\ ~(call[p].size > 0) /\ call[p].op = "ingest"
  BY <1>1, <1>2 DEF DocumentAt, IndexAt, ReplyAt, Listed, StageAt, IndexSteps, SearchSteps
<1>5. StageAt(p)'
  BY <1>1, <1>2, <1>4 DEF StageAt, IndexSteps
<1>6. DocumentAt(p)'
  BY <1>2, <1>4, BoundType DEF DocumentAt, NoReply, Says, IndexSteps
<1>7. KnownAt(p)'
  BY <1>2, <1>3, KnownKept
<1>8. IndexAt(p)' /\ SearchAt(p)' /\ ReplyAt(p)'
  BY <1>2, <1>4, NoReplyAt DEF IndexAt, SearchAt, Listed
<1>9. VectorsAt' /\ RecordsBacked'
  BY <1>2, <1>3, VectorsKept, RecordsKept
<1>10. QED
  BY <1>3, <1>5, <1>6, <1>7, <1>8, <1>9, StepFrame DEF CallAt

LEMMA SaveChunkStep ==
    ASSUME RagInv, TypeOK', NEW p \in Callers, SaveChunk(p)
    PROVE  RagInv'
<1>1. TypeOK /\ StageAt(p) /\ DocumentAt(p) /\ IndexAt(p) /\ ReplyAt(p)
  BY DEF RagInv, CallAt
<1>2. /\ pc[p] = "save_chunk"
      /\ UNCHANGED <<documents, records, vectors, config, known, dropped>>
      /\ chunks'[p] = chunks[p] + 1
      /\ \A q \in Callers \ {p} : chunks'[q] = chunks[q]
  BY <1>1 DEF SaveChunk, TypeOK, envVars, storeVars
<1>3. /\ p \in documents /\ chunks[p] < MaxChunks /\ chunks[p] \in 0..MaxChunks
      /\ work[p] = NoWork /\ reply[p] = NoReply
      /\ ~(call[p].size > 0) /\ call[p].op = "ingest" /\ call[p].doc = p
      /\ call[p].coll = NoCollection /\ call[p].tenant \in Tenants
  BY <1>1, <1>2, Members DEF DocumentAt, IndexAt, ReplyAt, Listed, StageAt,
     IndexSteps, SearchSteps
<1>4. \/ /\ chunks[p] + 1 < MaxChunks
         /\ Goto(p, "save_chunk")
         /\ UNCHANGED call
      \/ \E c \in Collections :
            /\ call' = [call EXCEPT ![p].size = chunks[p] + 1, ![p].coll = c]
            /\ Goto(p, "get_document")
      \/ /\ call' = [call EXCEPT ![p].size = chunks[p] + 1]
         /\ Answer(p, Says("ingested", "none"))
  BY DEF SaveChunk
<1>5. \A q \in Callers \ {p} : call'[q] = call[q]
  BY <1>1, <1>4 DEF TypeOK
<1>6. call'[p].op = "ingest" /\ call'[p].doc = p /\ call'[p].tenant = call[p].tenant
  BY <1>1, <1>3, <1>4 DEF TypeOK, Call
<1>7. Kept
  <2>1. \A d \in Callers : chunks[d] <= chunks'[d]
    BY <1>1, <1>2, <1>3, BoundType DEF TypeOK
  <2>2. \A d \in Callers : call[d].op # "none" =>
            /\ call'[d].op = call[d].op /\ call'[d].doc = call[d].doc
            /\ call'[d].tenant = call[d].tenant
            /\ call[d].coll \in Collections => call'[d].coll = call[d].coll
    BY <1>3, <1>5, <1>6, RagAssumption
  <2>3. QED
    BY <1>2, <1>3, <1>5, <2>1, <2>2 DEF Kept, Stored
<1>8. /\ work'[p] = NoWork
      /\ \A q \in Callers \ {p} :
            pc'[q] = pc[q] /\ work'[q] = work[q] /\ reply'[q] = reply[q]
  BY <1>1, <1>3, <1>4, MoveEffect, AnswerEffect DEF Goto
<1>9. Alone(p)
  BY <1>2, <1>5, <1>8 DEF Alone, Still, Same
<1>10. KnownAt(p)'
  BY <1>2, <1>7, KnownKept
<1>11. VectorsAt' /\ RecordsBacked'
  BY <1>2, <1>7, VectorsKept, RecordsKept
<1>12. CASE chunks[p] + 1 < MaxChunks /\ Goto(p, "save_chunk") /\ UNCHANGED call
  <2>1. pc'[p] = "save_chunk" /\ reply'[p] = NoReply
    BY <1>1, <1>3, <1>12, MoveEffect DEF Goto
  <2>2. StageAt(p)'
    BY <1>1, <1>3, <1>6, <1>12, <2>1 DEF StageAt
  <2>3. DocumentAt(p)'
    BY <1>2, <1>3, <1>12, <2>1 DEF DocumentAt, NoReply, Says, IndexSteps
  <2>4. IndexAt(p)' /\ SearchAt(p)' /\ ReplyAt(p)'
    BY <1>8, <2>1, NoReplyAt DEF IndexAt, SearchAt, Listed
  <2>5. QED
    BY <1>7, <1>9, <1>10, <1>11, <2>2, <2>3, <2>4, StepFrame DEF CallAt
<1>13. ASSUME call'[p].size = chunks[p] + 1,
              \/ /\ pc'[p] = "get_document" /\ reply'[p] = NoReply
                 /\ call'[p].coll \in Collections
              \/ pc'[p] = "over" /\ reply'[p] = Says("ingested", "none")
       PROVE  RagInv'
  <2>1. call'[p].size = chunks[p] + 1 /\ chunks[p] + 1 > 0
    BY <1>3, <1>13, BoundType
  <2>2. StageAt(p)'
    BY <1>3, <1>6, <1>13 DEF StageAt, IndexSteps
  <2>3. DocumentAt(p)'
    BY <1>2, <1>3, <1>6, <1>13, <2>1 DEF DocumentAt, IndexSteps
  <2>4. IndexAt(p)' /\ SearchAt(p)'
    BY <1>8, <1>13 DEF IndexAt, SearchAt, Listed
  <2>5. ReplyAt(p)'
    BY <1>13, NoReplyAt, SaysReply
  <2>6. QED
    BY <1>7, <1>9, <1>10, <1>11, <2>2, <2>3, <2>4, <2>5, StepFrame DEF CallAt
<1>14. CASE \E c \in Collections :
              /\ call' = [call EXCEPT ![p].size = chunks[p] + 1, ![p].coll = c]
              /\ Goto(p, "get_document")
  <2>1. call'[p].size = chunks[p] + 1 /\ call'[p].coll \in Collections
    BY <1>1, <1>14 DEF TypeOK, Call
  <2>2. pc'[p] = "get_document" /\ reply'[p] = NoReply
    BY <1>1, <1>3, <1>14, MoveEffect DEF Goto
  <2>3. QED
    BY <1>13, <2>1, <2>2
<1>15. CASE /\ call' = [call EXCEPT ![p].size = chunks[p] + 1]
            /\ Answer(p, Says("ingested", "none"))
  <2>1. call'[p].size = chunks[p] + 1
    BY <1>1, <1>15 DEF TypeOK, Call
  <2>2. pc'[p] = "over" /\ reply'[p] = Says("ingested", "none")
    BY <1>1, <1>15, AnswerEffect
  <2>3. QED
    BY <1>13, <2>1, <2>2
<1>16. QED
  BY <1>4, <1>12, <1>14, <1>15

\* A thread that goes on without having changed a store.
LEMMA MoveStep ==
    ASSUME RagInv, TypeOK', NEW p \in Callers, NEW at \in IndexSteps \cup SearchSteps,
           NEW locals, Proceed(p, at, locals), pc[p] \notin {"idle", "over"},
           call[p].op = "ingest" => pc[p] \in IndexSteps,
           UNCHANGED <<repoVars, vectors, call, config, known, dropped>>,
           StageAt(p)', IndexAt(p)', SearchAt(p)'
    PROVE  RagInv'
<1>1. TypeOK
  BY DEF RagInv
<1>2. /\ pc'[p] = at /\ work'[p] = locals /\ reply'[p] = reply[p]
      /\ \A q \in Callers \ {p} : Still(q)
  BY <1>1, MoveEffect DEF Still
<1>3. Kept /\ Same(p)
  BY <1>1, LocalKept
<1>4. CallAt(p)'
  BY <1>2, <1>3, Moved
<1>5. QED
  BY <1>2, <1>4, LocalStep

\* While a thread indexes, it serves an "ingest" or an "index" of a collection.
LEMMA Indexing ==
    ASSUME RagInv, NEW p \in Callers, pc[p] \in IndexSteps
    PROVE  /\ call[p].op \in {"ingest", "index"}
           /\ call[p].coll \in Collections /\ call[p].tenant \in Tenants
           /\ call[p].doc \in Callers
           /\ call[p].op = "ingest" => call[p].doc = p
           /\ pc[p] \notin {"idle", "over", "save_document", "save_chunk", "delete"}
           /\ pc[p] \notin SearchSteps
<1>1. TypeOK /\ StageAt(p)
  BY DEF RagInv, CallAt
<1>2. call[p].doc \in Callers
  BY <1>1, Members
<1>3. QED
  BY <1>1, <1>2 DEF StageAt, IndexSteps, SearchSteps

LEMMA GetDocumentStep ==
    ASSUME RagInv, TypeOK', NEW p \in Callers, GetDocument(p)
    PROVE  RagInv'
<1>1. pc[p] = "get_document" /\ pc[p] \in IndexSteps
      /\ UNCHANGED <<repoVars, vectors, call, config, known, dropped>>
  BY DEF GetDocument, IndexSteps, envVars, storeVars
<1>2. TypeOK /\ StageAt(p) /\ IndexAt(p)
  BY DEF RagInv, CallAt
<1>3. CASE Fail(p)
  BY <1>1, <1>3, Indexing, FailStep
<1>4. CASE Goto(p, "list_chunks")
  <2>1. pc'[p] = "list_chunks" /\ work'[p] = NoWork
    BY <1>1, <1>2, <1>4, MoveEffect DEF Goto, IndexAt, Listed
  <2>2. StageAt(p)' /\ IndexAt(p)' /\ SearchAt(p)'
    BY <1>1, <1>2, <2>1, Indexing DEF StageAt, IndexAt, SearchAt, Listed, IndexSteps
  <2>3. QED
    BY <1>1, <1>4, <2>2, Indexing, MoveStep DEF Goto, IndexSteps
<1>5. QED
  BY <1>3, <1>4 DEF GetDocument

LEMMA ListChunksStep ==
    ASSUME RagInv, TypeOK', NEW p \in Callers, ListChunks(p)
    PROVE  RagInv'
<1> DEFINE d == call[p].doc
<1>1. pc[p] = "list_chunks" /\ pc[p] \in IndexSteps
      /\ UNCHANGED <<repoVars, vectors, call, config, known, dropped>>
  BY DEF ListChunks, IndexSteps, envVars, storeVars
<1>2. /\ TypeOK /\ StageAt(p) /\ IndexAt(p) /\ KnownAt(p)
      /\ \A q \in Callers : DocumentAt(q)
  BY DEF RagInv, CallAt
<1>3. CASE Fail(p)
  BY <1>1, <1>3, Indexing, FailStep
<1>4. CASE chunks[d] > 0 /\ Proceed(p, "ensure", [work[p] EXCEPT !.count = chunks[d]])
  <2>1. work[p] = NoWork
    BY <1>1, <1>2 DEF IndexAt, Listed
  <2>2. [work[p] EXCEPT !.count = chunks[d]]
        = [count |-> chunks[d], done |-> 0, todo |-> {}, found |-> {}]
    BY <2>1 DEF NoWork
  <2>3. /\ pc'[p] = "ensure"
        /\ work'[p] = [count |-> chunks[d], done |-> 0, todo |-> {}, found |-> {}]
    BY <1>2, <1>4, <2>2, MoveEffect
  <2>4. d \in Callers /\ chunks[d] \in 0..MaxChunks
    BY <1>1, <1>2, Indexing, Members
  <2>5. ASSUME d \in known[p] \cup {p} PROVE chunks[d] = call[d].size
    <3>1. d \in documents /\ call[d].size > 0
      <4>1. CASE d \in known[p]
        BY <1>1, <1>2, <4>1 DEF KnownAt
      <4>2. CASE d = p
        <5>1. call[p].op = "ingest"
          BY <1>2, <1>4, <4>2 DEF DocumentAt
        <5>2. QED
          BY <1>1, <1>2, <4>2, <5>1 DEF DocumentAt
      <4>3. QED
        BY <2>5, <4>1, <4>2
    <3>2. QED
      BY <1>2, <2>4, <3>1 DEF DocumentAt
  <2>6. StageAt(p)'
    BY <1>1, <1>2, <2>3, Indexing DEF StageAt, IndexSteps
  <2>7. IndexAt(p)'
    BY <1>1, <1>4, <2>3, <2>4, <2>5 DEF IndexAt, Listed, repoVars
  <2>8. SearchAt(p)'
    BY <2>3 DEF SearchAt
  <2>9. QED
    BY <1>1, <1>4, <2>6, <2>7, <2>8, Indexing, MoveStep DEF IndexSteps
<1>5. QED
  BY <1>3, <1>4 DEF ListChunks

LEMMA EnsureCollectionStep ==
    ASSUME RagInv, TypeOK', NEW p \in Callers, EnsureCollection(p)
    PROVE  RagInv'
<1>1. pc[p] = "ensure" /\ pc[p] \in IndexSteps
      /\ UNCHANGED <<repoVars, vectors, call, config, known, dropped>>
  BY DEF EnsureCollection, IndexSteps, envVars
<1>2. TypeOK /\ StageAt(p) /\ IndexAt(p)
  BY DEF RagInv, CallAt
<1>3. CASE Fail(p)
  BY <1>1, <1>3, Indexing, FailStep
<1>4. CASE Goto(p, "upsert")
  <2>1. pc'[p] = "upsert" /\ work'[p] = work[p]
    BY <1>2, <1>4, MoveEffect DEF Goto
  <2>2. StageAt(p)'
    BY <1>1, <1>2, <2>1, Indexing DEF StageAt, IndexSteps
  <2>3. IndexAt(p)'
    BY <1>1, <1>2, <2>1 DEF IndexAt, Listed, repoVars
  <2>4. SearchAt(p)'
    BY <2>1 DEF SearchAt
  <2>5. QED
    BY <1>1, <1>4, <2>2, <2>3, <2>4, Indexing, MoveStep DEF Goto, IndexSteps
<1>5. QED
  BY <1>3, <1>4 DEF EnsureCollection

\* The vectors of an upsert, answered or not, are of chunks the repository has.
LEMMA UpsertEffect ==
    ASSUME RagInv, TypeOK', NEW p \in Callers, pc[p] = "upsert",
           vectors' = Upserted(p), UNCHANGED <<repoVars, call, config, dropped>>
    PROVE  /\ Kept /\ VectorsAt' /\ RecordsBacked'
           /\ \A q \in Callers : Same(q)
           /\ config.qdrant => \A k \in 1..work[p].count :
                <<call[p].coll, <<call[p].doc, k>>>> \in Stored'
<1> DEFINE d == call[p].doc
           c == call[p].coll
           points == {<<c, <<d, k>>>> : k \in 1..work[p].count}
<1>1. /\ TypeOK /\ IndexAt(p) /\ VectorsAt /\ pc[p] \in IndexSteps
      /\ \A q \in Callers : DocumentAt(q)
  BY DEF RagInv, CallAt, IndexSteps
<1>2. d \in Callers /\ c \in Collections /\ work[p].count \in 0..MaxChunks
      /\ chunks[d] \in 0..MaxChunks /\ call[p].op \in {"ingest", "index"}
  BY <1>1, Indexing, Members
<1>3. work[p].count > 0 /\ work[p].count <= chunks[d]
  BY <1>1 DEF IndexAt, Listed
<1>4. Meant(d, c, call[p].tenant)
  BY <1>2 DEF Meant, Indexes
<1>5. /\ config.qdrant =>
            vectors' = {v \in vectors : <<v[1], v[2]>> \notin points}
                       \cup {<<x[1], x[2], call[p].tenant>> : x \in points}
      /\ ~config.qdrant => vectors' = vectors
  BY DEF Upserted
<1>6. \A x \in points : x = <<x[1], x[2]>>
  OBVIOUS
<1>7. Stored \subseteq Stored' /\ (config.qdrant => points \subseteq Stored')
  <2>1. CASE ~config.qdrant
    BY <1>5, <2>1 DEF Stored
  <2>2. CASE config.qdrant
    <3>1. ASSUME NEW x \in points PROVE x \in Stored'
      <4>1. <<x[1], x[2], call[p].tenant>> \in vectors'
        BY <1>5, <2>2
      <4>2. <<x[1], x[2]>> \in Stored'
        BY <4>1 DEF Stored
      <4>3. QED
        BY <1>6, <4>2
    <3>2. ASSUME NEW v \in vectors, <<v[1], v[2]>> \notin points
          PROVE  <<v[1], v[2]>> \in Stored'
      <4>1. v \in vectors'
        BY <1>5, <2>2, <3>2
      <4>2. QED
        BY <4>1 DEF Stored
    <3>3. QED
      BY <3>1, <3>2 DEF Stored
  <2>3. QED
    BY <2>1, <2>2
<1>8. Kept
  BY <1>1, <1>7 DEF Kept, repoVars, TypeOK
<1>9. \A q \in Callers : Same(q)
  BY DEF Same, repoVars
<1>10. VectorsAt'
  <2>1. ASSUME NEW cc \in Collections, NEW dd \in Callers, NEW k \in 1..MaxChunks,
               NEW t \in Tenants, <<cc, <<dd, k>>, t>> \in vectors'
        PROVE  Meant(dd, cc, t)' /\ (config'.sql => k <= chunks'[dd])
    <3>1. CASE <<cc, <<dd, k>>, t>> \in vectors
      <4>1. Meant(dd, cc, t) /\ (config.sql => k <= chunks[dd])
        BY <1>1, <3>1 DEF VectorsAt
      <4>2. QED
        BY <1>8, <4>1, MeantKept DEF repoVars
    <3>2. CASE <<cc, <<dd, k>>, t>> \notin vectors
      <4>1. PICK x \in points : <<cc, <<dd, k>>, t>> = <<x[1], x[2], call[p].tenant>>
        BY <1>5, <2>1, <3>2
      <4>2. PICK m \in 1..work[p].count : x = <<c, <<d, m>>>>
        OBVIOUS
      <4>3. cc = c /\ dd = d /\ k = m /\ t = call[p].tenant
        BY <4>1, <4>2
      <4>4. k <= chunks[d]
        BY <1>2, <1>3, <4>3, BoundType
      <4>5. Meant(d, c, t)
        BY <1>4, <4>3
      <4>6. QED
        BY <1>2, <1>8, <4>3, <4>4, <4>5, MeantKept DEF repoVars
    <3>3. QED
      BY <3>1, <3>2
  <2>2. QED
    BY <2>1 DEF VectorsAt
<1>11. RecordsBacked'
  BY <1>8, RecordsKept DEF repoVars
<1>12. config.qdrant => \A k \in 1..work[p].count : <<c, <<d, k>>>> \in Stored'
  BY <1>7
<1>13. QED
  BY <1>8, <1>9, <1>10, <1>11, <1>12

LEMMA UpsertStep ==
    ASSUME RagInv, TypeOK', NEW p \in Callers, Upsert(p)
    PROVE  RagInv'
<1>1. pc[p] = "upsert" /\ pc[p] \in IndexSteps /\ Goto(p, "save_record")
      /\ vectors' = Upserted(p) /\ UNCHANGED <<repoVars, call, config, known, dropped>>
  BY DEF Upsert, IndexSteps, envVars, storeVars
<1>2. TypeOK /\ StageAt(p) /\ IndexAt(p) /\ work[p].count \in 0..MaxChunks
  BY Members DEF RagInv, CallAt
<1>3. /\ Kept /\ VectorsAt' /\ RecordsBacked'
      /\ \A q \in Callers : Same(q)
      /\ config.qdrant => \A k \in 1..work[p].count :
            <<call[p].coll, <<call[p].doc, k>>>> \in Stored'
  BY <1>1, UpsertEffect
<1>4. /\ pc'[p] = "save_record" /\ work'[p] = work[p] /\ reply'[p] = reply[p]
      /\ \A q \in Callers \ {p} : Still(q)
  BY <1>1, <1>2, MoveEffect DEF Goto, Still
<1>5. StageAt(p)'
  BY <1>1, <1>2, <1>4, Indexing DEF StageAt, IndexSteps
<1>6. IndexAt(p)'
  <2>1. work[p].done = 0 /\ work[p].count > 0
    BY <1>1, <1>2 DEF IndexAt, Listed
  <2>2. work[p].done < work[p].count /\ 1..work[p].done = {}
    BY <2>1
  <2>3. QED
    BY <1>1, <1>2, <1>3, <1>4, <2>2 DEF IndexAt, Listed, Backed, repoVars
<1>7. SearchAt(p)'
  BY <1>4 DEF SearchAt
<1>8. CallAt(p)'
  BY <1>1, <1>3, <1>4, <1>5, <1>6, <1>7, Indexing, Moved DEF IndexSteps
<1>9. Alone(p)
  BY <1>3, <1>4 DEF Alone
<1>10. QED
  BY <1>3, <1>8, <1>9, StepFrame

\* The record of chunk work.done + 1 is added to the repository.
LEMMA RecordEffect ==
    ASSUME RagInv, TypeOK', NEW p \in Callers, pc[p] = "save_record",
           config.sql => records[<<call[p].doc, work[p].done + 1>>] = NoCollection,
           records' = [records EXCEPT
                ![<<call[p].doc, work[p].done + 1>>] = call[p].coll],
           UNCHANGED <<documents, chunks, vectors, call, config, dropped>>
    PROVE  /\ Kept /\ VectorsAt' /\ RecordsBacked'
           /\ \A q \in Callers : Same(q)
           /\ config.sql => \A k \in 1..(work[p].done + 1) :
                records'[<<call[p].doc, k>>] = call[p].coll
<1> DEFINE d == call[p].doc
           c == call[p].coll
           n == work[p].done + 1
<1>1. TypeOK /\ IndexAt(p) /\ RecordsBacked /\ pc[p] \in IndexSteps
  BY DEF RagInv, CallAt, IndexSteps
<1>2. d \in Callers /\ c \in Collections /\ work[p].count \in 0..MaxChunks
      /\ work[p].done \in 0..MaxChunks
  BY <1>1, Indexing, Members
<1>3. /\ work[p].done < work[p].count
      /\ \A k \in 1..work[p].count : Backed(c, d, k)
      /\ \A k \in 1..work[p].done : config.sql => records[<<d, k>>] = c
  BY <1>1 DEF IndexAt
<1>4. n \in 1..MaxChunks /\ n \in 1..work[p].count
  BY <1>2, <1>3, BoundType
<1>5. <<d, n>> \in Chunk /\ records \in [Chunk -> Collections \cup {NoCollection}]
  BY <1>1, <1>2, <1>4, ChunkMember DEF TypeOK
<1>6. /\ records'[<<d, n>>] = c
      /\ \A ch \in Chunk \ {<<d, n>>} : records'[ch] = records[ch]
  BY <1>5
<1>7. Kept
  BY <1>1, <1>5, <1>6 DEF Kept, Stored, TypeOK
<1>8. \A q \in Callers : Same(q)
  BY DEF Same
<1>9. VectorsAt'
  BY <1>7, VectorsKept
<1>10. RecordsBacked'
  <2>1. ASSUME config.qdrant, NEW ch \in Chunk, records'[ch] # NoCollection
        PROVE  <<records'[ch], ch>> \in Stored \cup dropped
    <3>1. CASE ch = <<d, n>>
      BY <1>3, <1>4, <1>6, <2>1, <3>1 DEF Backed
    <3>2. CASE ch # <<d, n>>
      BY <1>1, <1>6, <2>1, <3>2 DEF RecordsBacked
    <3>3. QED
      BY <3>1, <3>2
  <2>2. QED
    BY <2>1 DEF RecordsBacked, Stored
<1>11. ASSUME config.sql, NEW k \in 1..n PROVE records'[<<d, k>>] = c
  <2>1. CASE k = n
    BY <1>6, <2>1
  <2>2. CASE k # n
    <3>1. k \in 1..work[p].done /\ k \in 1..MaxChunks
      BY <1>2, <2>2, BoundType
    <3>2. <<d, k>> \in Chunk /\ <<d, k>> # <<d, n>>
      BY <1>2, <2>2, <3>1, ChunkMember
    <3>3. QED
      BY <1>3, <1>6, <1>11, <3>1, <3>2
  <2>3. QED
    BY <2>1, <2>2
<1>12. QED
  BY <1>7, <1>8, <1>9, <1>10, <1>11

LEMMA SaveRecordStep ==
    ASSUME RagInv, TypeOK', NEW p \in Callers, SaveRecord(p)
    PROVE  RagInv'
<1> DEFINE d == call[p].doc
           c == call[p].coll
           n == work[p].done + 1
<1>1. pc[p] = "save_record" /\ pc[p] \in IndexSteps
      /\ UNCHANGED <<documents, chunks, vectors, call, config, known, dropped>>
  BY DEF SaveRecord, IndexSteps, envVars, storeVars
<1>2. TypeOK /\ StageAt(p) /\ DocumentAt(p) /\ IndexAt(p)
  BY DEF RagInv, CallAt
<1>3. /\ d \in Callers /\ c \in Collections /\ work[p] \in Work
      /\ work[p].count \in 0..MaxChunks /\ work[p].done \in 0..MaxChunks
  BY <1>1, <1>2, Indexing, Members
<1>4. /\ work[p].count > 0 /\ work[p].count <= chunks[d]
      /\ d \in known[p] \cup {p} => work[p].count = call[d].size
      /\ work[p].done < work[p].count
      /\ \A k \in 1..work[p].count : Backed(c, d, k)
  BY <1>1, <1>2 DEF IndexAt, Listed
<1>5. CASE Fail(p) /\ UNCHANGED records
  BY <1>1, <1>5, Indexing, FailStep DEF repoVars
<1>6. ASSUME config.sql => records[<<d, n>>] = NoCollection,
             records' = [records EXCEPT ![<<d, n>>] = c]
      PROVE  /\ Kept /\ VectorsAt' /\ RecordsBacked'
             /\ \A q \in Callers : Same(q)
             /\ config.sql => \A k \in 1..n : records'[<<d, k>>] = c
  BY <1>1, <1>6, RecordEffect
<1>7. CASE /\ config.sql => records[<<d, n>>] = NoCollection
           /\ records' = [records EXCEPT ![<<d, n>>] = c]
           /\ n < work[p].count
           /\ Proceed(p, "save_record", [work[p] EXCEPT !.done = @ + 1])
  <2>1. /\ pc'[p] = "save_record" /\ work'[p] = [work[p] EXCEPT !.done = @ + 1]
        /\ reply'[p] = reply[p] /\ \A q \in Callers \ {p} : Still(q)
    BY <1>1, <1>2, <1>7, MoveEffect DEF Still
  <2>2. work'[p].count = work[p].count /\ work'[p].done = n
    BY <1>3, <2>1 DEF Work
  <2>3. StageAt(p)'
    BY <1>1, <1>2, <2>1, Indexing DEF StageAt, IndexSteps
  <2>4. IndexAt(p)'
    BY <1>1, <1>4, <1>6, <1>7, <2>1, <2>2 DEF IndexAt, Listed, Backed, Stored
  <2>5. SearchAt(p)'
    BY <2>1 DEF SearchAt
  <2>6. CallAt(p)'
    BY <1>1, <1>6, <1>7, <2>1, <2>3, <2>4, <2>5, Indexing, Moved DEF IndexSteps
  <2>7. QED
    BY <1>6, <1>7, <2>1, <2>6, StepFrame DEF Alone
<1>8. CASE /\ config.sql => records[<<d, n>>] = NoCollection
           /\ records' = [records EXCEPT ![<<d, n>>] = c]
           /\ ~(n < work[p].count)
           /\ Answer(p, Indexed(p))
  <2>1. /\ pc'[p] = "over" /\ work'[p] = NoWork /\ reply'[p] = Indexed(p)
        /\ \A q \in Callers \ {p} : Still(q)
    BY <1>1, <1>2, <1>8, AnswerEffect DEF Still
  <2>2. n = work[p].count
    BY <1>3, <1>4, <1>8
  <2>3. /\ reply'[p].count = work[p].count /\ reply'[p].detail = "indexed"
        /\ reply'[p].results = {} /\ reply'[p].texts = {}
        /\ reply'[p].status = "ingested" => call[p].op # "index"
    BY <2>1 DEF Indexed
  <2>4. reply'[p].status = "ingested" => call[p].size > 0
    <3>1. call[p].op # "index" => call[p].op = "ingest"
      BY <1>1, Indexing
    <3>2. QED
      BY <1>1, <1>2, <2>3, <3>1 DEF DocumentAt
  <2>5. ReplyAt(p)'
    <3>1. \A k \in 1..work[p].count : Backed(c, d, k)
      BY <1>4
    <3>2. config.sql => \A k \in 1..work[p].count : records'[<<d, k>>] = c
      BY <1>6, <1>8, <2>2
    <3>3. c # NoCollection
      BY <1>3, RagAssumption
    <3>4. QED
      BY <1>1, <1>4, <2>1, <2>3, <3>1, <3>2, <3>3 DEF ReplyAt, Backed
  <2>6. CallAt(p)'
    BY <1>1, <1>6, <1>8, <2>1, <2>4, <2>5, Ended
  <2>7. QED
    BY <1>6, <1>8, <2>1, <2>6, StepFrame DEF Alone
<1>9. QED
  BY <1>5, <1>7, <1>8 DEF SaveRecord

\* A search has no document, so its steps concern the searching thread alone.
LEMMA Searching ==
    ASSUME RagInv, NEW p \in Callers, pc[p] \in SearchSteps
    PROVE  call[p].op = "search" /\ pc[p] \notin {"idle", "over"}
BY DEF RagInv, CallAt, StageAt, SearchSteps, IndexSteps

\* A thread that is searching stays among the steps of a search.
LEMMA SearchStage ==
    ASSUME RagInv, NEW p \in Callers, pc[p] \in SearchSteps, pc'[p] \in SearchSteps,
           call'[p] = call[p]
    PROVE  StageAt(p)'
BY Searching DEF StageAt

\* A vector is of a call that indexed its document for the tenant.
LEMMA MatchesIndexable ==
    ASSUME RagInv, NEW p \in Callers, NEW ch \in Matches(p)
    PROVE  /\ ch \in Chunk /\ Indexable(p, ch[1])
           /\ config.sql => ch[2] <= chunks[ch[1]]
<1>1. TypeOK /\ VectorsAt
  BY DEF RagInv
<1>2. ch \in Chunk /\ call[p].coll \in Collections /\ call[p].tenant \in Tenants
      /\ <<call[p].coll, ch, call[p].tenant>> \in vectors
  BY <1>1, MatchType
<1>3. ch[1] \in Callers /\ ch[2] \in 1..MaxChunks /\ ch = <<ch[1], ch[2]>>
  BY <1>2, ChunkParts
<1>4. <<call[p].coll, <<ch[1], ch[2]>>, call[p].tenant>> \in vectors
  BY <1>2, <1>3
<1>5. Meant(ch[1], call[p].coll, call[p].tenant) /\ (config.sql => ch[2] <= chunks[ch[1]])
  BY <1>1, <1>2, <1>3, <1>4 DEF VectorsAt
<1>6. QED
  BY <1>2, <1>5 DEF Indexable

LEMMA VectorSearchStep ==
    ASSUME RagInv, TypeOK', NEW p \in Callers, VectorSearch(p)
    PROVE  RagInv'
<1>1. pc[p] = "vector_search" /\ pc[p] \in SearchSteps
      /\ UNCHANGED <<repoVars, vectors, call, config, known, dropped>>
  BY DEF VectorSearch, SearchSteps, envVars, storeVars
<1>2. TypeOK /\ IndexAt(p)
  BY DEF RagInv, CallAt
<1>3. CASE Fail(p)
  BY <1>1, <1>3, Searching, FailStep
<1>4. ASSUME NEW found \in Cut(Matches(p)),
             Proceed(p, IF found = {} THEN "list_documents" ELSE "hydrate",
                     [work[p] EXCEPT !.found = found])
      PROVE  RagInv'
  <2>1. \A ch \in found :
          ch \in Chunk /\ Indexable(p, ch[1]) /\ (config.sql => ch[2] <= chunks[ch[1]])
    BY <1>4, MatchesIndexable DEF Cut
  <2>2. work[p] = NoWork
    BY <1>1, <1>2 DEF IndexAt, Listed
  <2>3. [work[p] EXCEPT !.found = found]
        = [count |-> 0, done |-> 0, todo |-> {}, found |-> found]
    BY <2>2 DEF NoWork
  <2>4. /\ pc'[p] = IF found = {} THEN "list_documents" ELSE "hydrate"
        /\ work'[p] = [count |-> 0, done |-> 0, todo |-> {}, found |-> found]
    BY <1>2, <1>4, <2>3, MoveEffect
  <2>5. pc'[p] \in {"list_documents", "hydrate"} /\ pc'[p] \in SearchSteps
    BY <2>4 DEF SearchSteps
  <2>6. StageAt(p)'
    BY <1>1, <2>5, SearchStage
  <2>7. IndexAt(p)'
    BY <2>4, <2>5 DEF IndexAt, Listed, NoWork
  <2>8. SearchAt(p)'
    BY <1>1, <2>1, <2>4, <2>5 DEF SearchAt, Indexable, Meant, Indexes, repoVars
  <2>9. QED
    BY <1>1, <1>4, <2>4, <2>5, <2>6, <2>7, <2>8, Searching, MoveStep
<1>5. QED
  BY <1>3, <1>4 DEF VectorSearch

\* An answer of a search is true if it has only chunks it may have, and in SQL the
\* text of each.
LEMMA FoundStep ==
    ASSUME RagInv, TypeOK', NEW p \in Callers, pc[p] \in SearchSteps,
           NEW mode \in {"vector", "repository_lexical"}, NEW results, NEW texts,
           Answer(p, Finds(mode, results, texts)),
           config.sql => results = texts,
           \A ch \in results :
                Admissible(p, ch[1]) \/ (mode = "vector" /\ Indexable(p, ch[1])),
           UNCHANGED <<repoVars, vectors, call, config, known, dropped>>
    PROVE  RagInv'
<1>1. TypeOK
  BY DEF RagInv
<1>2. /\ pc'[p] = "over" /\ work'[p] = NoWork /\ reply'[p] = Finds(mode, results, texts)
      /\ \A q \in Callers \ {p} : Still(q)
  BY <1>1, AnswerEffect DEF Still
<1>3. /\ reply'[p].status = "searched" /\ reply'[p].detail # "indexed"
      /\ reply'[p].results = results /\ reply'[p].texts = texts
      /\ reply'[p].detail = mode
  BY <1>2 DEF Finds
<1>4. ReplyAt(p)'
  BY <1>2, <1>3 DEF ReplyAt, Admissible, Indexable, Meant, Indexes
<1>5. Same(p)
  BY <1>1, LocalKept
<1>6. CallAt(p)'
  BY <1>2, <1>3, <1>4, <1>5, Ended
<1>7. QED
  BY <1>2, <1>6, LocalStep

LEMMA HydrateStep ==
    ASSUME RagInv, TypeOK', NEW p \in Callers, Hydrate(p)
    PROVE  RagInv'
<1> DEFINE texts == {ch \in work[p].found : ch \in ChunksOf(ch[1])}
<1>1. /\ pc[p] = "hydrate" /\ pc[p] \in SearchSteps
      /\ Answer(p, Finds("vector", work[p].found, texts))
      /\ UNCHANGED <<repoVars, vectors, call, config, known, dropped>>
  BY DEF Hydrate, SearchSteps, envVars, storeVars
<1>2. TypeOK /\ SearchAt(p) /\ work[p].found \subseteq Chunk
  BY Members DEF RagInv, CallAt
<1>3. \A ch \in work[p].found : Indexable(p, ch[1])
  BY <1>1, <1>2 DEF SearchAt
<1>4. ASSUME config.sql, NEW ch \in work[p].found PROVE ch \in ChunksOf(ch[1])
  <2>1. ch[1] \in Callers /\ ch[2] \in 1..MaxChunks /\ ch = <<ch[1], ch[2]>>
    BY <1>2, <1>4, ChunkParts
  <2>2. chunks[ch[1]] \in 0..MaxChunks /\ ch[2] <= chunks[ch[1]]
    BY <1>1, <1>2, <1>4, <2>1, Members DEF SearchAt
  <2>3. ch[2] \in 1..chunks[ch[1]]
    BY <2>1, <2>2, BoundType
  <2>4. QED
    BY <2>1, <2>3 DEF ChunksOf
<1>5. config.sql => work[p].found = texts
  BY <1>4
<1>6. QED
  BY <1>1, <1>3, <1>5, FoundStep

LEMMA ListDocumentsStep ==
    ASSUME RagInv, TypeOK', NEW p \in Callers, ListDocuments(p)
    PROVE  RagInv'
<1> DEFINE due == {d \in documents : call[d].tenant = call[p].tenant}
<1>1. pc[p] = "list_documents" /\ pc[p] \in SearchSteps
      /\ Proceed(p, "collect", [work[p] EXCEPT !.todo = due])
      /\ UNCHANGED <<repoVars, vectors, call, config, known, dropped>>
  BY DEF ListDocuments, SearchSteps, envVars, storeVars
<1>2. TypeOK /\ IndexAt(p) /\ \A q \in Callers : DocumentAt(q)
  BY DEF RagInv, CallAt
<1>3. \A d \in due : Admissible(p, d)
  BY <1>2 DEF DocumentAt, Admissible, TypeOK
<1>4. work[p] = NoWork
  BY <1>1, <1>2 DEF IndexAt, Listed
<1>5. [work[p] EXCEPT !.todo = due]
      = [count |-> 0, done |-> 0, todo |-> due, found |-> {}]
  <2>1. ASSUME NEW s PROVE [NoWork EXCEPT !.todo = s]
                           = [count |-> 0, done |-> 0, todo |-> s, found |-> {}]
    BY DEF NoWork
  <2>2. QED
    BY <1>4, <2>1
<1>6. /\ pc'[p] = "collect"
      /\ work'[p] = [count |-> 0, done |-> 0, todo |-> due, found |-> {}]
  BY <1>1, <1>2, <1>5, MoveEffect
<1>7. StageAt(p)'
  BY <1>1, <1>6, SearchStage DEF SearchSteps
<1>8. IndexAt(p)'
  BY <1>6 DEF IndexAt, Listed
<1>9. SearchAt(p)'
  BY <1>1, <1>3, <1>6 DEF SearchAt, Admissible
<1>10. QED
  BY <1>1, <1>7, <1>8, <1>9, Searching, MoveStep DEF SearchSteps

LEMMA CollectChunksStep ==
    ASSUME RagInv, TypeOK', NEW p \in Callers, CollectChunks(p)
    PROVE  RagInv'
<1>1. pc[p] = "collect" /\ pc[p] \in SearchSteps
      /\ UNCHANGED <<repoVars, vectors, call, config, known, dropped>>
  BY DEF CollectChunks, SearchSteps, envVars, storeVars
<1>2. TypeOK /\ SearchAt(p)
  BY DEF RagInv, CallAt
<1>3. PICK d \in work[p].todo :
        Proceed(p, "collect", [count |-> 0, done |-> 0, todo |-> work[p].todo \ {d},
                               found |-> work[p].found \cup ChunksOf(d)])
  BY DEF CollectChunks
<1> DEFINE rest == work[p].todo \ {d}
           more == work[p].found \cup ChunksOf(d)
<1>4. /\ pc'[p] = "collect"
      /\ work'[p] = [count |-> 0, done |-> 0, todo |-> rest, found |-> more]
  BY <1>2, <1>3, MoveEffect
<1>5. \A e \in work[p].todo : Admissible(p, e)
  BY <1>1, <1>2 DEF SearchAt
<1>6. \A ch \in ChunksOf(d) : ch[1] = d
  BY DEF ChunksOf
<1>7. \A ch \in more : Admissible(p, ch[1])
  BY <1>1, <1>2, <1>3, <1>5, <1>6 DEF SearchAt
<1>8. StageAt(p)'
  BY <1>1, <1>4, SearchStage DEF SearchSteps
<1>9. IndexAt(p)'
  BY <1>4 DEF IndexAt, Listed
<1>10. SearchAt(p)'
  BY <1>1, <1>4, <1>5, <1>7 DEF SearchAt, Admissible
<1>11. QED
  BY <1>1, <1>3, <1>8, <1>9, <1>10, Searching, MoveStep DEF SearchSteps

LEMMA AnswerLexicallyStep ==
    ASSUME RagInv, TypeOK', NEW p \in Callers, AnswerLexically(p)
    PROVE  RagInv'
<1>1. pc[p] = "collect" /\ pc[p] \in SearchSteps
      /\ UNCHANGED <<repoVars, vectors, call, config, known, dropped>>
  BY DEF AnswerLexically, SearchSteps, envVars, storeVars
<1>2. PICK best \in Cut(work[p].found) :
        Answer(p, Finds("repository_lexical", best, best))
  BY DEF AnswerLexically
<1>3. SearchAt(p)
  BY DEF RagInv, CallAt
<1>4. \A ch \in best : Admissible(p, ch[1])
  BY <1>1, <1>2, <1>3 DEF SearchAt, Cut
<1>5. QED
  BY <1>1, <1>2, <1>4, FoundStep

\* Vectors that a deletion takes are remembered as dropped.
LEMMA DoomedEffect ==
    ASSUME RagInv, TypeOK', NEW p \in Callers, DropVectors(p),
           UNCHANGED <<repoVars, call, config>>
    PROVE  Kept /\ VectorsAt' /\ RecordsBacked' /\ \A q \in Callers : Same(q)
<1>1. TypeOK
  BY DEF RagInv
<1>2. Stored \cup dropped \subseteq Stored' \cup dropped'
  <2>1. ASSUME NEW v \in vectors PROVE <<v[1], v[2]>> \in Stored' \cup dropped'
    BY DEF DropVectors, Stored
  <2>2. QED
    BY <2>1 DEF Stored, DropVectors
<1>3. Kept /\ \A q \in Callers : Same(q)
  BY <1>1, <1>2 DEF Kept, Same, repoVars, TypeOK
<1>4. VectorsAt' /\ RecordsBacked'
  BY <1>3, VectorsKept, RecordsKept DEF repoVars, DropVectors
<1>5. QED
  BY <1>3, <1>4

LEMMA DeleteVectorsStep ==
    ASSUME RagInv, TypeOK', NEW p \in Callers, DeleteVectors(p)
    PROVE  RagInv'
<1>1. TypeOK /\ pc[p] = "delete"
      /\ UNCHANGED <<repoVars, call, config, known>>
  BY DEF RagInv, DeleteVectors, envVars
<1>2. CASE Fail(p) /\ UNCHANGED <<vectors, dropped>>
  BY <1>1, <1>2, FailStep
<1>3. CASE DropVectors(p) /\ Answer(p, Says("deleted", "none"))
  <2>1. Kept /\ VectorsAt' /\ RecordsBacked' /\ \A q \in Callers : Same(q)
    BY <1>1, <1>3, DoomedEffect
  <2>2. /\ pc'[p] = "over" /\ work'[p] = NoWork /\ reply'[p] = Says("deleted", "none")
        /\ \A q \in Callers \ {p} : Still(q)
    BY <1>1, <1>3, AnswerEffect DEF Still
  <2>3. reply'[p].status # "ingested" /\ ReplyAt(p)'
    BY <2>2, SaysReply DEF Says
  <2>4. CallAt(p)'
    BY <1>1, <2>1, <2>2, <2>3, Ended
  <2>5. QED
    BY <2>1, <2>2, <2>4, StepFrame DEF Alone
<1>4. QED
  BY <1>2, <1>3 DEF DeleteVectors

LEMMA RepositoryErrorStep ==
    ASSUME RagInv, TypeOK', NEW p \in Callers, RepositoryError(p)
    PROVE  RagInv'
BY FailStep DEF RepositoryError, RepositorySteps, storeVars

LEMMA VectorErrorStep ==
    ASSUME RagInv, TypeOK', NEW p \in Callers, VectorError(p)
    PROVE  RagInv'
<1>1. pc[p] \notin {"idle", "over"} /\ Fail(p)
      /\ UNCHANGED <<repoVars, call, config, known>>
  BY DEF VectorError, VectorSteps
<1>2. TypeOK
  BY DEF RagInv
<1>3. Kept /\ VectorsAt' /\ RecordsBacked' /\ \A q \in Callers : Same(q)
  <2>1. CASE UNCHANGED <<vectors, dropped>>
    BY <1>1, <1>2, <2>1, LocalKept, VectorsKept, RecordsKept DEF repoVars
  <2>2. CASE pc[p] = "upsert" /\ vectors' = Upserted(p) /\ UNCHANGED dropped
    BY <1>1, <2>2, UpsertEffect
  <2>3. CASE DropVectors(p)
    BY <1>1, <2>3, DoomedEffect
  <2>4. QED
    BY <2>1, <2>2, <2>3 DEF VectorError, storeVars
<1>4. CallAt(p)' /\ \A q \in Callers \ {p} : Still(q)
  BY <1>1, <1>3, Failing
<1>5. QED
  BY <1>3, <1>4, StepFrame DEF Alone

LEMMA RestartStep ==
    ASSUME RagInv, TypeOK', Restart
    PROVE  RagInv'
<1>1. TypeOK /\ VectorsAt /\ RecordsBacked
  BY DEF RagInv
<1>2. /\ UNCHANGED <<vectors, call, reply, config, known, dropped>>
      /\ config.sql => UNCHANGED <<documents, chunks, records>>
  BY DEF Restart, repoVars, storeVars
<1>3. ASSUME NEW q \in Callers
      PROVE  /\ q \in documents' => q \in documents /\ chunks'[q] = chunks[q]
             /\ chunks[q] = 0 => chunks'[q] = 0
  BY <1>3 DEF Restart, repoVars
<1>4. VectorsAt'
  BY <1>1, <1>2 DEF VectorsAt, Meant, Indexes
<1>5. RecordsBacked'
  BY <1>1, <1>2 DEF RecordsBacked, Restart, Stored, repoVars
<1>6. ASSUME NEW p \in Callers PROVE CallAt(p)'
  <2>1. StageAt(p) /\ DocumentAt(p) /\ ReplyAt(p)
    BY DEF RagInv, CallAt
  <2>2. /\ pc'[p] = IF pc[p] = "idle" THEN "idle" ELSE "over"
        /\ work'[p] = NoWork
    BY DEF Restart
  <2>3. StageAt(p)'
    BY <1>2, <2>1, <2>2 DEF StageAt, IndexSteps, SearchSteps
  <2>4. DocumentAt(p)'
    <3>1. call[p].size > 0 => pc[p] # "idle"
      BY <2>1 DEF DocumentAt, IndexSteps
    <3>2. pc'[p] \in {"idle", "over"} /\ (call[p].size > 0 => pc'[p] = "over")
      BY <2>2, <3>1
    <3>3. (p \in documents' => p \in documents /\ chunks'[p] = chunks[p])
          /\ (chunks[p] = 0 => chunks'[p] = 0)
      BY <1>3
    <3>4. QED
      BY <1>2, <2>1, <3>2, <3>3 DEF DocumentAt, IndexSteps
  <2>5. KnownAt(p)' /\ IndexAt(p)' /\ SearchAt(p)'
    BY <2>2 DEF KnownAt, IndexAt, SearchAt, Listed
  <2>6. ReplyAt(p)'
    BY <1>2, <2>1, <2>2
       DEF ReplyAt, Backed, Stored, Admissible, Indexable, Meant, Indexes
  <2>7. QED
    BY <2>3, <2>4, <2>5, <2>6 DEF CallAt
<1>7. QED
  BY <1>4, <1>5, <1>6 DEF RagInv

LEMMA StutterStep ==
    ASSUME RagInv, UNCHANGED vars
    PROVE  RagInv'
<1>1. TypeOK'
  BY DEF RagInv, TypeOK, vars
<1>2. TypeOK
  BY DEF RagInv
<1>3. \A q \in Callers : CallAt(q)'
  BY <1>1, <1>2, LocalKept, CallKept DEF vars, Still, repoVars, storeVars
<1>4. VectorsAt' /\ RecordsBacked'
  BY <1>1, <1>2, LocalKept, VectorsKept, RecordsKept DEF vars, repoVars
<1>5. QED
  BY <1>1, <1>3, <1>4 DEF RagInv

-----------------------------------------------------------------------------
(* The theorems.                                                           *)

LEMMA RagInit == Init => RagInv
<1> SUFFICES ASSUME Init PROVE RagInv
  OBVIOUS
<1>1. TypeOK
  BY TypeInit
<1>2. VectorsAt /\ RecordsBacked
  BY DEF Init, VectorsAt, RecordsBacked
<1>3. ASSUME NEW p \in Callers PROVE CallAt(p)
  <2>1. /\ call[p].op = "none" /\ call[p].size = 0
        /\ pc[p] = "idle" /\ work[p] = NoWork /\ reply[p] = NoReply
        /\ p \notin documents /\ chunks[p] = 0
    BY DEF Init, Asks
  <2>2. StageAt(p) /\ DocumentAt(p) /\ KnownAt(p) /\ IndexAt(p) /\ SearchAt(p)
    BY <2>1 DEF StageAt, DocumentAt, KnownAt, IndexAt, SearchAt, Listed, NoReply, Says
  <2>3. ReplyAt(p)
    BY <2>1 DEF ReplyAt, NoReply, Says
  <2>4. QED
    BY <2>2, <2>3 DEF CallAt
<1>4. QED
  BY <1>1, <1>2, <1>3 DEF RagInv

LEMMA RagNext == RagInv /\ [Next]_vars => RagInv'
<1> SUFFICES ASSUME RagInv, [Next]_vars PROVE RagInv'
  OBVIOUS
<1>1. TypeOK'
  BY TypeStep
<1>2. ASSUME NEW p \in Callers, Request(p) PROVE RagInv'
  BY <1>1, <1>2, RequestStep
<1>3. ASSUME NEW p \in Callers, Step(p) PROVE RagInv'
  BY <1>1, <1>3, SaveDocumentStep, SaveChunkStep, GetDocumentStep, ListChunksStep,
     EnsureCollectionStep, UpsertStep, SaveRecordStep, VectorSearchStep, HydrateStep,
     ListDocumentsStep, CollectChunksStep, AnswerLexicallyStep, DeleteVectorsStep DEF Step
<1>4. ASSUME NEW p \in Callers, RepositoryError(p) \/ VectorError(p) PROVE RagInv'
  BY <1>1, <1>4, RepositoryErrorStep, VectorErrorStep
<1>5. CASE Restart
  BY <1>1, <1>5, RestartStep
<1>6. CASE UNCHANGED vars
  BY <1>6, StutterStep
<1>7. QED
  BY <1>2, <1>3, <1>4, <1>5, <1>6 DEF Next

\* The invariant holds throughout: threads are where the code can be, with the
\* locals it has there, and answers have said what stays true.
THEOREM RagInvariant == Spec => []RagInv
BY RagInit, RagNext, PTL DEF Spec

\* Documents, vectors, threads and answers keep their types.
THEOREM TypeCorrect == Spec => []TypeOK
<1>1. RagInv => TypeOK
  BY DEF RagInv
<1>2. QED
  BY <1>1, RagInvariant, PTL

\* No embedding record speaks of a vector that was never upserted: the record
\* is saved after the upsert whatever fails or runs at the same time.
THEOREM RecordsAreBacked == Spec => []RecordsBacked
<1>1. RagInv => RecordsBacked
  BY DEF RagInv
<1>2. QED
  BY <1>1, RagInvariant, PTL

\* An "indexed" answer is about all the chunks of a document that was ingested
\* when the call began, each with its vector and, in SQL, its record.
THEOREM IndexedAnswers == Spec => []IndexedIsComplete
<1>1. RagInv => IndexedIsComplete
  BY DEF RagInv, CallAt, ReplyAt, Backed, IndexedIsComplete
<1>2. QED
  BY <1>1, RagInvariant, PTL

\* With an SQL repository every result of a search has its text: it outlives
\* the restart that an in-memory repository does not.
THEOREM EvidenceIsDurable == Spec => []DurableEvidence
<1>1. RagInv => DurableEvidence
  BY DEF RagInv, CallAt, ReplyAt, DurableEvidence
<1>2. QED
  BY <1>1, RagInvariant, PTL

\* A search returns chunks of its tenant's documents, or, from a collection, of
\* documents a call has indexed there for its tenant, whatever was ingested,
\* indexed, deleted or lost while it ran.
THEOREM SearchIsolation == Spec => []TenantIsolated
<1>1. RagInv => TenantIsolated
  BY DEF RagInv, CallAt, ReplyAt, Admissible, Indexable, Meant, TenantIsolated
<1>2. QED
  BY <1>1, RagInvariant, PTL

-----------------------------------------------------------------------------
(* What a step of one thread leaves to another.                            *)

LEMMA FailOthers ==
    ASSUME TypeOK, NEW q \in Callers, Fail(q), NEW p \in Callers \ {q}
    PROVE  pc'[p] = pc[p] /\ work'[p] = work[p] /\ reply'[p] = reply[p]
BY AnswerEffect, MoveEffect DEF Fail, Goto

\* Whatever a thread does without a failure, the others stay where they are.
LEMMA OthersStill ==
    ASSUME TypeOK, NEW q \in Callers, Request(q) \/ Step(q), NEW p \in Callers \ {q}
    PROVE  Still(p) /\ faults' = faults
<1> USE DEF envVars, storeVars
<1>1. ASSUME NEW payload, NEW at, NEW heard, Start(q, payload, at, heard)
      PROVE  Still(p) /\ faults' = faults
  BY <1>1 DEF Start, TypeOK, Still
<1>2. CASE Request(q)
  <2>1. CASE SearchInline(q) \/ Refuse(q)
    BY <2>1, AnswerEffect DEF SearchInline, Refuse, Still
  <2>2. QED
    BY <1>1, <1>2, <2>1 DEF Request, Ingest, Index, Search, Delete
<1>3. ASSUME pc'[p] = pc[p] /\ work'[p] = work[p] /\ reply'[p] = reply[p],
             known' = known, faults' = faults, call'[p] = call[p]
      PROVE  Still(p) /\ faults' = faults
  BY <1>3 DEF Still
<1>4. CASE SaveDocument(q) \/ SaveChunk(q)
  BY <1>3, <1>4, AnswerEffect, MoveEffect DEF SaveDocument, SaveChunk, Goto, TypeOK
<1>5. CASE GetDocument(q) \/ ListChunks(q) \/ EnsureCollection(q) \/ Upsert(q)
  BY <1>3, <1>5, FailOthers, MoveEffect
     DEF GetDocument, ListChunks, EnsureCollection, Upsert, Goto
<1>6. CASE SaveRecord(q)
  BY <1>3, <1>6, FailOthers, AnswerEffect, MoveEffect DEF SaveRecord
<1>7. CASE VectorSearch(q) \/ Hydrate(q) \/ ListDocuments(q) \/ CollectChunks(q)
  BY <1>3, <1>7, FailOthers, AnswerEffect, MoveEffect
     DEF VectorSearch, Hydrate, ListDocuments, CollectChunks
<1>8. CASE AnswerLexically(q) \/ DeleteVectors(q)
  BY <1>3, <1>8, FailOthers, AnswerEffect DEF AnswerLexically, DeleteVectors
<1>9. QED
  BY <1>2, <1>4, <1>5, <1>6, <1>7, <1>8 DEF Step

\* A call that has been made stays the same, but for the size of a document.
LEMMA CallsKept ==
    ASSUME RagInv, [Next]_vars
    PROVE  /\ faults' >= faults
           /\ \A q \in Callers : call[q].op # "none" =>
                /\ call'[q].op = call[q].op /\ call'[q].doc = call[q].doc
                /\ call'[q].tenant = call[q].tenant
                /\ call[q].coll \in Collections => call'[q].coll = call[q].coll
<1>0. /\ TypeOK /\ faults \in Int
      /\ \A q \in Callers : pc[q] = "idle" => call[q].op = "none"
      /\ \A q \in Callers : pc[q] = "save_chunk" => call[q].coll = NoCollection
  BY DEF RagInv, CallAt, StageAt, TypeOK, IndexSteps, SearchSteps
<1>1. ASSUME NEW p \in Callers, Request(p) \/ Step(p), NEW q \in Callers,
             call[q].op # "none"
      PROVE  /\ faults' >= faults
             /\ call'[q].op = call[q].op /\ call'[q].doc = call[q].doc
             /\ call'[q].tenant = call[q].tenant
             /\ call[q].coll \in Collections => call'[q].coll = call[q].coll
  <2>1. CASE q # p
    BY <1>0, <1>1, <2>1, OthersStill DEF Still
  <2>2. CASE q = p
    <3>1. ~Request(p)
      BY <1>0, <1>1, <2>2
         DEF Request, Ingest, Index, Search, Delete, Start, SearchInline, Refuse
    <3>2. CASE SaveChunk(p)
      BY <1>0, <2>2, <3>2, RagAssumption DEF SaveChunk, TypeOK, Call, envVars
    <3>3. CASE Step(p) /\ ~SaveChunk(p)
      <4>1. call' = call /\ faults' = faults
        BY <3>3 DEF Step, SaveDocument, GetDocument, ListChunks, EnsureCollection,
           Upsert, SaveRecord, VectorSearch, Hydrate, ListDocuments, CollectChunks,
           AnswerLexically, DeleteVectors, envVars, storeVars
      <4>2. QED
        BY <1>0, <2>2, <4>1
    <3>4. QED
      BY <1>1, <3>1, <3>2, <3>3
  <2>3. QED
    BY <2>1, <2>2
<1>2. ASSUME NEW p \in Callers, Request(p) \/ Step(p) PROVE faults' = faults
  BY <1>2 DEF Request, Ingest, Index, Search, Delete, Start, SearchInline, Refuse,
     Step, SaveDocument, SaveChunk, GetDocument, ListChunks, EnsureCollection,
     Upsert, SaveRecord, VectorSearch, Hydrate, ListDocuments, CollectChunks,
     AnswerLexically, DeleteVectors, envVars, storeVars
<1>3. ASSUME NEW p \in Callers, RepositoryError(p) \/ VectorError(p)
      PROVE  call' = call /\ faults' = faults + 1
  BY <1>3 DEF RepositoryError, VectorError
<1>4. CASE Restart
  BY <1>0, <1>4 DEF Restart
<1>5. CASE UNCHANGED vars
  BY <1>0, <1>5 DEF vars
<1>6. QED
  BY <1>0, <1>1, <1>2, <1>3, <1>4, <1>5 DEF Next

-----------------------------------------------------------------------------
(* An ingestion nothing disturbs.                                          *)

\* No store has failed and no other call indexes the document of p.
Undisturbed(p) ==
    /\ faults = 0
    /\ \A q \in Callers \ {p} : call[q].op = "index" => call[q].doc # p

\* The collection of p is there, and another call indexes into it.
Crowded(p) ==
    /\ call[p].coll \in collections
    /\ \E q \in Callers \ {p}, d \in Callers : Indexes(q, d, call[p].coll)

\* A call that found no collection c, and has had it created.
Creator(q, c) ==
    /\ call[q].op \in {"ingest", "index"} /\ call[q].coll = c
    /\ pc[q] \in {"upsert", "save_record", "over"}

\* Every collection was created by a call that is past creating one.
CollectionsMade == \A c \in collections : \E q \in Callers : Creator(q, c)

\* The records of a document are those its own ingestion has saved so far, so
\* that it never meets one that is there already.
CleanAt(p) ==
    Undisturbed(p) =>
        /\ \A k \in 1..MaxChunks :
             \/ records[<<p, k>>] = NoCollection
             \/ pc[p] = "over"
             \/ pc[p] = "save_record" /\ k <= work[p].done
        /\ call[p].op = "ingest" =>
             \/ reply[p].status # "error" /\ reply[p].detail # "index_skipped"
             \/ Crowded(p)

LEMMA UndisturbedBefore ==
    ASSUME RagInv, [Next]_vars, NEW p \in Callers, Undisturbed(p)'
    PROVE  Undisturbed(p)
<1>1. faults' = 0 /\ faults \in Nat /\ faults' >= faults
  BY CallsKept DEF Undisturbed, RagInv, TypeOK
<1>2. QED
  BY <1>1, CallsKept DEF Undisturbed

\* The calls that index into a collection go on doing so.
LEMMA CrowdedKept ==
    ASSUME RagInv, [Next]_vars, NEW p \in Callers, Crowded(p), call[p].op # "none",
           collections \subseteq collections'
    PROVE  Crowded(p)'
<1>1. PICK q \in Callers \ {p}, d \in Callers : Indexes(q, d, call[p].coll)
  BY DEF Crowded
<1>2. call[p].coll \in collections /\ call[p].coll \in Collections
  BY DEF Crowded, RagInv, TypeOK
<1>3. call'[p].coll = call[p].coll
  BY <1>2, CallsKept
<1>4. call'[q].op \in {"ingest", "index"} /\ call'[q].doc = d
      /\ call'[q].coll = call[p].coll
  BY <1>1, <1>2, CallsKept DEF Indexes
<1>5. QED
  BY <1>2, <1>3, <1>4 DEF Crowded, Indexes

\* Only a call that is to index creates a collection, and is past it then.
LEMMA CollectionAdded ==
    ASSUME RagInv, [Next]_vars
    PROVE  /\ collections \subseteq collections'
           /\ \A c \in collections' \ collections : \E q \in Callers : Creator(q, c)'
<1>1. TypeOK
  BY DEF RagInv
<1>2. ASSUME NEW q \in Callers, pc[q] = "ensure", call' = call,
             collections' = collections \cup {call[q].coll},
             Fail(q) \/ Goto(q, "upsert")
      PROVE  /\ collections \subseteq collections'
             /\ \A c \in collections' \ collections : Creator(q, c)'
  <2>1. call[q].op \in {"ingest", "index"}
    BY <1>2, Indexing DEF IndexSteps
  <2>2. pc'[q] \in {"upsert", "over"}
    BY <1>1, <1>2, AnswerEffect, MoveEffect DEF Fail, Goto
  <2>3. QED
    BY <1>2, <2>1, <2>2 DEF Creator
<1>3. CASE \E q \in Callers : EnsureCollection(q)
  BY <1>2, <1>3 DEF EnsureCollection
<1>4. CASE \E q \in Callers : VectorError(q)
  BY <1>2, <1>4 DEF VectorError, DropVectors, storeVars
<1>5. CASE Restart \/ UNCHANGED vars
  BY <1>5 DEF Restart, vars, storeVars
<1>6. ASSUME NEW q \in Callers, ~EnsureCollection(q),
             Request(q) \/ Step(q) \/ RepositoryError(q)
      PROVE  collections' = collections
  BY <1>6 DEF Request, Ingest, Index, Search, Delete, Start, SearchInline, Refuse,
     Step, SaveDocument, SaveChunk, GetDocument, ListChunks, Upsert, SaveRecord,
     VectorSearch, Hydrate, ListDocuments, CollectChunks, AnswerLexically,
     DeleteVectors, RepositoryError, storeVars
<1>7. QED
  BY <1>3, <1>4, <1>5, <1>6 DEF Next

LEMMA CreatorKept ==
    ASSUME RagInv, [Next]_vars, NEW c \in Collections, NEW q \in Callers, Creator(q, c)
    PROVE  Creator(q, c)'
<1>1. /\ TypeOK /\ call[q].op \in {"ingest", "index"} /\ call[q].coll = c
      /\ pc[q] \in {"upsert", "save_record", "over"}
  BY DEF RagInv, Creator
<1>2. call'[q].op = call[q].op /\ call'[q].coll = c
  BY <1>1, CallsKept
<1>3. ASSUME Fail(q) PROVE pc'[q] = "over"
  BY <1>1, <1>3, AnswerEffect DEF Fail
<1>4. pc'[q] \in {"upsert", "save_record", "over"}
  <2>1. ASSUME NEW p \in Callers \ {q}, Request(p) \/ Step(p) PROVE pc'[q] = pc[q]
    BY <1>1, <2>1, OthersStill DEF Still
  <2>2. ASSUME NEW p \in Callers \ {q}, RepositoryError(p) \/ VectorError(p)
        PROVE  pc'[q] = pc[q]
    BY <1>1, <2>2, FailOthers DEF RepositoryError, VectorError
  <2>3. ASSUME RepositoryError(q) \/ VectorError(q) PROVE pc'[q] = "over"
    BY <1>3, <2>3 DEF RepositoryError, VectorError
  <2>4. CASE Upsert(q) \/ SaveRecord(q)
    BY <1>1, <1>3, <2>4, MoveEffect, AnswerEffect DEF Upsert, SaveRecord, Goto
  <2>5. Request(q) \/ Step(q) => Upsert(q) \/ SaveRecord(q)
    BY <1>1 DEF Request, Ingest, Index, Search, Delete, Start, SearchInline, Refuse,
       Step, SaveDocument, SaveChunk, GetDocument, ListChunks, EnsureCollection,
       VectorSearch, Hydrate, ListDocuments, CollectChunks, AnswerLexically,
       DeleteVectors
  <2>6. CASE Restart \/ UNCHANGED vars
    BY <1>1, <2>6 DEF Restart, vars
  <2>7. QED
    BY <1>1, <2>1, <2>2, <2>3, <2>4, <2>5, <2>6 DEF Next
<1>5. QED
  BY <1>1, <1>2, <1>4 DEF Creator

LEMMA CollectionsMadeStep ==
    ASSUME RagInv, [Next]_vars, CollectionsMade
    PROVE  CollectionsMade'
<1>1. ASSUME NEW c \in collections PROVE \E q \in Callers : Creator(q, c)'
  <2>1. PICK q \in Callers : Creator(q, c)
    BY DEF CollectionsMade
  <2>2. c \in Collections
    BY DEF RagInv, TypeOK
  <2>3. Creator(q, c)'
    BY <2>1, <2>2, CreatorKept
  <2>4. QED
    BY <2>3
<1>2. QED
  BY <1>1, CollectionAdded DEF CollectionsMade

\* The record a thread saves is of the document it indexes.
LEMMA SavedRecord ==
    ASSUME TypeOK, NEW q \in Callers, SaveRecord(q), NEW p \in Callers,
           NEW k \in 1..MaxChunks, records'[<<p, k>>] # records[<<p, k>>]
    PROVE  p = call[q].doc /\ k = work[q].done + 1
<1>1. <<p, k>> \in Chunk
  BY ChunkMember
<1>2. records' = [records EXCEPT ![<<call[q].doc, work[q].done + 1>>] = call[q].coll]
  BY DEF SaveRecord
<1>3. <<p, k>> = <<call[q].doc, work[q].done + 1>>
  BY <1>1, <1>2 DEF TypeOK
<1>4. QED
  BY <1>3

\* Only save_record writes records.
LEMMA RecordWriter ==
    ASSUME NEW q \in Callers, Request(q) \/ Step(q), ~SaveRecord(q)
    PROVE  records' = records
BY DEF Request, Ingest, Index, Search, Delete, Start, SearchInline, Refuse,
   Step, SaveDocument, SaveChunk, GetDocument, ListChunks, EnsureCollection,
   Upsert, VectorSearch, Hydrate, ListDocuments, CollectChunks,
   AnswerLexically, DeleteVectors, repoVars

\* The steps of an ingestion before its records: none of them fails by itself,
\* unless it finds a collection another call has had created.
LEMMA CleanBefore ==
    ASSUME RagInv, CollectionsMade, NEW p \in Callers, call[p].op = "ingest",
           \/ SaveDocument(p) \/ SaveChunk(p) \/ GetDocument(p) \/ ListChunks(p)
           \/ EnsureCollection(p) \/ Upsert(p)
    PROVE  \/ reply'[p].status # "error" /\ reply'[p].detail # "index_skipped"
           \/ Crowded(p)
<1>1. TypeOK /\ StageAt(p) /\ DocumentAt(p) /\ ReplyAt(p)
  BY DEF RagInv, CallAt
<1>2. pc[p] # "over" => reply[p] = NoReply
  BY <1>1 DEF ReplyAt
<1>3. ASSUME NEW at, NEW locals, Proceed(p, at, locals), pc[p] # "over"
      PROVE  reply'[p].status # "error" /\ reply'[p].detail # "index_skipped"
  BY <1>1, <1>2, <1>3, MoveEffect DEF NoReply, Says
<1>4. CASE SaveDocument(p) \/ Upsert(p)
  BY <1>3, <1>4 DEF SaveDocument, Upsert, Goto
<1>4a. CASE EnsureCollection(p)
  <2>1. pc[p] = "ensure" /\ (Goto(p, "upsert") \/ (config.qdrant /\ ~Absent(p)))
    BY <1>4a DEF EnsureCollection
  <2>2. CASE Goto(p, "upsert")
    BY <1>3, <2>1, <2>2 DEF Goto
  <2>3. CASE config.qdrant /\ ~Absent(p)
    <3>1. call[p].coll \in collections
      BY <2>3 DEF Absent
    <3>2. PICK q \in Callers : Creator(q, call[p].coll)
      BY <3>1 DEF CollectionsMade
    <3>3. q # p /\ call[q].doc \in Callers /\ Indexes(q, call[q].doc, call[p].coll)
      BY <1>1, <2>1, <3>2, Members DEF Creator, Indexes
    <3>4. QED
      BY <3>1, <3>3 DEF Crowded
  <2>4. QED
    BY <2>1, <2>2, <2>3
<1>5. CASE SaveChunk(p)
  <2>1. CASE Answer(p, Says("ingested", "none"))
    BY <1>1, <2>1, AnswerEffect DEF Says
  <2>2. QED
    BY <1>3, <1>5, <2>1 DEF SaveChunk, Goto
<1>6. CASE GetDocument(p)
  <2>1. pc[p] = "get_document" /\ pc[p] # "over"
    BY <1>6 DEF GetDocument
  <2>2. call[p].doc = p /\ p \in documents
    BY <1>1, <2>1 DEF StageAt, DocumentAt, IndexSteps
  <2>3. Goto(p, "list_chunks")
    BY <1>6, <2>2 DEF GetDocument
  <2>4. QED
    BY <1>3, <2>1, <2>3 DEF Goto
<1>7. CASE ListChunks(p)
  <2>1. pc[p] = "list_chunks" /\ pc[p] # "over"
    BY <1>7 DEF ListChunks
  <2>2. call[p].doc = p /\ chunks[p] > 0
    BY <1>1, <2>1 DEF StageAt, DocumentAt, IndexSteps
  <2>3. Proceed(p, "ensure", [work[p] EXCEPT !.count = chunks[p]])
    BY <1>7, <2>2 DEF ListChunks
  <2>4. QED
    BY <1>3, <2>1, <2>3
<1>8. QED
  BY <1>4, <1>4a, <1>5, <1>6, <1>7

\* The records of an undisturbed ingestion, one after the other.
LEMMA CleanSaveRecord ==
    ASSUME RagInv, NEW p \in Callers, Undisturbed(p), CleanAt(p), SaveRecord(p)
    PROVE  /\ \A k \in 1..MaxChunks :
                \/ records'[<<p, k>>] = NoCollection
                \/ pc'[p] = "over"
                \/ pc'[p] = "save_record" /\ k <= work'[p].done
           /\ call[p].op = "ingest" =>
                reply'[p].status # "error" /\ reply'[p].detail # "index_skipped"
<1> DEFINE next == <<call[p].doc, work[p].done + 1>>
<1>1. /\ TypeOK /\ StageAt(p) /\ IndexAt(p) /\ ReplyAt(p)
      /\ pc[p] = "save_record"
      /\ \A k \in 1..MaxChunks :
            records[<<p, k>>] = NoCollection \/ k <= work[p].done
  BY DEF RagInv, CallAt, CleanAt, SaveRecord
<1>2. /\ work[p].done \in 0..MaxChunks /\ work[p].count \in 0..MaxChunks
      /\ work[p].done < work[p].count /\ work[p] \in Work
  BY <1>1, Members DEF IndexAt, Listed
<1>3. work[p].done + 1 \in 1..MaxChunks /\ ~(work[p].done + 1 <= work[p].done)
  BY <1>2, BoundType
<1>4. CASE Fail(p)
  <2>1. pc'[p] = "over"
    BY <1>1, <1>4, AnswerEffect DEF Fail
  <2>2. ASSUME call[p].op = "ingest"
        PROVE  ~(config.sql /\ records[next] # NoCollection)
    <3>1. call[p].doc = p
      BY <1>1, <2>2 DEF StageAt
    <3>2. QED
      BY <1>1, <1>3, <3>1
  <2>3. ASSUME call[p].op = "ingest" PROVE FALSE
    <3>1. \/ Answer(p, Indexed(p))
          \/ Proceed(p, "save_record", [work[p] EXCEPT !.done = @ + 1])
      BY <2>2, <2>3 DEF SaveRecord
    <3>2. Proceed(p, "save_record", [work[p] EXCEPT !.done = @ + 1]) => FALSE
      BY <1>1, <2>1, MoveEffect
    <3>3. Answer(p, Indexed(p))
      BY <3>1, <3>2
    <3>4. reply'[p] = Indexed(p)
      BY <1>1, <3>3, AnswerEffect
    <3>5. Indexed(p).status = "ingested" /\ Indexed(p).detail = "indexed"
      BY <2>3 DEF Indexed
    <3>6. \/ Answer(p, Failed)
          \/ Answer(p, Says("ingested", "index_skipped"))
      BY <1>1, <1>4, <2>3 DEF Fail
    <3>7. \/ reply'[p] = Says("error", "none")
          \/ reply'[p] = Says("ingested", "index_skipped")
      BY <1>1, <3>6, AnswerEffect DEF Failed
    <3>8. QED
      BY <3>4, <3>5, <3>7 DEF Says
  <2>4. QED
    BY <2>1, <2>3
<1>5. CASE Answer(p, Indexed(p))
  <2>1. pc'[p] = "over" /\ reply'[p] = Indexed(p)
    BY <1>1, <1>5, AnswerEffect
  <2>2. QED
    BY <2>1 DEF Indexed
<1>6. CASE Proceed(p, "save_record", [work[p] EXCEPT !.done = @ + 1])
  <2>1. /\ pc'[p] = "save_record" /\ reply'[p] = NoReply
        /\ work'[p].done = work[p].done + 1
    <3>1. /\ pc'[p] = "save_record" /\ reply'[p] = reply[p]
          /\ work'[p] = [work[p] EXCEPT !.done = @ + 1]
      BY <1>1, <1>6, MoveEffect
    <3>2. reply[p] = NoReply
      BY <1>1 DEF ReplyAt
    <3>3. QED
      BY <1>2, <3>1, <3>2 DEF Work
  <2>2. ASSUME NEW k \in 1..MaxChunks
        PROVE  records'[<<p, k>>] = NoCollection \/ k <= work'[p].done
    <3>1. CASE records'[<<p, k>>] = records[<<p, k>>]
      BY <1>1, <1>2, <2>1, <3>1
    <3>2. CASE records'[<<p, k>>] # records[<<p, k>>]
      <4>1. k = work[p].done + 1
        BY <1>1, <3>2, SavedRecord
      <4>2. QED
        BY <2>1, <4>1
    <3>3. QED
      BY <3>1, <3>2
  <2>3. QED
    BY <2>1, <2>2 DEF NoReply, Says
<1>7. QED
  BY <1>4, <1>5, <1>6 DEF SaveRecord

LEMMA CleanStep ==
    ASSUME RagInv, [Next]_vars, CollectionsMade, NEW p \in Callers, CleanAt(p)
    PROVE  CleanAt(p)'
<1> SUFFICES ASSUME Undisturbed(p)'
             PROVE  /\ \A k \in 1..MaxChunks :
                         \/ records'[<<p, k>>] = NoCollection
                         \/ pc'[p] = "over"
                         \/ pc'[p] = "save_record" /\ k <= work'[p].done
                    /\ call'[p].op = "ingest" =>
                         \/ /\ reply'[p].status # "error"
                            /\ reply'[p].detail # "index_skipped"
                         \/ Crowded(p)'
  BY DEF CleanAt
<1>0. /\ TypeOK /\ StageAt(p) /\ ReplyAt(p)
      /\ Undisturbed(p)
      /\ \A k \in 1..MaxChunks :
             \/ records[<<p, k>>] = NoCollection
             \/ pc[p] = "over"
             \/ pc[p] = "save_record" /\ k <= work[p].done
      /\ call[p].op = "ingest" =>
             \/ reply[p].status # "error" /\ reply[p].detail # "index_skipped"
             \/ Crowded(p)
      /\ call[p].op # "none" /\ Crowded(p) => Crowded(p)'
  BY UndisturbedBefore, CrowdedKept, CollectionAdded DEF CleanAt, RagInv, CallAt
<1>1. ASSUME NEW q \in Callers, q # p, Request(q) \/ Step(q)
      PROVE  CleanAt(p)'
  <2>1. Still(p)
    BY <1>0, <1>1, OthersStill
  <2>2. ASSUME NEW k \in 1..MaxChunks PROVE records'[<<p, k>>] = records[<<p, k>>]
    <3>1. CASE ~SaveRecord(q)
      BY <1>1, <3>1, RecordWriter
    <3>2. CASE SaveRecord(q)
      <4>1. call[q].op = "index" \/ call[q].doc = q
        BY <3>2 DEF SaveRecord, RagInv, CallAt, StageAt, IndexSteps, SearchSteps
      <4>2. call[q].doc # p
        BY <1>0, <1>1, <4>1 DEF Undisturbed
      <4>3. QED
        BY <1>0, <3>2, <4>2, SavedRecord
    <3>3. QED
      BY <3>1, <3>2
  <2>3. QED
    BY <1>0, <2>1, <2>2 DEF Still, CleanAt
<1>2. ASSUME records' = records, pc[p] \notin {"over", "save_record"}
      PROVE  \A k \in 1..MaxChunks : records'[<<p, k>>] = NoCollection
  BY <1>0, <1>2
<1>3. CASE Request(p)
  <2>1. pc[p] = "idle" /\ records' = records
    BY <1>3, RecordWriter DEF Request, Ingest, Index, Search, Delete, Start,
       SearchInline, Refuse, SaveRecord
  <2>2. reply'[p] = NoReply \/ call'[p].op = "none"
    <3>1. reply[p] = NoReply /\ call[p].op = "none"
      BY <1>0, <2>1 DEF ReplyAt, StageAt, IndexSteps, SearchSteps
    <3>2. QED
      BY <1>3, <3>1 DEF Request, Ingest, Index, Search, Delete, Start, SearchInline,
         Refuse
  <2>3. QED
    BY <1>2, <2>1, <2>2 DEF NoReply, Says
<1>4. CASE \/ SaveDocument(p) \/ SaveChunk(p) \/ GetDocument(p) \/ ListChunks(p)
           \/ EnsureCollection(p) \/ Upsert(p)
  <2>1. records' = records
    BY <1>4 DEF SaveDocument, SaveChunk, GetDocument, ListChunks, EnsureCollection,
       Upsert, repoVars
  <2>2. pc[p] \notin {"idle", "over", "save_record"}
    BY <1>4 DEF SaveDocument, SaveChunk, GetDocument, ListChunks, EnsureCollection,
       Upsert
  <2>3. call[p].op # "none"
    BY <1>0, <2>2 DEF StageAt
  <2>4. call'[p].op = call[p].op
    BY <2>3, CallsKept
  <2>5. QED
    BY <1>0, <1>2, <1>4, <2>1, <2>2, <2>3, <2>4, CleanBefore
<1>5. CASE SaveRecord(p)
  <2>1. call' = call
    BY <1>5 DEF SaveRecord
  <2>2. QED
    BY <1>0, <1>5, <2>1, CleanSaveRecord
<1>6. CASE \/ VectorSearch(p) \/ Hydrate(p) \/ ListDocuments(p) \/ CollectChunks(p)
           \/ AnswerLexically(p) \/ DeleteVectors(p)
  <2>1. pc[p] \in SearchSteps \cup {"delete"}
    BY <1>6 DEF VectorSearch, Hydrate, ListDocuments, CollectChunks, AnswerLexically,
       DeleteVectors, SearchSteps
  <2>2. call' = call /\ records' = records
    BY <1>6 DEF VectorSearch, Hydrate, ListDocuments, CollectChunks, AnswerLexically,
       DeleteVectors, repoVars
  <2>3. call[p].op # "ingest" /\ pc[p] \notin {"over", "save_record"}
    BY <1>0, <2>1 DEF StageAt, SearchSteps, IndexSteps
  <2>4. QED
    BY <1>2, <2>2, <2>3
<1>7. ~Restart /\ \A q \in Callers : ~RepositoryError(q) /\ ~VectorError(q)
  <2>1. faults' = 0 /\ faults = 0
    BY <1>0 DEF Undisturbed
  <2>2. QED
    BY <2>1 DEF Restart, RepositoryError, VectorError
<1>8. CASE UNCHANGED vars
  BY <1>0, <1>8 DEF vars
<1>9. ASSUME NEW q \in Callers, Request(q) \/ Step(q) PROVE CleanAt(p)'
  <2>1. CASE q # p
    BY <1>1, <1>9, <2>1
  <2>2. CASE q = p
    BY <1>3, <1>4, <1>5, <1>6, <1>9, <2>2 DEF Step, CleanAt
  <2>3. QED
    BY <2>1, <2>2
<1>10. CASE \E q \in Callers : Request(q) \/ Step(q)
  BY <1>9, <1>10 DEF CleanAt
<1>11. QED
  BY <1>7, <1>8, <1>10 DEF Next

\* Without a failing store and without another call that indexes its document,
\* an ingestion is neither refused nor left without its vectors, unless another
\* call indexes into its collection, and the collection is there.
THEOREM CleanIngestion == Spec => []CleanIngestIndexed
<1> DEFINE CleanInv == RagInv /\ CollectionsMade /\ \A p \in Callers : CleanAt(p)
<1>1. Init => CleanInv
  <2> SUFFICES ASSUME Init PROVE CollectionsMade /\ \A p \in Callers : CleanAt(p)
    BY RagInit
  <2>0. CollectionsMade
    BY DEF Init, CollectionsMade
  <2>1. \A p \in Callers : \A k \in 1..MaxChunks : records[<<p, k>>] = NoCollection
    BY ChunkMember DEF Init
  <2>2. \A p \in Callers : call[p].op = "none"
    BY DEF Init, Asks
  <2>3. QED
    BY <2>0, <2>1, <2>2 DEF CleanAt
<1>2. CleanInv /\ [Next]_vars => CleanInv'
  <2> SUFFICES ASSUME CleanInv, [Next]_vars PROVE CleanInv'
    OBVIOUS
  <2>1. RagInv'
    BY RagNext
  <2>2. CollectionsMade' /\ \A p \in Callers : CleanAt(p)'
    BY CleanStep, CollectionsMadeStep
  <2>3. QED
    BY <2>1, <2>2
<1>3. CleanInv => CleanIngestIndexed
  BY DEF CleanAt, Undisturbed, Crowded, CleanIngestIndexed
<1> HIDE DEF CleanInv
<1>4. QED
  BY <1>1, <1>2, <1>3, PTL DEF Spec

-----------------------------------------------------------------------------
(* What a search of the repository finds.                                  *)

\* The chunks of the tenant's documents that were ingested when p began.
Due(p) ==
    {ch \in Chunk : /\ ch[1] \in known[p]
                    /\ call[ch[1]].tenant = call[p].tenant
                    /\ ch[2] <= call[ch[1]].size}

\* What of it a search has gathered, and how much of it its answer holds.
FoundAt(p) ==
    /\ \A d \in known[p] : call[d].size > 0
    /\ pc[p] = "collect" =>
        /\ IsFiniteSet(work[p].found)
        /\ \A ch \in Due(p) : ch[1] \in work[p].todo \/ ch \in work[p].found
    /\ reply[p].detail = "repository_lexical" =>
        Cardinality(reply[p].results) >= Least(Limit, Cardinality(Due(p)))

LEMMA ChunksOfFinite ==
    ASSUME TypeOK, NEW d \in Callers
    PROVE  IsFiniteSet(ChunksOf(d))
<1>1. chunks[d] \in Int
  BY BoundType DEF TypeOK
<1>2. IsFiniteSet({d}) /\ IsFiniteSet(1..chunks[d])
  <2>1. IsFiniteSet({d})
    BY FS_Singleton
  <2>2. IsFiniteSet(1..chunks[d])
    BY <1>1, FS_Interval
  <2>3. QED
    BY <2>1, <2>2
<1>3. IsFiniteSet({d} \X (1..chunks[d]))
  BY <1>2, FS_Product
<1>4. ChunksOf(d) \in SUBSET ({d} \X (1..chunks[d]))
  BY DEF ChunksOf
<1>5. QED
  BY <1>3, <1>4, FS_Subset

\* As many results as there are due chunks among the candidates, or the limit.
LEMMA CutKeeps ==
    ASSUME NEW candidates, IsFiniteSet(candidates), NEW due \in SUBSET candidates,
           NEW best \in Cut(candidates)
    PROVE  Cardinality(best) >= Least(Limit, Cardinality(due))
<1>1. /\ Cardinality(candidates) \in Nat /\ Cardinality(due) \in Nat
      /\ Cardinality(due) <= Cardinality(candidates)
  BY FS_Subset, FS_CardinalityType
<1>2. Cardinality(best) = Least(Limit, Cardinality(candidates))
  BY DEF Cut
<1>3. Limit \in Nat
  BY RagAssumption
<1>4. QED
  BY <1>1, <1>2, <1>3 DEF Least

\* The chunks due to a call do not change once it has begun.
LEMMA DueKept ==
    ASSUME RagInv, [Next]_vars, NEW p \in Callers, known'[p] = known[p],
           call[p].op # "none" \/ call'[p] = call[p] \/ known[p] = {},
           \A d \in known[p] : call[d].size > 0
    PROVE  /\ \A d \in known'[p] : call'[d].size > 0
           /\ Due(p)' = Due(p)
<1>1. TypeOK /\ known[p] \subseteq Callers
  BY Members DEF RagInv
<1>2. ASSUME NEW d \in known[p] PROVE call'[d].size = call[d].size
  <2>1. call[d].op = "ingest" /\ pc[d] \notin {"idle", "save_document", "save_chunk"}
    BY <1>1, <1>2 DEF RagInv, CallAt, DocumentAt, IndexSteps
  <2>2. ASSUME NEW q \in Callers, Request(q) \/ Step(q) PROVE call'[d] = call[d]
    <3>1. CASE q # d
      BY <1>1, <2>2, <3>1, OthersStill DEF Still
    <3>2. CASE q = d
      <4>1. ~Request(d) /\ ~SaveChunk(d)
        BY <2>1 DEF Request, Ingest, Index, Search, Delete, Start, SearchInline, Refuse,
           SaveChunk
      <4>2. QED
        BY <2>2, <3>2, <4>1 DEF Step, SaveDocument, GetDocument, ListChunks,
           EnsureCollection, Upsert, SaveRecord, VectorSearch, Hydrate, ListDocuments,
           CollectChunks, AnswerLexically, DeleteVectors
    <3>3. QED
      BY <3>1, <3>2
  <2>3. CASE Restart \/ UNCHANGED vars
    BY <2>3 DEF Restart, vars
  <2>4. CASE \E q \in Callers : RepositoryError(q) \/ VectorError(q)
    BY <2>4 DEF RepositoryError, VectorError
  <2>5. QED
    BY <2>2, <2>3, <2>4 DEF Next
<1>3. \A d \in known[p] : call[d].op = "ingest" /\ call'[d].tenant = call[d].tenant
  <2>1. \A d \in known[p] : call[d].op = "ingest"
    BY <1>1 DEF RagInv, CallAt, DocumentAt
  <2>2. QED
    BY <1>1, <2>1, CallsKept
<1>4. known[p] = {} \/ call'[p].tenant = call[p].tenant
  BY CallsKept
<1>5. \A d \in known'[p] : call'[d].size > 0
  BY <1>2
<1>6. \A ch \in Chunk :
        /\ ch[1] \in known'[p]
        /\ call'[ch[1]].tenant = call'[p].tenant
        /\ ch[2] <= call'[ch[1]].size
        <=> /\ ch[1] \in known[p]
            /\ call[ch[1]].tenant = call[p].tenant
            /\ ch[2] <= call[ch[1]].size
  BY <1>2, <1>3, <1>4
<1>7. Due(p)' = Due(p)
  BY <1>6 DEF Due
<1>8. QED
  BY <1>5, <1>7

\* A call that begins knows documents of which all the chunks are saved.
LEMMA FoundStart ==
    ASSUME RagInv, NEW p \in Callers, Request(p), FoundAt(p)
    PROVE  FoundAt(p)'
<1>1. TypeOK /\ ReplyAt(p) /\ StageAt(p)
  BY DEF RagInv, CallAt
<1>2. /\ \A d \in Callers : pc[d] = "idle" => call[d].size = 0
      /\ \A d \in Callers : call[d].size \in Nat
  BY Members, BoundType DEF RagInv, CallAt, DocumentAt, IndexSteps
<1>3. pc[p] = "idle" /\ reply[p] = NoReply
  BY <1>1 DEF ReplyAt, Request, Ingest, Index, Search, Delete, Start, SearchInline,
     Refuse
<1>4. ASSUME NEW payload, NEW at, NEW heard \in SUBSET Ingested,
             Start(p, payload, at, heard), at # "collect"
      PROVE  FoundAt(p)'
  <2>1. /\ pc'[p] = at /\ known'[p] = heard /\ reply'[p] = NoReply
        /\ \A d \in Callers \ {p} : call'[d] = call[d]
    BY <1>1, <1>3, <1>4 DEF Start, TypeOK
  <2>2. \A d \in Ingested : d \in Callers /\ d # p /\ call[d].size > 0
    BY <1>1, <1>2, <1>3 DEF Ingested, RagInv, CallAt, DocumentAt, TypeOK, NoReply, Says
  <2>3. QED
    BY <1>4, <2>1, <2>2 DEF FoundAt, NoReply, Says
<1>5. CASE SearchInline(p) \/ Refuse(p)
  <2>1. /\ known' = known /\ call' = call /\ pc'[p] = "over"
        /\ reply'[p].detail # "repository_lexical"
    BY <1>1, <1>5, AnswerEffect DEF SearchInline, Refuse, Finds, Failed, Says
  <2>2. QED
    BY <2>1 DEF FoundAt
<1>6. QED
  BY <1>4, <1>5 DEF Request, Ingest, Index, Search, Delete

\* A step that neither gathers nor answers from the repository.
LEMMA FoundQuiet ==
    ASSUME RagInv, [Next]_vars, NEW p \in Callers, FoundAt(p), known'[p] = known[p],
           call[p].op # "none" \/ call'[p] = call[p],
           \/ pc'[p] # "collect"
           \/ pc'[p] = pc[p] /\ work'[p] = work[p],
           reply'[p] = reply[p] \/ reply'[p].detail # "repository_lexical"
    PROVE  FoundAt(p)'
<1>1. /\ \A d \in known'[p] : call'[d].size > 0
      /\ Due(p)' = Due(p)
  BY DueKept DEF FoundAt
<1>2. QED
  BY <1>1 DEF FoundAt

LEMMA FoundFail ==
    ASSUME RagInv, [Next]_vars, NEW p \in Callers, FoundAt(p), Fail(p),
           known'[p] = known[p], call'[p] = call[p]
    PROVE  FoundAt(p)'
<1>1. TypeOK
  BY DEF RagInv
<1>2. \/ pc'[p] = "over" /\ reply'[p].detail # "repository_lexical"
      \/ pc'[p] = "list_documents" /\ reply'[p] = reply[p]
  BY <1>1, AnswerEffect, MoveEffect DEF Fail, Goto, Failed, Says
<1>3. QED
  BY <1>2, FoundQuiet

\* The documents of the tenant, then their chunks, are gathered one by one.
LEMMA FoundGathers ==
    ASSUME RagInv, [Next]_vars, NEW p \in Callers, FoundAt(p),
           ListDocuments(p) \/ CollectChunks(p)
    PROVE  FoundAt(p)'
<1>1. /\ TypeOK /\ IndexAt(p) /\ ReplyAt(p) /\ KnownAt(p)
      /\ \A d \in Callers : DocumentAt(d)
      /\ pc[p] \in {"list_documents", "collect"}
  BY DEF RagInv, CallAt, ListDocuments, CollectChunks
<1>2. known' = known /\ call' = call /\ chunks' = chunks
  BY DEF ListDocuments, CollectChunks, repoVars
<1>3. /\ \A d \in known'[p] : call'[d].size > 0
      /\ Due(p)' = Due(p)
  BY <1>2, DueKept DEF FoundAt
<1>4. reply[p] = NoReply
  BY <1>1 DEF ReplyAt
<1>5. \A d \in known[p] : d \in documents /\ d \in Callers /\ chunks[d] = call[d].size
  BY <1>1, Members DEF KnownAt, DocumentAt
<1>6. work[p].found \subseteq Chunk /\ work[p].todo \subseteq Callers
  BY <1>1, Members
<1>7. CASE ListDocuments(p)
  <2>1. Proceed(p, "collect", [work[p] EXCEPT
                !.todo = {d \in documents : call[d].tenant = call[p].tenant}])
    BY <1>7 DEF ListDocuments
  <2>2. /\ pc'[p] = "collect" /\ reply'[p] = NoReply
        /\ work'[p] = [work[p] EXCEPT
                !.todo = {d \in documents : call[d].tenant = call[p].tenant}]
    BY <1>1, <1>4, <2>1, MoveEffect
  <2>3. work[p] = NoWork
    BY <1>1, <1>7 DEF IndexAt, ListDocuments, Listed
  <2>4. /\ work'[p].found = {}
        /\ work'[p].todo = {d \in documents : call[d].tenant = call[p].tenant}
    BY <2>2, <2>3 DEF NoWork
  <2>5. \A ch \in Due(p) : ch[1] \in work'[p].todo
    BY <1>5, <2>4 DEF Due
  <2>6. IsFiniteSet(work'[p].found)
    BY <2>4, FS_EmptySet
  <2>7. QED
    BY <1>3, <2>2, <2>5, <2>6 DEF FoundAt, NoReply, Says
<1>8. CASE CollectChunks(p)
  <2>1. PICK d \in work[p].todo :
          Proceed(p, "collect", [count |-> 0, done |-> 0, todo |-> work[p].todo \ {d},
                                 found |-> work[p].found \cup ChunksOf(d)])
    BY <1>8 DEF CollectChunks
  <2>2. /\ pc'[p] = "collect" /\ reply'[p] = NoReply
        /\ work'[p] = [count |-> 0, done |-> 0, todo |-> work[p].todo \ {d},
                       found |-> work[p].found \cup ChunksOf(d)]
    BY <1>1, <1>4, <2>1, MoveEffect
  <2>3. /\ work'[p].todo = work[p].todo \ {d}
        /\ work'[p].found = work[p].found \cup ChunksOf(d)
    BY <2>2
  <2>4. /\ IsFiniteSet(work[p].found)
        /\ \A ch \in Due(p) : ch[1] \in work[p].todo \/ ch \in work[p].found
    BY <1>8 DEF FoundAt, CollectChunks
  <2>5. d \in Callers
    BY <1>6
  <2>6. IsFiniteSet(work'[p].found)
    <3>1. IsFiniteSet(ChunksOf(d))
      BY <1>1, <2>5, ChunksOfFinite
    <3>2. QED
      BY <2>3, <2>4, <3>1, FS_Union
  <2>7. ASSUME NEW ch \in Due(p)
        PROVE  ch[1] \in work'[p].todo \/ ch \in work'[p].found
    <3>1. CASE ch[1] = d
      <4>1. ch \in Chunk /\ ch[1] \in known[p] /\ ch[2] <= call[ch[1]].size
        BY DEF Due
      <4>2. ch = <<d, ch[2]>> /\ ch[2] \in 1..MaxChunks /\ ch[2] <= chunks[d]
        BY <1>5, <3>1, <4>1, ChunkParts
      <4>3. chunks[d] \in Int
        BY <1>1, <2>5, Members, BoundType
      <4>4. ch[2] \in 1..chunks[d]
        BY <4>2, <4>3, BoundType
      <4>5. ch \in ChunksOf(d)
        BY <4>2, <4>4 DEF ChunksOf
      <4>6. QED
        BY <2>3, <4>5
    <3>2. CASE ch[1] # d
      BY <2>3, <2>4, <3>2
    <3>3. QED
      BY <3>1, <3>2
  <2>8. QED
    BY <1>3, <2>2, <2>6, <2>7 DEF FoundAt, NoReply, Says
<1>9. QED
  BY <1>7, <1>8

LEMMA FoundAnswers ==
    ASSUME RagInv, [Next]_vars, NEW p \in Callers, FoundAt(p), AnswerLexically(p)
    PROVE  FoundAt(p)'
<1>1. TypeOK
  BY DEF RagInv
<1>2. /\ \A d \in known'[p] : call'[d].size > 0
      /\ Due(p)' = Due(p)
  BY DueKept DEF FoundAt, AnswerLexically
<1>3. PICK best \in Cut(work[p].found) :
        Answer(p, Finds("repository_lexical", best, best))
  BY DEF AnswerLexically
<1>4. pc'[p] = "over" /\ reply'[p] = Finds("repository_lexical", best, best)
  BY <1>1, <1>3, AnswerEffect
<1>5. IsFiniteSet(work[p].found) /\ Due(p) \in SUBSET work[p].found
  BY DEF FoundAt, AnswerLexically
<1>6. Cardinality(best) >= Least(Limit, Cardinality(Due(p)))
  BY <1>5, CutKeeps
<1>7. reply'[p].results = best
  BY <1>4 DEF Finds
<1>8. QED
  BY <1>2, <1>4, <1>6, <1>7 DEF FoundAt

LEMMA FoundNext ==
    ASSUME RagInv, [Next]_vars, NEW p \in Callers, FoundAt(p)
    PROVE  FoundAt(p)'
<1>0. TypeOK /\ StageAt(p) /\ ReplyAt(p)
  BY DEF RagInv, CallAt
<1>1. ASSUME NEW q \in Callers, q # p, Request(q) \/ Step(q) PROVE FoundAt(p)'
  <2>1. Still(p)
    BY <1>0, <1>1, OthersStill
  <2>2. QED
    BY <2>1, FoundQuiet DEF Still
<1>2. CASE Request(p)
  BY <1>2, FoundStart
<1>3. CASE SaveDocument(p) \/ SaveChunk(p)
  <2>1. /\ pc'[p] \in {"save_chunk", "get_document", "over"} /\ known' = known
        /\ reply'[p] = reply[p] \/ reply'[p].detail # "repository_lexical"
    BY <1>0, <1>3, MoveEffect, AnswerEffect DEF SaveDocument, SaveChunk, Goto, Says
  <2>2. call[p].op # "none"
    BY <1>0, <1>3 DEF StageAt, SaveDocument, SaveChunk
  <2>3. QED
    BY <2>1, <2>2, FoundQuiet
<1>4. CASE GetDocument(p) \/ ListChunks(p)
  <2>1. CASE Fail(p)
    BY <1>4, <2>1, FoundFail DEF GetDocument, ListChunks
  <2>2. CASE ~Fail(p)
    <3>1. pc'[p] \in {"list_chunks", "ensure"} /\ reply'[p] = reply[p]
      BY <1>0, <1>4, <2>2, MoveEffect DEF GetDocument, ListChunks, Goto
    <3>2. QED
      BY <1>4, <3>1, FoundQuiet DEF GetDocument, ListChunks
  <2>3. QED
    BY <2>1, <2>2
<1>5. CASE EnsureCollection(p) \/ Upsert(p)
  <2>1. CASE Fail(p)
    BY <1>5, <2>1, FoundFail DEF EnsureCollection, Upsert
  <2>2. CASE ~Fail(p)
    <3>1. pc'[p] \in {"upsert", "save_record"} /\ reply'[p] = reply[p]
      BY <1>0, <1>5, <2>2, MoveEffect DEF EnsureCollection, Upsert, Goto
    <3>2. QED
      BY <1>5, <3>1, FoundQuiet DEF EnsureCollection, Upsert
  <2>3. QED
    BY <2>1, <2>2
<1>6. CASE SaveRecord(p)
  <2>1. CASE Fail(p)
    BY <1>6, <2>1, FoundFail DEF SaveRecord
  <2>2. CASE ~Fail(p)
    <3>1. \/ Proceed(p, "save_record", [work[p] EXCEPT !.done = @ + 1])
          \/ Answer(p, Indexed(p))
      BY <1>6, <2>2 DEF SaveRecord
    <3>2. \/ pc'[p] = "save_record" /\ reply'[p] = reply[p]
          \/ pc'[p] = "over" /\ reply'[p].detail # "repository_lexical"
      BY <1>0, <3>1, MoveEffect, AnswerEffect DEF Indexed
    <3>3. QED
      BY <1>6, <3>2, FoundQuiet DEF SaveRecord
  <2>3. QED
    BY <2>1, <2>2
<1>7. CASE VectorSearch(p) \/ Hydrate(p) \/ DeleteVectors(p)
  <2>1. CASE Fail(p)
    BY <1>7, <2>1, FoundFail DEF VectorSearch, Hydrate, DeleteVectors
  <2>2. CASE ~Fail(p)
    <3>1. /\ pc'[p] \in {"list_documents", "hydrate", "over"}
          /\ reply'[p] = reply[p] \/ reply'[p].detail # "repository_lexical"
      <4>1. CASE VectorSearch(p)
        <5>1. \E at \in {"list_documents", "hydrate"} : \E locals : Proceed(p, at, locals)
          BY <2>2, <4>1 DEF VectorSearch
        <5>2. QED
          BY <1>0, <5>1, MoveEffect
      <4>2. CASE Hydrate(p) \/ DeleteVectors(p)
        <5>1. \E answer : Answer(p, answer) /\ answer.detail # "repository_lexical"
          BY <2>2, <4>2 DEF Hydrate, DeleteVectors, Finds, Says
        <5>2. QED
          BY <1>0, <5>1, AnswerEffect
      <4>3. QED
        BY <1>7, <4>1, <4>2
    <3>2. QED
      BY <1>7, <3>1, FoundQuiet DEF VectorSearch, Hydrate, DeleteVectors
  <2>3. QED
    BY <2>1, <2>2
<1>8. CASE ListDocuments(p) \/ CollectChunks(p)
  BY <1>8, FoundGathers
<1>9. CASE AnswerLexically(p)
  BY <1>9, FoundAnswers
<1>10. ASSUME NEW q \in Callers, RepositoryError(q) \/ VectorError(q)
       PROVE  FoundAt(p)'
  <2>1. Fail(q) /\ known' = known /\ call' = call
    BY <1>10 DEF RepositoryError, VectorError
  <2>2. CASE q = p
    BY <2>1, <2>2, FoundFail
  <2>3. CASE q # p
    <3>1. pc'[p] = pc[p] /\ work'[p] = work[p] /\ reply'[p] = reply[p]
      BY <1>0, <2>1, <2>3, FailOthers
    <3>2. QED
      BY <2>1, <3>1, FoundQuiet
  <2>4. QED
    BY <2>2, <2>3
<1>11. CASE Restart
  <2>1. pc'[p] # "collect" /\ reply' = reply /\ known' = known /\ call' = call
    BY <1>11 DEF Restart
  <2>2. QED
    BY <2>1, FoundQuiet
<1>12. CASE UNCHANGED vars
  BY <1>12, FoundQuiet DEF vars
<1>13. ASSUME NEW q \in Callers, Request(q) \/ Step(q) PROVE FoundAt(p)'
  <2>1. CASE q # p
    BY <1>1, <1>13, <2>1
  <2>2. CASE q = p
    BY <1>2, <1>3, <1>4, <1>5, <1>6, <1>7, <1>8, <1>9, <1>13, <2>2 DEF Step
  <2>3. QED
    BY <2>1, <2>2
<1>14. QED
  BY <1>10, <1>11, <1>12, <1>13 DEF Next

\* A search that falls back to the repository holds as many results as the
\* documents ingested before it began have chunks, up to the limit, whatever
\* else was ingested, indexed, deleted or lost while it ran.
THEOREM IngestionsFound == Spec => []IngestedIsFound
<1> DEFINE FoundInv == RagInv /\ \A p \in Callers : FoundAt(p)
<1>1. Init => FoundInv
  <2> SUFFICES ASSUME Init PROVE \A p \in Callers : FoundAt(p)
    BY RagInit
  <2>1. QED
    BY DEF Init, FoundAt, NoReply, Says
<1>2. FoundInv /\ [Next]_vars => FoundInv'
  <2> SUFFICES ASSUME FoundInv, [Next]_vars PROVE FoundInv'
    OBVIOUS
  <2>1. RagInv'
    BY RagNext
  <2>2. \A p \in Callers : FoundAt(p)'
    BY FoundNext
  <2>3. QED
    BY <2>1, <2>2
<1>3. FoundInv => IngestedIsFound
  BY DEF FoundAt, Due, IngestedIsFound
<1> HIDE DEF FoundInv
<1>4. QED
  BY <1>1, <1>2, <1>3, PTL DEF Spec

=============================================================================
