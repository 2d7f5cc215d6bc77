--------------------------------- MODULE Vault ---------------------------------
(***************************************************************************)
(* The vault of go-agent/internal/vault and those who work on it at the    *)
(* same time: searches (chain/go_steps.go) over a sparse and a dense       *)
(* index, ingestions (chain/vault_steps.go), the sedimentation of          *)
(* conversations (memory/sedimentation.go), and a person with an editor.   *)
(*                                                                         *)
(* A walk over the vault is one step: it reads each page at one instant,   *)
(* and nothing below relates two pages.                                    *)
(***************************************************************************)
EXTENDS Retrieval

CONSTANTS
  None,
  Pages,         \* paths of pages
  Contents,      \* what a page may hold: records with body, tags and category
  InitialDisks,  \* what the vault may hold at the beginning
  Queries,
  Searchers,     \* concurrent runs of VaultSearchStep
  Warmup,        \* the start-up indexing
  Ingesters,     \* concurrent ingestions
  Conversations, \* conversations that end
  Topic,         \* [Conversations -> its topic, or None: nothing to remember]
  MaxResults,    \* maxResults of VaultSearchStep
  MaxChanges,    \* bound: edits, ingestions and sedimentations
  MaxCrashes     \* bound

Builders == Searchers \cup {Warmup}
Topics == { Topic[k] : k \in Conversations } \ {None}

ASSUME VaultAssumption ==
  /\ Warmup \notin Searchers
  /\ Builders \cap Ingesters = {} /\ Builders \cap Conversations = {}
  /\ Ingesters \cap Conversations = {}
  /\ None \notin Contents \cup Pages \cup Builders \cup Ingesters \cup Conversations
  /\ DOMAIN Topic = Conversations
  /\ InitialDisks \subseteq [Pages -> Contents \cup {None}]
  /\ {MaxResults, MaxChanges, MaxCrashes} \subseteq Nat

VARIABLES
  disk,      \* [Pages -> its content, or None]
  index,     \* index.md: the pages it lists
  sparse,    \* bm25.json: the pages it was built from, or None
  cache,     \* embeddings.json: a set of entries
  store,     \* EmbeddingStore: manifest (None: not indexed) and chunks
  storeMu,   \* who holds its mutex for writing, with the manifest it read
  memories,  \* the files of _memory
  pc,        \* [processes -> where each is]
  job,       \* [Searchers -> the search, or None]
  draft,     \* [Ingesters -> [page, index: what it is about to write], or None]
  summary,   \* [Conversations -> the topic it was summarised to, or None]
  writerMu,  \* holder of FileWriter.mu
  memoryMu,  \* holder of Sedimenter.mu
  seen,      \* history: [Searchers -> [Pages -> contents since the search began,
             \* None when the page was gone or the search could not read it]]
  listed,    \* history: pages whose ingestion succeeded
  changes, crashes

searching == <<sparse, cache, store, storeMu, job>>
writing == <<index, draft, writerMu, listed>>
remembering == <<memories, summary, memoryMu>>
vars == <<disk, searching, writing, remembering, pc, seen, changes, crashes>>

Empty == [manifest |-> None, chunks |-> {}]
Blank == [page |-> None, index |-> <<>>]
Free == [by |-> None, manifest |-> None]

Idle == [p \in Builders \cup Ingesters \cup Conversations |->
           IF p = Warmup THEN "index" ELSE "idle"]

Init ==
  /\ disk \in InitialDisks
  /\ index = <<>> /\ sparse = None /\ cache = {} /\ store = Empty /\ storeMu = Free
  /\ memories = {}
  /\ pc = Idle
  /\ job = [s \in Searchers |-> None] /\ draft = [i \in Ingesters |-> Blank]
  /\ summary = [k \in Conversations |-> None]
  /\ writerMu = None /\ memoryMu = None
  /\ seen = [s \in Searchers |-> [p \in Pages |-> {}]] /\ listed = {}
  /\ changes = 0 /\ crashes = 0

Go(p, label) == pc' = [pc EXCEPT ![p] = label]

Change == changes < MaxChanges /\ changes' = changes + 1

\* A page gets a new content, or is removed.
Put(p, c) ==
  /\ disk' = [disk EXCEPT ![p] = c]
  /\ seen' = [s \in Searchers |->
                IF pc[s] = "idle" THEN seen[s] ELSE [seen[s] EXCEPT ![p] = @ \cup {c}]]

-----------------------------------------------------------------------------
(* VaultSearchStep.Run: the sparse search.                                  *)

\* The end of a search, with its answer or an error.
Return(s) ==
  /\ Go(s, "idle")
  /\ job' = [job EXCEPT ![s] = None]
  /\ seen' = [seen EXCEPT ![s] = [p \in Pages |-> {}]]

Ask(s) ==
  /\ pc[s] = "idle"
  /\ \E q \in Queries :
       job' = [job EXCEPT ![s] = [query |-> q, sparse |-> None, todo |-> {}, found |-> {}]]
  /\ seen' = [seen EXCEPT ![s] = [p \in Pages |-> {disk[p]}]]
  /\ Go(s, "sparse")
  /\ UNCHANGED <<disk, sparse, cache, store, storeMu, writing, remembering, changes, crashes>>

SparseHits(query, docs) == { p \in Pages : docs[p] # None /\ IsHit(query, docs[p]) }

\* A variant of Validate: only the documents that were indexed are compared.
ValidateKnown(docs) ==
  docs # None /\ \A p \in Pages : docs[p] # None => disk[p] = docs[p]

\* The same files with the same hashes (Validate), and a cache that can be read.
Validate(docs) == docs # None /\ docs = disk

\* bm25Search: with the cache, with a new index that is saved if it can be, or
\* not at all, for a page that cannot be read. Then one read per hit, for its
\* snippet; that none of them fails is an assumption of the model.
SparseSearch(s) ==
  /\ pc[s] = "sparse"
  /\ LET query == job[s].query IN
     \/ /\ TokenizeQuery(query) = {}
        /\ job' = [job EXCEPT ![s].sparse = {}]
        /\ UNCHANGED sparse
     \/ /\ TokenizeQuery(query) # {} /\ Validate(sparse)
        /\ job' = [job EXCEPT ![s].sparse = SparseHits(query, sparse)]
        /\ UNCHANGED sparse
     \/ /\ TokenizeQuery(query) # {} /\ ~Validate(sparse)
        /\ \/ /\ job' = [job EXCEPT ![s].sparse = SparseHits(query, disk)]
              /\ sparse' \in {sparse, disk}
           \/ UNCHANGED <<job, sparse>>
  /\ Go(s, "index")
  /\ UNCHANGED <<disk, cache, store, storeMu, writing, remembering, seen, changes, crashes>>

-----------------------------------------------------------------------------
(* EmbeddingStore: ensureIndexed holds the mutex from its check of the      *)
(* manifest to the publication of what it built, embedding calls included.  *)

\* Where a builder goes when its dense index is ready, or cannot be.
Ready(b) == Go(b, IF b = Warmup THEN "done" ELSE "rank")
Unready(b) == Go(b, IF b = Warmup THEN "done" ELSE "merge")

UpToDate == store.manifest # None /\ store.manifest = disk

BeginIndex(b) ==
  /\ pc[b] = "index" /\ storeMu = Free
  /\ \/ UpToDate /\ Ready(b) /\ UNCHANGED storeMu
     \/ /\ ~UpToDate
        /\ storeMu' = [by |-> b, manifest |-> disk]
        /\ Go(b, "build")
     \/ Unready(b) /\ UNCHANGED storeMu \* cancelled, or the walk failed
  /\ UNCHANGED <<disk, sparse, cache, store, job, writing, remembering, seen, changes, crashes>>

\* A variant of SameChunk: without the hash of the content in the key.
SameChunkId(e, p, i, text) == e.page = p /\ e.id = i

\* chunkKey
SameChunk(e, p, i, text) == e.page = p /\ e.id = i /\ e.text = text

\* Vectors that may be used again: the store's own and, the first time, those
\* of the cache. A vector is named by the text it was computed from.
Reusable(p, i, text) ==
  { e.vector : e \in { x \in store.chunks \cup (IF store.manifest = None THEN cache ELSE {}) :
                         SameChunk(x, p, i, text) } }

ChunksOf == [c \in Contents |-> ChunkPage(c)]

Entries(p, content) ==
  LET chunks == ChunksOf[content]
      Vector(i) == LET old == Reusable(p, i, chunks[i])
                   IN IF old = {} THEN chunks[i] ELSE CHOOSE v \in old : TRUE
  IN { [page |-> p, id |-> i, text |-> chunks[i], vector |-> Vector(i)] :
         i \in DOMAIN chunks }

\* Every page of the manifest is read again and embedded; then everything is
\* published at once, and the cache written if it can be.
Build(b) ==
  /\ pc[b] = "build"
  /\ storeMu' = Free
  /\ LET pages == { p \in Pages : storeMu.manifest[p] # None } IN
     \/ /\ \A p \in pages : disk[p] # None
        /\ store' = [manifest |-> storeMu.manifest,
                     chunks |-> UNION { Entries(p, disk[p]) : p \in pages }]
        /\ cache' \in {cache, store'.chunks}
        /\ Ready(b)
     \/ Unready(b) /\ UNCHANGED <<store, cache>>
  /\ UNCHANGED <<disk, sparse, job, writing, remembering, seen, changes, crashes>>

\* A page that was changed between its hash and its chunks.
Torn(p) ==
  { e.text : e \in { x \in store.chunks : x.page = p } } # ToSet(ChunksOf[store.manifest[p]])

\* RRFMerge: any order; of a page with several similar chunks the best is kept.
Merge(s, dense) ==
  { [page |-> p, chunk |-> None] :
      p \in (IF job[s].sparse = None THEN {} ELSE job[s].sparse) \ { e.page : e \in dense } }
  \cup { [page |-> e.page, chunk |-> [text |-> e.text, torn |-> Torn(e.page)]] : e \in dense }

\* The k nearest chunks, of those that are similar; which they are is open.
Nearest(similar, k) ==
  IF Cardinality(similar) <= k THEN {similar}
  ELSE { top \in SUBSET similar : Cardinality(top) = k }

\* Search: the query is embedded and the chunks ranked under a read lock.
Rank(s) ==
  /\ pc[s] = "rank" /\ storeMu = Free
  /\ LET similar == { e \in store.chunks : IsSimilar(job[s].query, e.vector) } IN
     \E top \in Nearest(similar, 2 * MaxResults) : \E dense \in SUBSET top :
       /\ \A p \in { e.page : e \in top } :
            Cardinality({ e \in dense : e.page = p }) = 1
       /\ job' = [job EXCEPT ![s].todo = Merge(s, dense)]
       /\ Go(s, "read")
  /\ UNCHANGED <<disk, sparse, cache, store, storeMu, writing, remembering, seen, changes, crashes>>

\* No dense results: an error, unless the sparse search had an answer.
Degrade(s) ==
  /\ pc[s] = "merge" \/ pc[s] = "rank" \* the query could not be embedded
  /\ \/ /\ job[s].sparse # None
        /\ job' = [job EXCEPT ![s].todo = Merge(s, {})]
        /\ Go(s, "read")
        /\ UNCHANGED seen
     \/ job[s].sparse = None /\ Return(s)
  /\ UNCHANGED <<disk, sparse, cache, store, storeMu, writing, remembering, changes, crashes>>

\* One hit is read again: it may be gone, not to be shown, or unreadable. The
\* body is the chunk of the dense index, or the best part of the page as it is now.
ReadHit(s) ==
  /\ pc[s] = "read" /\ Cardinality(job[s].found) < MaxResults
  /\ \E hit \in job[s].todo :
       LET content == disk[hit.page]
           shown == content # None /\ ~IsInternalPage(content)
           body == IF hit.chunk # None THEN hit.chunk
                   ELSE [text |-> FindBestChunk(content, job[s].query), torn |-> FALSE]
       IN \/ /\ shown
             /\ job' = [job EXCEPT ![s].todo = @ \ {hit},
                                   ![s].found = @ \cup {[page |-> hit.page, body |-> body]}]
             /\ UNCHANGED seen
          \/ /\ job' = [job EXCEPT ![s].todo = @ \ {hit}]
             /\ seen' = IF shown THEN [seen EXCEPT ![s][hit.page] = @ \cup {None}] ELSE seen
  /\ UNCHANGED <<disk, sparse, cache, store, storeMu, writing, remembering, pc, changes,
                 crashes>>

Complete(s) ==
  pc[s] = "read" /\ (job[s].todo = {} \/ Cardinality(job[s].found) = MaxResults)

Answer(s) ==
  /\ Complete(s)
  /\ Return(s)
  /\ UNCHANGED <<disk, sparse, cache, store, storeMu, writing, remembering, changes, crashes>>

Search(s) ==
  Ask(s) \/ SparseSearch(s) \/ Rank(s) \/ Degrade(s) \/ ReadHit(s) \/ Answer(s)

-----------------------------------------------------------------------------
(* Ingestion: VaultWriteStep, then IndexUpdateStep.                         *)

\* A failed write ends the ingestion and leaves everything as it was.
WritePage(i) ==
  /\ Change
  /\ pc[i] = "idle"
  /\ \E p \in Pages, c \in Contents :
       /\ Put(p, c)
       /\ draft' = [draft EXCEPT ![i].page = p]
  /\ Go(i, "check")
  /\ UNCHANGED <<searching, index, writerMu, listed, remembering, crashes>>

\* The end of an ingestion; it succeeded if its page is now taken as listed.
Ingested(i, ok) ==
  /\ Go(i, "idle")
  /\ draft' = [draft EXCEPT ![i] = Blank]
  /\ listed' = IF ok THEN listed \cup {draft[i].page} ELSE listed

\* ReadIndex without the lock: a page that is listed is skipped; a failed read
\* is only logged.
CheckIndex(i) ==
  /\ pc[i] = "check"
  /\ \/ Contains(index, draft[i].page) /\ Ingested(i, TRUE)
     \/ Go(i, "update") /\ UNCHANGED <<draft, listed>>
  /\ UNCHANGED <<disk, searching, index, writerMu, remembering, seen, changes, crashes>>

\* A variant of ReadIndex: the page is not looked for again under the lock.
ReadIndexOnce(i) ==
  /\ pc[i] = "update" /\ writerMu = None
  /\ writerMu' = i
  /\ draft' = [draft EXCEPT ![i].index = Append(index, draft[i].page)]
  /\ Go(i, "append") /\ UNCHANGED listed
  /\ UNCHANGED <<disk, searching, index, remembering, seen, changes, crashes>>

\* UpdateIndex under the lock: the index is read and checked again.
ReadIndex(i) ==
  /\ pc[i] = "update" /\ writerMu = None
  /\ \/ /\ ~Contains(index, draft[i].page)
        /\ writerMu' = i
        /\ draft' = [draft EXCEPT ![i].index = Append(index, draft[i].page)]
        /\ Go(i, "append") /\ UNCHANGED listed
     \/ Contains(index, draft[i].page) /\ Ingested(i, TRUE) /\ UNCHANGED writerMu
     \/ Ingested(i, FALSE) /\ UNCHANGED writerMu
  /\ UNCHANGED <<disk, searching, index, remembering, seen, changes, crashes>>

AppendEntry(i) ==
  /\ pc[i] = "append"
  /\ writerMu' = None
  /\ \/ index' = draft[i].index /\ Ingested(i, TRUE)
     \/ UNCHANGED index /\ Ingested(i, FALSE)
  /\ UNCHANGED <<disk, searching, remembering, seen, changes, crashes>>

Ingest(i) == WritePage(i) \/ CheckIndex(i) \/ ReadIndex(i) \/ AppendEntry(i)

-----------------------------------------------------------------------------
(* Sedimentation: Sedimenter.Process, one conversation at a time.           *)

\* A variant of JudgeDecide: two conversations may be processed at a time.
JudgeAtOnce(k) ==
  /\ Change
  /\ pc[k] = "idle" /\ Topic[k] # None
  /\ Go(k, "summarize")
  /\ UNCHANGED <<disk, searching, writing, remembering, seen, crashes>>

\* A conversation that is too short, or holds no question, decision or other
\* sign of knowledge, is forgotten; so is one that is cancelled.
JudgeDecide(k) ==
  /\ Change
  /\ pc[k] = "idle" /\ memoryMu = None /\ Topic[k] # None
  /\ memoryMu' = k
  /\ Go(k, "summarize")
  /\ UNCHANGED <<disk, searching, writing, memories, summary, seen, crashes>>

Processed(k) ==
  /\ Go(k, "idle")
  /\ memoryMu' = None
  /\ summary' = [summary EXCEPT ![k] = None]

\* The model's answer, or, when it holds no JSON, a summary of standard words.
GenerateSummary(k) ==
  /\ pc[k] = "summarize"
  /\ \/ /\ summary' \in { [summary EXCEPT ![k] = t] : t \in {Topic[k], "standard"} }
        /\ Go(k, "dedup")
        /\ UNCHANGED memoryMu
     \/ Processed(k)
  /\ UNCHANGED <<disk, searching, writing, memories, seen, changes, crashes>>

\* A summary like a memory of the same topic is not written again. Whether it is
\* like one that was cut short, or one standard summary like another, is open.
DedupCheck(k) ==
  /\ pc[k] = "dedup"
  /\ LET alike == { m \in memories : m.topic = summary[k] } IN
     \/ /\ \A m \in alike : ~m.whole \/ m.topic = "standard"
        /\ Go(k, "write")
        /\ UNCHANGED <<memoryMu, summary>>
     \/ Processed(k)
  /\ UNCHANGED <<disk, searching, writing, memories, seen, changes, crashes>>

Memory(k, whole) == [of |-> k, topic |-> summary[k], whole |-> whole]

\* A new file, which a failed write leaves behind as it is.
WriteMemory(k) ==
  /\ pc[k] = "write"
  /\ memories' \in {memories} \cup { memories \cup {Memory(k, w)} : w \in BOOLEAN }
  /\ Processed(k)
  /\ UNCHANGED <<disk, searching, writing, seen, changes, crashes>>

Process(k) ==
  JudgeDecide(k) \/ GenerateSummary(k) \/ DedupCheck(k) \/ WriteMemory(k)

-----------------------------------------------------------------------------
\* A person changes, adds or removes a page.
Edit ==
  /\ Change
  /\ \E p \in Pages, c \in Contents \cup {None} : c # disk[p] /\ Put(p, c)
  /\ UNCHANGED <<searching, writing, remembering, pc, crashes>>

\* The process dies and is started again: the files stay, a memory that was
\* being written perhaps in part.
Crash ==
  /\ crashes < MaxCrashes
  /\ crashes' = crashes + 1
  /\ pc' = Idle
  /\ job' = [s \in Searchers |-> None] /\ seen' = [s \in Searchers |-> [p \in Pages |-> {}]]
  /\ store' = Empty /\ storeMu' = Free
  /\ draft' = [i \in Ingesters |-> Blank] /\ writerMu' = None
  /\ summary' = [k \in Conversations |-> None] /\ memoryMu' = None
  /\ memories' \in {memories} \cup
       { memories \cup {Memory(k, FALSE)} : k \in { x \in Conversations : pc[x] = "write" } }
  /\ UNCHANGED <<disk, index, sparse, cache, listed, changes>>

Next ==
  \/ \E s \in Searchers : Search(s)
  \/ \E b \in Builders : BeginIndex(b) \/ Build(b)
  \/ \E i \in Ingesters : Ingest(i)
  \/ \E k \in Conversations : Process(k)
  \/ Edit \/ Crash

Spec == Init /\ [][Next]_vars

-----------------------------------------------------------------------------
(* Properties.                                                              *)

Docs == [Pages -> Contents \cup {None}]

EntriesOK(entries) ==
  /\ { e.page : e \in entries } \subseteq Pages
  /\ \A e, f \in entries : e.page = f.page /\ e.id = f.id => e = f

\* The type of every variable.
VaultTypeOK ==
  /\ disk \in Docs /\ index \in Seq(Pages)
  /\ sparse \in Docs \cup {None}
  /\ store.manifest \in Docs \cup {None} /\ EntriesOK(store.chunks) /\ EntriesOK(cache)
  /\ storeMu.by \in Builders \cup {None}
  /\ \A b \in Builders : (storeMu.by = b) = (pc[b] = "build")
  /\ \A i \in Ingesters : (writerMu = i) = (pc[i] = "append")
  /\ \A k \in Conversations : (memoryMu = k) = (pc[k] \in {"summarize", "dedup", "write"})
  /\ \A s \in Searchers : IF pc[s] = "idle" THEN job[s] = None
                           ELSE Cardinality(job[s].found) <= MaxResults
  /\ listed \subseteq Pages
  /\ changes \in 0 .. MaxChanges /\ crashes \in 0 .. MaxCrashes

\* Every text an answer quotes was on its page at some moment since the search
\* began, and the vector it was ranked by is its own, whatever was edited,
\* rebuilt, cached and restarted meanwhile (embedding.go:115). The exception is
\* a page that changed between its hash and its chunks and then changed back:
\* the store cannot tell.
ServedWasCurrent ==
  /\ \A e \in store.chunks : e.vector = e.text
  /\ \A s \in Searchers : job[s] # None => \A answer \in job[s].found :
       \/ answer.body.torn
       \/ \E c \in seen[s][answer.page] \ {None} :
            \/ answer.body.text \in ToSet(ChunksOf[c])
            \/ answer.body.text = FindBestChunk(c, job[s].query)

\* A page that could be read and shown and matched the query from the beginning
\* of the search to its end is in the answer, if the sparse search worked and the
\* answer is not full: no index is so stale that a page is missed
\* (bm25.go:38, filesystem.go:80).
MatchesAreServed ==
  \A s \in Searchers :
    Complete(s) /\ job[s].sparse # None /\ Cardinality(job[s].found) < MaxResults =>
      \A p \in Pages :
        (\A c \in seen[s][p] : c # None /\ IsHit(job[s].query, c) /\ ~IsInternalPage(c))
          => p \in { answer.page : answer \in job[s].found }

\* Once an ingestion has succeeded its page is in index.md exactly once, for
\* good, although others read, check and rewrite the same file (reader.go:352).
IngestedIsListed ==
  /\ \A p \in listed : Contains(index, p)
  /\ IsInjective(index)

\* Two conversations about one topic leave one memory, if the model can
\* summarise them and the writes are not cut short (sedimentation.go:453).
MemoriesDistinct ==
  \A m, n \in memories :
    m.topic = n.topic /\ m.whole /\ n.whole /\ m.topic # "standard" => m = n

===============================================================================
