------------------------------ MODULE VaultProofs ------------------------------
(***************************************************************************)
(* Theorems about Vault, for every set of pages, contents, queries and     *)
(* processes, every way to cut and match texts, and any number of          *)
(* restarts.                                                               *)
(***************************************************************************)
EXTENDS Vault, FiniteSetTheorems, TLAPS

USE VaultAssumption DEF Builders

Processes == Builders \cup Ingesters \cup Conversations

-----------------------------------------------------------------------------
(* Where everybody is.                                                      *)

\* The program counters, and the shape of what the processes hold.
Counters ==
  /\ pc = [x \in Processes |-> pc[x]]
  /\ \A s \in Searchers :
       pc[s] \in {"idle", "sparse", "index", "build", "rank", "merge", "read"}
  /\ pc[Warmup] \in {"index", "build", "done"}
  /\ \A i \in Ingesters : pc[i] \in {"idle", "check", "update", "append"}
  /\ \A k \in Conversations : pc[k] \in {"idle", "summarize", "dedup", "write"}

Job(j) == j = [query |-> j.query, sparse |-> j.sparse, todo |-> j.todo, found |-> j.found]

Jobs ==
  /\ job = [s \in Searchers |-> job[s]]
  /\ \A s \in Searchers : pc[s] # "idle" => Job(job[s])

Drafts ==
  /\ draft = [i \in Ingesters |-> draft[i]]
  /\ \A i \in Ingesters : draft[i] = [page |-> draft[i].page, index |-> draft[i].index]

Memos ==
  /\ seen = [s \in Searchers |-> seen[s]]
  /\ \A s \in Searchers : seen[s] = [p \in Pages |-> seen[s][p]]

Shapes ==
  Counters /\ Jobs /\ Drafts /\ Memos /\ disk \in Docs
  /\ summary = [k \in Conversations |-> summary[k]]

LEMMA ShapesInitial == Init => Shapes
BY DEF Init, Shapes, Counters, Jobs, Drafts, Memos, Idle, Docs, Blank, Processes

\* A page gets a new content while searches keep in mind all it has had.
LEMMA Putting ==
  ASSUME Memos, disk \in Docs, NEW p \in Pages, NEW c \in Contents \cup {None}, Put(p, c)
  PROVE  /\ disk' \in Docs /\ disk' = [disk EXCEPT ![p] = c]
         /\ Memos'
         /\ \A s \in Searchers, q \in Pages :
              /\ seen[s][q] \subseteq seen'[s][q]
              /\ pc[s] # "idle" /\ disk[q] \in seen[s][q] => disk'[q] \in seen'[s][q]
<1>1. disk' = [disk EXCEPT ![p] = c] /\ disk' \in Docs
  BY DEF Put, Docs
<1>2. \A s \in Searchers : seen'[s] = IF pc[s] = "idle" THEN seen[s]
                                     ELSE [seen[s] EXCEPT ![p] = @ \cup {c}]
  BY DEF Put
<1>3. Memos'
  <2>1. seen' = [s \in Searchers |-> seen'[s]]
    BY DEF Put
  <2>2. QED
    BY <1>2, <2>1 DEF Memos
<1>4. ASSUME NEW s \in Searchers, NEW q \in Pages
      PROVE  /\ seen[s][q] \subseteq seen'[s][q]
             /\ pc[s] # "idle" /\ disk[q] \in seen[s][q] => disk'[q] \in seen'[s][q]
  <2>1. seen[s] = [r \in Pages |-> seen[s][r]]
    BY DEF Memos
  <2>2. CASE q = p
    <3>1. pc[s] # "idle" => seen'[s][p] = seen[s][p] \cup {c} /\ disk'[p] = c
      BY <1>1, <1>2, <2>1 DEF Docs
    <3>2. QED
      BY <1>2, <2>2, <3>1
  <2>3. CASE q # p
    BY <1>1, <1>2, <2>1, <2>3 DEF Docs
  <2>4. QED
    BY <2>2, <2>3
<1>5. QED
  BY <1>1, <1>3, <1>4

\* What the step of one process may move: its own counter, and nothing that
\* others hold.
LEMMA Moving ==
  ASSUME Counters, NEW x \in Processes, NEW to, Go(x, to)
  PROVE  /\ pc' = [y \in Processes |-> pc'[y]] /\ pc'[x] = to
         /\ \A y \in Processes : y # x => pc'[y] = pc[y]
BY DEF Counters, Go

LEMMA SearchShapes ==
  ASSUME Shapes, NEW s \in Searchers, Search(s)
  PROVE  Shapes'
<1> USE DEF Shapes, searching, writing, remembering
<1>1. /\ UNCHANGED <<disk, draft, summary>>
      /\ Go(s, pc'[s])
      /\ pc'[s] \in {"idle", "sparse", "index", "read"}
  <2>1. CASE Ask(s) \/ SparseSearch(s) \/ Rank(s)
    BY <2>1 DEF Ask, SparseSearch, Rank, Counters, Go, Processes
  <2>2. CASE Degrade(s) \/ Answer(s)
    BY <2>2 DEF Degrade, Answer, Return, Counters, Go, Processes
  <2>3. CASE ReadHit(s)
    BY <2>3 DEF ReadHit, Counters, Go, Processes
  <2>4. QED
    BY <2>1, <2>2, <2>3 DEF Search
<1>2. Counters'
  <2>1. /\ pc' = [y \in Processes |-> pc'[y]]
        /\ \A y \in Processes : y # s => pc'[y] = pc[y]
    BY <1>1, Moving DEF Processes
  <2>2. QED
    BY <1>1, <2>1 DEF Counters, Processes
<1>3. \A t \in Searchers : t # s => pc'[t] = pc[t]
  BY <1>1, Moving DEF Processes
<1>4. /\ job' = [t \in Searchers |-> job'[t]]
      /\ \A t \in Searchers : t # s => job'[t] = job[t]
      /\ pc'[s] # "idle" => Job(job'[s])
  <2>1. CASE Ask(s)
    BY <2>1 DEF Ask, Jobs, Job
  <2>2. CASE SparseSearch(s)
    BY <2>2 DEF SparseSearch, Jobs, Job
  <2>3. CASE Rank(s)
    BY <2>3 DEF Rank, Jobs, Job
  <2>4. CASE Degrade(s)
    BY <2>4, <1>1 DEF Degrade, Return, Jobs, Job, Go, Counters, Processes
  <2>5. CASE ReadHit(s)
    BY <2>5 DEF ReadHit, Jobs, Job
  <2>6. CASE Answer(s)
    BY <2>6, <1>1 DEF Answer, Return, Jobs, Job, Go, Counters, Processes
  <2>7. QED
    BY <2>1, <2>2, <2>3, <2>4, <2>5, <2>6 DEF Search
<1>5. Jobs'
  BY <1>3, <1>4 DEF Jobs
<1>6. Memos'
  <2>1. CASE UNCHANGED seen
    BY <2>1 DEF Memos
  <2>2. CASE Ask(s)
    BY <2>2 DEF Ask, Memos
  <2>3. CASE Return(s)
    BY <2>3 DEF Return, Memos
  <2>4. CASE ReadHit(s)
    BY <2>4 DEF ReadHit, Memos
  <2>5. QED
    BY <2>1, <2>2, <2>3, <2>4 DEF Search, SparseSearch, Rank, Degrade, Answer
<1>7. QED
  BY <1>1, <1>2, <1>5, <1>6 DEF Drafts

LEMMA BuilderShapes ==
  ASSUME Shapes, NEW b \in Builders, BeginIndex(b) \/ Build(b)
  PROVE  Shapes'
<1> USE DEF Shapes, searching, writing, remembering
<1>1. /\ UNCHANGED <<disk, draft, summary, job, seen>>
      /\ pc[b] \in {"index", "build"}
      /\ \E to : /\ to \in IF b = Warmup THEN {"build", "done"} ELSE {"build", "rank", "merge"}
                /\ Go(b, to)
  BY DEF BeginIndex, Build, Ready, Unready
<1>2. PICK to \in IF b = Warmup THEN {"build", "done"} ELSE {"build", "rank", "merge"} :
        Go(b, to)
  BY <1>1
<1>3. Counters'
  <2>1. /\ pc' = [y \in Processes |-> pc'[y]] /\ pc'[b] = to
        /\ \A y \in Processes : y # b => pc'[y] = pc[y]
    BY <1>2, Moving DEF Processes
  <2>2. QED
    BY <2>1 DEF Counters, Processes
<1>4. \A s \in Searchers : pc'[s] # "idle" => pc[s] # "idle"
  BY <1>1, <1>2, Moving DEF Processes
<1>5. QED
  BY <1>1, <1>3, <1>4 DEF Jobs, Drafts, Memos

LEMMA IngestShapes ==
  ASSUME Shapes, NEW i \in Ingesters, Ingest(i)
  PROVE  Shapes'
<1> USE DEF Shapes, searching, writing, remembering
<1>1. /\ UNCHANGED <<job, summary>>
      /\ \E to \in {"idle", "check", "update", "append"} : Go(i, to)
  BY DEF Ingest, WritePage, CheckIndex, ReadIndex, AppendEntry, Ingested
<1>2. PICK to \in {"idle", "check", "update", "append"} : Go(i, to)
  BY <1>1
<1>3. Counters'
  <2>1. /\ pc' = [y \in Processes |-> pc'[y]] /\ pc'[i] = to
        /\ \A y \in Processes : y # i => pc'[y] = pc[y]
    BY <1>2, Moving DEF Processes
  <2>2. QED
    BY <2>1 DEF Counters, Processes
<1>4. \A s \in Searchers : pc'[s] = pc[s]
  BY <1>2, Moving DEF Processes
<1>5. Drafts'
  <2>1. CASE WritePage(i)
    BY <2>1 DEF WritePage, Drafts
  <2>2. CASE CheckIndex(i)
    BY <2>2 DEF CheckIndex, Ingested, Drafts, Blank
  <2>3. CASE ReadIndex(i)
    BY <2>3 DEF ReadIndex, Ingested, Drafts, Blank
  <2>4. CASE AppendEntry(i)
    BY <2>4 DEF AppendEntry, Ingested, Drafts, Blank
  <2>5. QED
    BY <2>1, <2>2, <2>3, <2>4 DEF Ingest
<1>6. Memos' /\ disk' \in Docs
  <2>1. CASE WritePage(i)
    BY <2>1, Putting DEF WritePage
  <2>2. CASE ~WritePage(i)
    BY <2>2 DEF Ingest, CheckIndex, ReadIndex, AppendEntry, Memos
  <2>3. QED
    BY <2>1, <2>2
<1>7. QED
  BY <1>1, <1>3, <1>4, <1>5, <1>6 DEF Jobs

LEMMA ProcessShapes ==
  ASSUME Shapes, NEW k \in Conversations, Process(k)
  PROVE  Shapes'
<1> USE DEF Shapes, searching, writing, remembering
<1>1. /\ UNCHANGED <<disk, draft, job, seen>>
      /\ \E to \in {"idle", "summarize", "dedup", "write"} : Go(k, to)
      /\ summary' = [j \in Conversations |-> summary'[j]]
  BY DEF Process, JudgeDecide, GenerateSummary, DedupCheck, WriteMemory, Processed
<1>2. PICK to \in {"idle", "summarize", "dedup", "write"} : Go(k, to)
  BY <1>1
<1>3. Counters'
  <2>1. /\ pc' = [y \in Processes |-> pc'[y]] /\ pc'[k] = to
        /\ \A y \in Processes : y # k => pc'[y] = pc[y]
    BY <1>2, Moving DEF Processes
  <2>2. QED
    BY <2>1 DEF Counters, Processes
<1>4. \A s \in Searchers : pc'[s] = pc[s]
  BY <1>2, Moving DEF Processes
<1>5. QED
  BY <1>1, <1>3, <1>4 DEF Jobs, Drafts, Memos

LEMMA ShapesSteps == Shapes /\ [Next]_vars => Shapes'
<1> SUFFICES ASSUME Shapes, [Next]_vars PROVE Shapes'
  OBVIOUS
<1> USE DEF searching, writing, remembering
<1>1. CASE Edit
  <2>1. Memos' /\ disk' \in Docs
    BY <1>1, Putting DEF Edit, Shapes
  <2>2. QED
    BY <1>1, <2>1 DEF Edit, Shapes, Counters, Jobs, Drafts
<1>2. CASE Crash
  BY <1>2 DEF Crash, Shapes, Counters, Jobs, Drafts, Memos, Idle, Blank, Processes
<1>3. CASE UNCHANGED vars
  BY <1>3 DEF vars, Shapes, Counters, Jobs, Drafts, Memos
<1>4. QED
  BY <1>1, <1>2, <1>3, SearchShapes, BuilderShapes, IngestShapes, ProcessShapes DEF Next

\* The step of an ingestion moves one counter, that of a conversation another.
LEMMA OneIngester ==
  ASSUME Shapes, NEW i \in Ingesters, Ingest(i)
  PROVE  /\ Go(i, pc'[i])
         /\ \A y \in Processes : y # i => pc'[y] = pc[y]
<1>1. \E to : Go(i, to)
  BY DEF Ingest, WritePage, CheckIndex, ReadIndex, AppendEntry, Ingested
<1>2. PICK to : Go(i, to)
  BY <1>1
<1>3. QED
  BY <1>2, Moving DEF Processes, Shapes

LEMMA OneConversation ==
  ASSUME Shapes, NEW k \in Conversations, Process(k)
  PROVE  /\ Go(k, pc'[k])
         /\ \A y \in Processes : y # k => pc'[y] = pc[y]
<1>1. \E to : Go(k, to)
  BY DEF Process, JudgeDecide, GenerateSummary, DedupCheck, WriteMemory, Processed
<1>2. PICK to : Go(k, to)
  BY <1>1
<1>3. QED
  BY <1>2, Moving DEF Processes, Shapes

LEMMA OneBuilder ==
  ASSUME Shapes, NEW b \in Builders, BeginIndex(b) \/ Build(b)
  PROVE  /\ Go(b, pc'[b])
         /\ \A y \in Processes : y # b => pc'[y] = pc[y]
<1>1. \E to : Go(b, to)
  BY DEF BeginIndex, Build, Ready, Unready
<1>2. PICK to : Go(b, to)
  BY <1>1
<1>3. QED
  BY <1>2, Moving DEF Processes, Shapes

LEMMA OneSearcher ==
  ASSUME Shapes, NEW s \in Searchers, Search(s)
  PROVE  /\ Go(s, pc'[s])
         /\ \A y \in Processes : y # s => pc'[y] = pc[y]
<1>1. CASE ReadHit(s)
  BY <1>1 DEF ReadHit, Go, Shapes, Counters, Processes
<1>2. CASE ~ReadHit(s)
  <2>1. \E to : Go(s, to)
    BY <1>2 DEF Search, Ask, SparseSearch, Rank, Degrade, Answer, Return
  <2>2. PICK to : Go(s, to)
    BY <2>1
  <2>3. QED
    BY <2>2, Moving DEF Processes, Shapes
<1>3. QED
  BY <1>1, <1>2

-----------------------------------------------------------------------------
(* The index of pages.                                                      *)

LEMMA Appending ==
  ASSUME NEW S, NEW list \in Seq(S), NEW e \in S
  PROVE  /\ Append(list, e) \in Seq(S)
         /\ Contains(Append(list, e), e)
         /\ \A x : Contains(list, x) => Contains(Append(list, e), x)
         /\ IsInjective(list) /\ ~Contains(list, e) => IsInjective(Append(list, e))
<1>1. /\ Append(list, e) \in Seq(S) /\ Len(Append(list, e)) = Len(list) + 1
      /\ Append(list, e)[Len(list) + 1] = e
      /\ \A n \in 1 .. Len(list) : Append(list, e)[n] = list[n]
      /\ Len(list) \in Nat
  OBVIOUS
<1>2. DOMAIN list = 1 .. Len(list) /\ DOMAIN Append(list, e) = 1 .. (Len(list) + 1)
  BY <1>1
<1>3. QED
  BY <1>1, <1>2 DEF Contains, IsInjective

\* Only one who holds the mutex is about to write, and it has just read.
Writers ==
  /\ index \in Seq(Pages)
  /\ \A i \in Ingesters : pc[i] # "idle" => draft[i].page \in Pages
  /\ \A i \in Ingesters : pc[i] = "append" =>
       /\ writerMu = i /\ draft[i].index = Append(index, draft[i].page)
       /\ ~Contains(index, draft[i].page)

LEMMA ListInitial == Init => Writers /\ IngestedIsListed
BY DEF Init, Writers, IngestedIsListed, Idle, IsInjective

LEMMA WritePageLists ==
  ASSUME Shapes, Writers, IngestedIsListed, NEW i \in Ingesters, WritePage(i)
  PROVE  Writers' /\ IngestedIsListed'
<1>1. \A y \in Processes : y # i => pc'[y] = pc[y]
  BY OneIngester DEF Ingest
<1>2. pc'[i] = "check" /\ UNCHANGED <<index, writerMu, listed>>
  BY DEF WritePage, Go, Shapes, Counters, Processes
<1>3. draft'[i].page \in Pages /\ \A j \in Ingesters : j # i => draft'[j] = draft[j]
  BY DEF WritePage, Shapes, Drafts
<1>4. QED
  BY <1>1, <1>2, <1>3 DEF Writers, IngestedIsListed, Processes

\* An ingestion that ends without having written.
LEMMA EndLists ==
  ASSUME Shapes, Writers, IngestedIsListed, NEW i \in Ingesters, NEW ok \in BOOLEAN,
         Ingested(i, ok), UNCHANGED index, UNCHANGED writerMu \/ writerMu = i,
         pc[i] # "idle", ok => Contains(index, draft[i].page)
  PROVE  Writers' /\ IngestedIsListed'
<1>1. pc'[i] = "idle" /\ \A y \in Processes : y # i => pc'[y] = pc[y]
  BY Moving DEF Ingested, Shapes, Processes
<1>2. \A j \in Ingesters : j # i => draft'[j] = draft[j]
  BY DEF Ingested, Shapes, Drafts
<1>3. \A p \in listed' : Contains(index, p)
  BY DEF Ingested, IngestedIsListed
<1>4. Writers'
  BY <1>1, <1>2 DEF Writers, Processes
<1>5. QED
  BY <1>3, <1>4 DEF IngestedIsListed

LEMMA CheckIndexLists ==
  ASSUME Shapes, Writers, IngestedIsListed, NEW i \in Ingesters, CheckIndex(i)
  PROVE  Writers' /\ IngestedIsListed'
<1>1. CASE Contains(index, draft[i].page) /\ Ingested(i, TRUE)
  BY <1>1, EndLists DEF CheckIndex
<1>2. CASE Go(i, "update") /\ UNCHANGED <<draft, listed>>
  <2>1. pc'[i] = "update" /\ \A y \in Processes : y # i => pc'[y] = pc[y]
    BY <1>2, Moving DEF Shapes, Processes
  <2>2. QED
    BY <1>2, <2>1 DEF CheckIndex, Writers, IngestedIsListed, Processes
<1>3. QED
  BY <1>1, <1>2 DEF CheckIndex

LEMMA ReadIndexLists ==
  ASSUME Shapes, Writers, IngestedIsListed, NEW i \in Ingesters, ReadIndex(i)
  PROVE  Writers' /\ IngestedIsListed'
<1>1. CASE ~Contains(index, draft[i].page) /\ Go(i, "append")
  <2>1. pc'[i] = "append" /\ \A y \in Processes : y # i => pc'[y] = pc[y]
    BY <1>1, Moving DEF Shapes, Processes
  <2>2. /\ writerMu = None /\ writerMu' = i /\ UNCHANGED <<index, listed>>
        /\ draft' = [draft EXCEPT ![i].index = Append(index, draft[i].page)]
    BY <1>1, <2>1 DEF ReadIndex, Ingested, Go, Shapes, Counters, Processes
  <2>3. \A j \in Ingesters : j # i => pc[j] # "append"
    BY <2>2 DEF Writers
  <2>4. /\ draft'[i].page = draft[i].page
        /\ draft'[i].index = Append(index, draft[i].page)
        /\ \A j \in Ingesters : j # i => draft'[j] = draft[j]
    BY <2>2 DEF Shapes, Drafts
  <2>5. pc[i] # "idle"
    BY DEF ReadIndex
  <2>6. QED
    BY <1>1, <2>1, <2>2, <2>3, <2>4, <2>5 DEF Writers, IngestedIsListed, Processes
<1>2. CASE \/ Contains(index, draft[i].page) /\ Ingested(i, TRUE) /\ UNCHANGED writerMu
           \/ Ingested(i, FALSE) /\ UNCHANGED writerMu
  BY <1>2, EndLists DEF ReadIndex
<1>3. QED
  BY <1>1, <1>2 DEF ReadIndex

LEMMA AppendEntryLists ==
  ASSUME Shapes, Writers, IngestedIsListed, NEW i \in Ingesters, AppendEntry(i)
  PROVE  Writers' /\ IngestedIsListed'
<1>1. CASE UNCHANGED index /\ Ingested(i, FALSE)
  BY <1>1, EndLists DEF AppendEntry, Writers
<1>2. CASE index' = draft[i].index /\ Ingested(i, TRUE)
  <2>1. pc'[i] = "idle" /\ \A y \in Processes : y # i => pc'[y] = pc[y]
    BY <1>2, Moving DEF Ingested, Shapes, Processes
  <2>2. \A j \in Ingesters : j # i => draft'[j] = draft[j] /\ pc[j] # "append"
    BY <1>2 DEF AppendEntry, Ingested, Shapes, Drafts, Writers
  <2>3. /\ draft[i].page \in Pages /\ ~Contains(index, draft[i].page)
        /\ index' = Append(index, draft[i].page) /\ index \in Seq(Pages)
    BY <1>2 DEF AppendEntry, Writers
  <2>4. /\ index' \in Seq(Pages) /\ Contains(index', draft[i].page)
        /\ \A x : Contains(index, x) => Contains(index', x)
        /\ IsInjective(index')
    BY <2>3, Appending DEF IngestedIsListed
  <2>5. Writers'
    BY <2>1, <2>2, <2>4 DEF Writers, Processes
  <2>6. \A p \in listed' : Contains(index', p)
    BY <1>2, <2>4 DEF Ingested, IngestedIsListed
  <2>7. QED
    BY <2>4, <2>5, <2>6 DEF IngestedIsListed
<1>3. QED
  BY <1>1, <1>2 DEF AppendEntry

LEMMA ListSteps ==
  Shapes /\ Writers /\ IngestedIsListed /\ [Next]_vars => Writers' /\ IngestedIsListed'
<1> SUFFICES ASSUME Shapes, Writers, IngestedIsListed, [Next]_vars
             PROVE  Writers' /\ IngestedIsListed'
  OBVIOUS
<1>1. CASE \E i \in Ingesters : Ingest(i)
  BY <1>1, WritePageLists, CheckIndexLists, ReadIndexLists, AppendEntryLists DEF Ingest
<1>2. ASSUME UNCHANGED writing, \A i \in Ingesters : pc'[i] = pc[i]
      PROVE  Writers' /\ IngestedIsListed'
  BY <1>2 DEF Writers, IngestedIsListed, writing
<1>3. CASE \E s \in Searchers : Search(s)
  <2>1. \A i \in Ingesters : pc'[i] = pc[i]
    BY <1>3, OneSearcher DEF Processes
  <2>2. QED
    BY <1>2, <1>3, <2>1 DEF Search, Ask, SparseSearch, Rank, Degrade, ReadHit, Answer
<1>4. CASE \E b \in Builders : BeginIndex(b) \/ Build(b)
  <2>1. \A i \in Ingesters : pc'[i] = pc[i]
    BY <1>4, OneBuilder DEF Processes
  <2>2. QED
    BY <1>2, <1>4, <2>1 DEF BeginIndex, Build
<1>5. CASE \E k \in Conversations : Process(k)
  <2>1. \A i \in Ingesters : pc'[i] = pc[i]
    BY <1>5, OneConversation DEF Processes
  <2>2. QED
    BY <1>2, <1>5, <2>1 DEF Process, JudgeDecide, GenerateSummary, DedupCheck, WriteMemory
<1>6. CASE Edit \/ UNCHANGED vars
  BY <1>2, <1>6 DEF Edit, vars
<1>7. CASE Crash
  BY <1>7 DEF Crash, Writers, IngestedIsListed, Idle
<1>8. QED
  BY <1>1, <1>3, <1>4, <1>5, <1>6, <1>7 DEF Next

\* A page whose ingestion succeeded stays in index.md, once, whoever else
\* reads, checks and rewrites the file, and whatever restarts
\* (FileWriter.UpdateIndex checks again under the lock it writes under).
THEOREM IngestedPagesAreListed == Spec => []IngestedIsListed
<1>1. Init => Shapes /\ Writers /\ IngestedIsListed
  BY ShapesInitial, ListInitial
<1>2. /\ Shapes /\ Writers /\ IngestedIsListed /\ [Next]_vars
      => (Shapes /\ Writers /\ IngestedIsListed)'
  BY ShapesSteps, ListSteps
<1>3. QED
  BY <1>1, <1>2, PTL DEF Spec

-----------------------------------------------------------------------------
(* The memories.                                                            *)

\* One conversation is processed at a time, and what it is about to write is
\* not among the memories.
Rememberers ==
  \A k \in Conversations :
    /\ pc[k] # "idle" => memoryMu = k
    /\ pc[k] = "write" =>
         \A m \in memories : m.topic = summary[k] => ~m.whole \/ m.topic = "standard"

LEMMA ProcessRemembers ==
  ASSUME Shapes, Rememberers, MemoriesDistinct, NEW k \in Conversations, Process(k)
  PROVE  Rememberers' /\ MemoriesDistinct'
<1>1. Go(k, pc'[k]) /\ \A j \in Conversations : j # k => pc'[j] = pc[j]
  BY OneConversation DEF Processes
<1>2. \A j \in Conversations : j # k => pc[j] = "idle"
  BY DEF Process, JudgeDecide, GenerateSummary, DedupCheck, WriteMemory, Rememberers, Shapes, Counters
<1>3. pc'[k] # "idle" => memoryMu' = k
  BY DEF Process, JudgeDecide, GenerateSummary, DedupCheck, WriteMemory, Processed,
         Rememberers, Go, Shapes, Counters, Processes
<1>4. CASE WriteMemory(k)
  <2>1. pc'[k] = "idle"
    BY <1>4, Moving DEF WriteMemory, Processed, Shapes, Processes
  <2>2. PICK w \in BOOLEAN : memories' = memories \/ memories' = memories \cup {Memory(k, w)}
    BY <1>4 DEF WriteMemory
  <2>3. \A m \in memories : m.topic = summary[k] => ~m.whole \/ m.topic = "standard"
    BY <1>4 DEF WriteMemory, Rememberers
  <2>4. MemoriesDistinct'
    BY <2>2, <2>3 DEF MemoriesDistinct, Memory
  <2>5. QED
    BY <1>1, <1>2, <2>1, <2>4 DEF Rememberers
<1>5. CASE ~WriteMemory(k)
  <2>1. UNCHANGED memories
    BY <1>5 DEF Process, JudgeDecide, GenerateSummary, DedupCheck
  <2>2. pc'[k] = "write" => summary' = summary /\
           \A m \in memories : m.topic = summary[k] => ~m.whole \/ m.topic = "standard"
    BY <1>5 DEF Process, JudgeDecide, GenerateSummary, DedupCheck, Processed, Go, Shapes,
                Counters, Processes
  <2>3. QED
    BY <1>1, <1>2, <1>3, <2>1, <2>2 DEF Rememberers, MemoriesDistinct
<1>6. QED
  BY <1>4, <1>5

LEMMA RememberSteps ==
  Shapes /\ Rememberers /\ MemoriesDistinct /\ [Next]_vars => Rememberers' /\ MemoriesDistinct'
<1> SUFFICES ASSUME Shapes, Rememberers, MemoriesDistinct, [Next]_vars
             PROVE  Rememberers' /\ MemoriesDistinct'
  OBVIOUS
<1>1. ASSUME UNCHANGED remembering, \A k \in Conversations : pc'[k] = pc[k]
      PROVE  Rememberers' /\ MemoriesDistinct'
  BY <1>1 DEF Rememberers, MemoriesDistinct, remembering
<1>2. CASE \E s \in Searchers : Search(s)
  <2>1. \A k \in Conversations : pc'[k] = pc[k]
    BY <1>2, OneSearcher DEF Processes
  <2>2. QED
    BY <1>1, <1>2, <2>1 DEF Search, Ask, SparseSearch, Rank, Degrade, ReadHit, Answer
<1>3. CASE \E b \in Builders : BeginIndex(b) \/ Build(b)
  <2>1. \A k \in Conversations : pc'[k] = pc[k]
    BY <1>3, OneBuilder DEF Processes
  <2>2. QED
    BY <1>1, <1>3, <2>1 DEF BeginIndex, Build
<1>4. CASE \E i \in Ingesters : Ingest(i)
  <2>1. \A k \in Conversations : pc'[k] = pc[k]
    BY <1>4, OneIngester DEF Processes
  <2>2. QED
    BY <1>1, <1>4, <2>1 DEF Ingest, WritePage, CheckIndex, ReadIndex, AppendEntry
<1>5. CASE Edit \/ UNCHANGED vars
  BY <1>1, <1>5 DEF Edit, vars
<1>6. CASE Crash
  <2>1. \A m \in memories' : m \in memories \/ ~m.whole
    BY <1>6 DEF Crash, Memory
  <2>2. MemoriesDistinct'
    BY <2>1 DEF MemoriesDistinct
  <2>3. \A k \in Conversations : pc'[k] = "idle"
    BY <1>6 DEF Crash, Idle
  <2>4. QED
    BY <2>2, <2>3 DEF Rememberers
<1>7. QED
  BY <1>2, <1>3, <1>4, <1>5, <1>6, ProcessRemembers DEF Next

\* Conversations about one topic leave one memory, however many of them end at
\* the same time and whatever is cut short (Sedimenter.Process holds its mutex
\* from the judgement to the file).
THEOREM MemoriesAreDistinct == Spec => []MemoriesDistinct
<1>1. Init => Shapes /\ Rememberers /\ MemoriesDistinct
  BY ShapesInitial DEF Init, Rememberers, MemoriesDistinct, Idle
<1>2. /\ Shapes /\ Rememberers /\ MemoriesDistinct /\ [Next]_vars
      => (Shapes /\ Rememberers /\ MemoriesDistinct)'
  BY ShapesSteps, RememberSteps
<1>3. QED
  BY <1>1, <1>2, PTL DEF Spec

-----------------------------------------------------------------------------
(* What a search may rely on.                                               *)

\* What a page holds is among what a search has seen of it.
Seeing ==
  \A s \in Searchers : pc[s] # "idle" => \A p \in Pages : disk[p] \in seen[s][p]

Showable(s, p) ==
  \A c \in seen[s][p] : c # None /\ IsHit(job[s].query, c) /\ ~IsInternalPage(c)

\* A page that must be served is found, then to be read, then in the answer.
Finding(s) ==
  /\ pc[s] # "idle" => \A h \in job[s].todo : h.page \in Pages
  /\ pc[s] # "idle" /\ job[s].sparse # None => job[s].sparse \subseteq Pages
  /\ pc[s] = "sparse" => job[s].sparse = None
  /\ pc[s] \in {"index", "build", "rank", "merge"} /\ job[s].sparse # None =>
       \A p \in Pages : Showable(s, p) => p \in job[s].sparse
  /\ pc[s] = "read" /\ job[s].sparse # None =>
       \A p \in Pages : Showable(s, p) =>
         p \in { h.page : h \in job[s].todo } \cup { a.page : a \in job[s].found }

\* A text that was on its page when the search had begun.
Quoted(s, p, text) == \E c \in seen[s][p] \ {None} : text \in ToSet(ChunksOf[c])

Quoting(s) ==
  pc[s] # "idle" =>
    /\ \A h \in job[s].todo :
         h.chunk # None => h.chunk.torn \/ Quoted(s, h.page, h.chunk.text)
    /\ \A a \in job[s].found :
         \/ a.body.torn
         \/ Quoted(s, a.page, a.body.text)
         \/ \E c \in seen[s][a.page] \ {None} : a.body.text = FindBestChunk(c, job[s].query)
    /\ \A a \in job[s].found : a.page \in Pages
    /\ pc[s] # "read" => job[s].todo = {} /\ job[s].found = {}

\* The dense index: what is indexed has been seen by whoever is about to rank.
Indexing ==
  /\ storeMu.by # None => storeMu.manifest \in Docs
  /\ \A b \in Builders : pc[b] = "build" => storeMu.by = b
  /\ store.manifest \in Docs \cup {None}
  /\ \A e \in store.chunks :
       e.page \in Pages /\ store.manifest \in Docs /\ store.manifest[e.page] # None
  /\ \A e \in store.chunks \cup cache : e.vector = e.text

Ranking ==
  \A s \in Searchers :
    /\ pc[s] \in {"rank", "build"} /\ storeMu.by # None =>
         \A p \in Pages : storeMu.manifest[p] \in seen[s][p]
    /\ pc[s] = "rank" => \A p \in Pages : store.manifest[p] \in seen[s][p]

Searching ==
  /\ Seeing /\ Indexing /\ Ranking
  /\ \A s \in Searchers : Finding(s) /\ Quoting(s)
  /\ \A s \in Searchers : pc[s] = "idle" => job[s] = None

\* A search that does not move keeps what it has, while pages change.
LEMMA Elsewhere ==
  ASSUME NEW s \in Searchers, Finding(s), Quoting(s), job'[s] = job[s],
         pc'[s] = pc[s],
         \A p \in Pages : seen[s][p] \subseteq seen'[s][p]
  PROVE  Finding(s)' /\ Quoting(s)'
<1>1. \A p \in Pages : Showable(s, p)' => Showable(s, p)
  BY DEF Showable
<1>2. \A p \in Pages : \A text : Quoted(s, p, text) => Quoted(s, p, text)'
  BY DEF Quoted
<1>3. Finding(s)'
  BY <1>1 DEF Finding
<1>4. Quoting(s)'
  BY <1>2 DEF Quoting, Finding
<1>5. QED
  BY <1>3, <1>4

LEMMA PutSearches ==
  ASSUME Shapes, Searching, NEW p \in Pages, NEW c \in Contents \cup {None}, Put(p, c),
         UNCHANGED searching, \A b \in Builders : pc'[b] = pc[b]
  PROVE  Searching'
<1>1. /\ disk' \in Docs
      /\ \A s \in Searchers, q \in Pages :
           /\ seen[s][q] \subseteq seen'[s][q]
           /\ pc[s] # "idle" /\ disk[q] \in seen[s][q] => disk'[q] \in seen'[s][q]
  BY Putting DEF Shapes
<1>2. Seeing'
  BY <1>1 DEF Seeing, Searching
<1>3. Indexing'
  BY DEF Indexing, searching, Searching
<1>4. Ranking'
  BY <1>1 DEF Ranking, searching, Searching
<1>5. \A s \in Searchers : Finding(s)' /\ Quoting(s)'
  BY <1>1, Elsewhere DEF Searching, searching
<1>6. QED
  BY <1>2, <1>3, <1>4, <1>5 DEF Searching, searching

\* A step of one search leaves the others and the dense index alone.
LEMMA SearchersApart ==
  ASSUME Shapes, Searching, NEW s \in Searchers, Search(s)
  PROVE  /\ UNCHANGED <<disk, store, storeMu, cache>> /\ Indexing'
         /\ \A t \in Searchers : t # s =>
              pc'[t] = pc[t] /\ job'[t] = job[t] /\ seen'[t] = seen[t]
<1>1. UNCHANGED <<disk, store, storeMu, cache>>
  BY DEF Search, Ask, SparseSearch, Rank, Degrade, ReadHit, Answer
<1>2. \A y \in Processes : y # s => pc'[y] = pc[y]
  BY OneSearcher
<1>3. pc'[s] # "build"
  BY DEF Search, Ask, SparseSearch, Rank, Degrade, ReadHit, Answer, Return, Go, Shapes,
         Counters, Processes
<1>4. Indexing'
  BY <1>1, <1>2, <1>3 DEF Indexing, Searching, Processes
<1>5. \A t \in Searchers : t # s => job'[t] = job[t]
  BY DEF Search, Ask, SparseSearch, Rank, Degrade, ReadHit, Answer, Return, Shapes, Jobs
<1>6. \A t \in Searchers : t # s => seen'[t] = seen[t]
  BY DEF Search, Ask, SparseSearch, Rank, Degrade, ReadHit, Answer, Return, Shapes, Memos
<1>7. QED
  BY <1>1, <1>2, <1>4, <1>5, <1>6 DEF Processes

\* It is enough to look at the search that moves.
LEMMA OneSearch ==
  ASSUME Shapes, Searching, NEW s \in Searchers, Search(s),
         pc'[s] # "idle" => \A p \in Pages : disk[p] \in seen'[s][p],
         pc'[s] # "rank", Finding(s)', Quoting(s)', pc'[s] = "idle" => job'[s] = None
  PROVE  Searching'
<1>1. /\ UNCHANGED <<disk, store, storeMu, cache>> /\ Indexing'
      /\ \A t \in Searchers : t # s =>
           pc'[t] = pc[t] /\ job'[t] = job[t] /\ seen'[t] = seen[t]
  BY SearchersApart
<1>2. Seeing'
  BY <1>1 DEF Seeing, Searching
<1>3. pc'[s] \notin {"rank", "build"}
  BY DEF Search, Ask, SparseSearch, Rank, Degrade, ReadHit, Answer, Return, Go, Shapes,
         Counters, Processes
<1>4. Ranking'
  BY <1>1, <1>3 DEF Ranking, Searching
<1>5. \A t \in Searchers : t # s => Finding(t)' /\ Quoting(t)'
  BY <1>1, Elsewhere DEF Searching
<1>6. QED
  BY <1>1, <1>2, <1>4, <1>5 DEF Searching

LEMMA AskSearches ==
  ASSUME Shapes, Searching, NEW s \in Searchers, Ask(s)
  PROVE  Searching'
<1>1. pc'[s] = "sparse"
  BY Moving DEF Ask, Shapes, Processes
<1>2. \A p \in Pages : seen'[s][p] = {disk[p]}
  BY DEF Ask, Shapes, Memos
<1>3. job'[s].todo = {} /\ job'[s].found = {} /\ job'[s].sparse = None
  BY DEF Ask, Shapes, Jobs
<1>4. Finding(s)' /\ Quoting(s)'
  BY <1>1, <1>3 DEF Finding, Quoting
<1>5. QED
  BY <1>1, <1>2, <1>4, OneSearch DEF Search

LEMMA SparseSearchSearches ==
  ASSUME Shapes, Searching, NEW s \in Searchers, SparseSearch(s)
  PROVE  Searching'
<1>1. pc'[s] = "index" /\ pc[s] = "sparse" /\ seen' = seen /\ UNCHANGED disk
  BY Moving DEF SparseSearch, Shapes, Processes
<1>2. /\ job'[s].query = job[s].query /\ job'[s].todo = {} /\ job'[s].found = {}
      /\ \/ TokenizeQuery(job[s].query) = {} /\ job'[s].sparse = {}
         \/ job'[s].sparse = SparseHits(job[s].query, disk)
         \/ job'[s].sparse = job[s].sparse
  <2>1. job[s].todo = {} /\ job[s].found = {} /\ Job(job[s])
    BY <1>1 DEF Searching, Quoting, Shapes, Jobs
  <2>2. CASE job' = job
    BY <2>1, <2>2
  <2>3. CASE \E hits : /\ job' = [job EXCEPT ![s].sparse = hits]
                      /\ \/ TokenizeQuery(job[s].query) = {} /\ hits = {}
                         \/ hits = SparseHits(job[s].query, disk)
    BY <2>1, <2>3 DEF Shapes, Jobs, Job
  <2>4. QED
    BY <2>2, <2>3 DEF SparseSearch, Validate
<1>3. \A p \in Pages : Showable(s, p)' => p \in SparseHits(job[s].query, disk)
  BY <1>1, <1>2 DEF Showable, SparseHits, Searching, Seeing
<1>4. TokenizeQuery(job[s].query) = {} => \A p \in Pages : ~Showable(s, p)'
  BY <1>1, <1>2 DEF Showable, IsHit, Searching, Seeing
<1>5. job'[s].sparse # None =>
        /\ job'[s].sparse \subseteq Pages
        /\ \A p \in Pages : Showable(s, p)' => p \in job'[s].sparse
  BY <1>1, <1>2, <1>3, <1>4 DEF SparseHits, Searching, Finding
<1>6. Finding(s)' /\ Quoting(s)'
  BY <1>1, <1>2, <1>5 DEF Finding, Quoting
<1>7. QED
  BY <1>1, <1>6, OneSearch DEF Search, Searching, Seeing

\* The order of the dense results, or none at all, takes no page away.
LEMMA Merging ==
  ASSUME NEW s, NEW dense
  PROVE  /\ \A h \in Merge(s, dense) :
              \/ h.chunk = None /\ job[s].sparse # None /\ h.page \in job[s].sparse
              \/ \E e \in dense : /\ h.page = e.page
                                  /\ h.chunk = [text |-> e.text, torn |-> Torn(e.page)]
         /\ job[s].sparse # None =>
              \A p \in job[s].sparse : p \in { h.page : h \in Merge(s, dense) }
<1>1. \A h \in Merge(s, dense) :
        \/ h.chunk = None /\ job[s].sparse # None /\ h.page \in job[s].sparse
        \/ \E e \in dense : /\ h.page = e.page
                            /\ h.chunk = [text |-> e.text, torn |-> Torn(e.page)]
  BY DEF Merge
<1>2. ASSUME job[s].sparse # None, NEW p \in job[s].sparse
      PROVE  p \in { h.page : h \in Merge(s, dense) }
  <2>1. CASE p \in { e.page : e \in dense }
    <3>1. PICK e \in dense : p = e.page
      BY <2>1
    <3>2. [page |-> e.page, chunk |-> [text |-> e.text, torn |-> Torn(e.page)]]
            \in Merge(s, dense)
      BY DEF Merge
    <3>3. QED
      BY <3>1, <3>2
  <2>2. CASE p \notin { e.page : e \in dense }
    <3>1. [page |-> p, chunk |-> None] \in Merge(s, dense)
      BY <1>2, <2>2 DEF Merge
    <3>2. QED
      BY <3>1
  <2>3. QED
    BY <2>1, <2>2
<1>3. QED
  BY <1>1, <1>2

\* A search goes on to read what was merged.
LEMMA MergedSearches ==
  ASSUME Shapes, Searching, NEW s \in Searchers, NEW dense,
         pc[s] \in {"rank", "merge"}, pc'[s] = "read", seen' = seen,
         job'[s] = [job[s] EXCEPT !.todo = Merge(s, dense)],
         \A e \in dense : e.page \in Pages,
         \A e \in dense : ~Torn(e.page) => Quoted(s, e.page, e.text)
  PROVE  Finding(s)' /\ Quoting(s)'
<1>1. /\ job'[s].query = job[s].query /\ job'[s].sparse = job[s].sparse
      /\ job'[s].found = job[s].found /\ job'[s].todo = Merge(s, dense)
  BY DEF Shapes, Jobs, Job
<1>2. \A p \in Pages : Showable(s, p)' = Showable(s, p)
  BY <1>1 DEF Showable
<1>3. \A p, text : Quoted(s, p, text)' = Quoted(s, p, text)
  BY DEF Quoted
<1>4. Finding(s)'
  <2>1. \A h \in Merge(s, dense) : h.page \in Pages
    <3> SUFFICES ASSUME NEW h \in Merge(s, dense) PROVE h.page \in Pages
      OBVIOUS
    <3>1. CASE job[s].sparse # None /\ h.page \in job[s].sparse
      BY <3>1 DEF Finding, Searching
    <3>2. CASE ~(job[s].sparse # None /\ h.page \in job[s].sparse)
      <4>1. PICK e \in dense :
              h.page = e.page /\ h.chunk = [text |-> e.text, torn |-> Torn(e.page)]
        BY <3>2, Merging
      <4>2. QED
        BY <4>1
    <3>3. QED
      BY <3>1, <3>2
  <2>2. job[s].sparse # None => \A p \in Pages : Showable(s, p) =>
          p \in { h.page : h \in Merge(s, dense) }
    BY Merging DEF Finding, Searching
  <2>3. QED
    BY <1>1, <1>2, <2>1, <2>2 DEF Finding, Searching
<1>5. ASSUME NEW h \in Merge(s, dense), h.chunk # None
      PROVE  h.chunk.torn \/ Quoted(s, h.page, h.chunk.text)
  <2>1. PICK e \in dense :
          h.page = e.page /\ h.chunk = [text |-> e.text, torn |-> Torn(e.page)]
    BY <1>5, Merging
  <2>2. h.chunk.text = e.text /\ h.chunk.torn = Torn(e.page)
    BY <2>1
  <2>3. QED
    BY <2>1, <2>2, Zenon
<1>6. job[s].found = {}
  BY DEF Quoting, Searching
<1>7. Quoting(s)'
  BY <1>1, <1>3, <1>5, <1>6 DEF Quoting
<1>8. QED
  BY <1>4, <1>7

\* A chunk that is ranked was cut from what the search has seen.
LEMMA RankSearches ==
  ASSUME Shapes, Searching, NEW s \in Searchers, Rank(s)
  PROVE  Searching'
<1>1. pc'[s] = "read" /\ pc[s] = "rank" /\ seen' = seen /\ UNCHANGED disk
  BY Moving DEF Rank, Shapes, Processes
<1>2. PICK dense \in SUBSET store.chunks : job' = [job EXCEPT ![s].todo = Merge(s, dense)]
  <2> DEFINE similar == { e \in store.chunks : IsSimilar(job[s].query, e.vector) }
  <2>1. PICK top \in Nearest(similar, 2 * MaxResults) : \E dense \in SUBSET top :
          job' = [job EXCEPT ![s].todo = Merge(s, dense)]
    BY DEF Rank
  <2>2. top \subseteq similar
    BY DEF Nearest
  <2>3. QED
    BY <2>1, <2>2
<1>3. ASSUME NEW e \in dense
      PROVE  e.page \in Pages /\ (~Torn(e.page) => Quoted(s, e.page, e.text))
  <2>1. /\ e \in store.chunks /\ e.page \in Pages /\ store.manifest \in Docs
        /\ store.manifest[e.page] # None
    BY DEF Searching, Indexing
  <2>2. store.manifest[e.page] \in seen[s][e.page] \ {None}
    BY <1>1, <2>1 DEF Searching, Ranking
  <2>3. ~Torn(e.page) => e.text \in ToSet(ChunksOf[store.manifest[e.page]])
    BY <2>1 DEF Torn
  <2>4. QED
    BY <2>1, <2>2, <2>3 DEF Quoted
<1>4. /\ \A e \in dense : e.page \in Pages
      /\ \A e \in dense : ~Torn(e.page) => Quoted(s, e.page, e.text)
  BY <1>3
<1>5. pc[s] \in {"rank", "merge"}
  BY <1>1
<1>6. job'[s] = [job[s] EXCEPT !.todo = Merge(s, dense)]
  BY <1>2 DEF Shapes, Jobs
<1>7. Finding(s)' /\ Quoting(s)'
  BY <1>1, <1>4, <1>5, <1>6, MergedSearches
<1>8. QED
  BY <1>1, <1>7, OneSearch DEF Search, Searching, Seeing

\* The end of a search.
LEMMA ReturnSearches ==
  ASSUME Shapes, Searching, NEW s \in Searchers, Search(s), Return(s)
  PROVE  Searching'
<1>1. pc'[s] = "idle"
  BY Moving DEF Return, Shapes, Processes
<1>2. job'[s] = None
  BY DEF Return, Shapes, Jobs
<1>3. Finding(s)' /\ Quoting(s)'
  BY <1>1 DEF Finding, Quoting
<1>4. QED
  BY <1>1, <1>2, <1>3, OneSearch

LEMMA DegradeSearches ==
  ASSUME Shapes, Searching, NEW s \in Searchers, Degrade(s)
  PROVE  Searching'
<1>1. CASE Return(s)
  BY <1>1, ReturnSearches DEF Search
<1>2. CASE job' = [job EXCEPT ![s].todo = Merge(s, {})] /\ Go(s, "read") /\ UNCHANGED seen
  <2>1. pc'[s] = "read" /\ UNCHANGED disk /\ pc[s] \in {"rank", "merge"}
    BY <1>2, Moving DEF Degrade, Shapes, Processes
  <2>2. job'[s] = [job[s] EXCEPT !.todo = Merge(s, {})]
    BY <1>2 DEF Shapes, Jobs
  <2>3. Finding(s)' /\ Quoting(s)'
    BY <1>2, <2>1, <2>2, MergedSearches
  <2>4. QED
    BY <1>2, <2>1, <2>3, OneSearch DEF Search, Searching, Seeing
<1>3. QED
  BY <1>1, <1>2 DEF Degrade

\* The body of a hit that is served.
Body(s, h) ==
  IF h.chunk # None THEN h.chunk
  ELSE [text |-> FindBestChunk(disk[h.page], job[s].query), torn |-> FALSE]

\* A hit is served, or it is skipped and its page was gone, not to be shown, or
\* could not be read.
LEMMA HitRead ==
  ASSUME Shapes, NEW s \in Searchers, ReadHit(s)
  PROVE  \E h \in job[s].todo :
           /\ job'[s].query = job[s].query /\ job'[s].sparse = job[s].sparse
           /\ job'[s].todo = job[s].todo \ {h}
           /\ \A p \in Pages : seen'[s][p] \in {seen[s][p], seen[s][p] \cup {None}}
           /\ \/ /\ disk[h.page] # None
                 /\ job'[s].found = job[s].found \cup {[page |-> h.page, body |-> Body(s, h)]}
              \/ /\ job'[s].found = job[s].found
                 /\ h.page \in Pages =>
                      \/ disk[h.page] = None
                      \/ IsInternalPage(disk[h.page])
                      \/ None \in seen'[s][h.page]
<1>1. Job(job[s])
  BY DEF ReadHit, Shapes, Jobs
<1>2. PICK h \in job[s].todo :
        \/ /\ disk[h.page] # None
           /\ job' = [job EXCEPT ![s].todo = @ \ {h},
                                 ![s].found = @ \cup {[page |-> h.page, body |-> Body(s, h)]}]
           /\ UNCHANGED seen
        \/ /\ job' = [job EXCEPT ![s].todo = @ \ {h}]
           /\ \/ /\ disk[h.page] = None \/ IsInternalPage(disk[h.page])
                 /\ UNCHANGED seen
              \/ seen' = [seen EXCEPT ![s][h.page] = @ \cup {None}]
  BY DEF ReadHit, Body
<1> DEFINE new == [page |-> h.page, body |-> Body(s, h)]
<1> HIDE DEF new
<1>3. CASE /\ disk[h.page] # None /\ UNCHANGED seen
           /\ job' = [job EXCEPT ![s].todo = @ \ {h}, ![s].found = @ \cup {new}]
  <2>1. job'[s] = [job[s] EXCEPT !.todo = @ \ {h}, !.found = @ \cup {new}]
    BY <1>3 DEF Shapes, Jobs
  <2>2. /\ job'[s].query = job[s].query /\ job'[s].sparse = job[s].sparse
        /\ job'[s].todo = job[s].todo \ {h} /\ job'[s].found = job[s].found \cup {new}
    BY <1>1, <2>1 DEF Job
  <2>3. QED
    BY <1>3, <2>2 DEF new
<1>4. CASE job' = [job EXCEPT ![s].todo = @ \ {h}]
  <2>1. job'[s] = [job[s] EXCEPT !.todo = @ \ {h}]
    BY <1>4 DEF Shapes, Jobs
  <2>2. /\ job'[s].query = job[s].query /\ job'[s].sparse = job[s].sparse
        /\ job'[s].todo = job[s].todo \ {h} /\ job'[s].found = job[s].found
    BY <1>1, <2>1 DEF Job
  <2>3. CASE UNCHANGED seen /\ (disk[h.page] = None \/ IsInternalPage(disk[h.page]))
    BY <2>2, <2>3
  <2>4. CASE seen' = [seen EXCEPT ![s][h.page] = @ \cup {None}]
    <3>1. \A p \in Pages : seen'[s][p] = IF p = h.page THEN seen[s][p] \cup {None}
                                          ELSE seen[s][p]
      BY <2>4 DEF Shapes, Memos
    <3>2. QED
      BY <2>2, <3>1
  <2>5. CASE disk[h.page] # None /\ UNCHANGED seen /\ job' = [job EXCEPT
               ![s].todo = @ \ {h}, ![s].found = @ \cup {new}]
    BY <1>3, <2>5
  <2>6. QED
    BY <1>2, <2>3, <2>4, <2>5 DEF new
<1>5. QED
  BY <1>2, <1>3, <1>4 DEF new

LEMMA ReadHitSearches ==
  ASSUME Shapes, Searching, NEW s \in Searchers, ReadHit(s)
  PROVE  Searching'
<1>1. pc[s] = "read" /\ pc' = pc /\ UNCHANGED disk
  BY DEF ReadHit
<1>2. PICK h \in job[s].todo :
        /\ job'[s].query = job[s].query /\ job'[s].sparse = job[s].sparse
        /\ job'[s].todo = job[s].todo \ {h}
        /\ \A p \in Pages : seen'[s][p] \in {seen[s][p], seen[s][p] \cup {None}}
        /\ \/ /\ disk[h.page] # None
              /\ job'[s].found = job[s].found \cup {[page |-> h.page, body |-> Body(s, h)]}
           \/ /\ job'[s].found = job[s].found
              /\ h.page \in Pages =>
                   \/ disk[h.page] = None
                   \/ IsInternalPage(disk[h.page])
                   \/ None \in seen'[s][h.page]
  BY HitRead
<1> HIDE DEF Body
<1>3. h.page \in Pages /\ disk[h.page] \in seen[s][h.page]
  BY <1>1 DEF Searching, Seeing, Finding
<1>4. \A p \in Pages :
        seen[s][p] \subseteq seen'[s][p] /\ seen'[s][p] \ {None} = seen[s][p] \ {None}
  BY <1>2
<1>5. \A p \in Pages : Showable(s, p)' => Showable(s, p)
  BY <1>2, <1>4 DEF Showable
<1>6. \A p \in Pages : \A text : Quoted(s, p, text)' = Quoted(s, p, text)
  BY <1>4 DEF Quoted
<1>7. job[s].found \subseteq job'[s].found
  BY <1>2
<1>8. Finding(s)'
  <2>1. Showable(s, h.page)' => h.page \in { a.page : a \in job'[s].found }
    <3> SUFFICES ASSUME Showable(s, h.page)'
                 PROVE  h.page \in { a.page : a \in job'[s].found }
      OBVIOUS
    <3>1. disk[h.page] # None /\ ~IsInternalPage(disk[h.page]) /\ None \notin seen'[s][h.page]
      BY <1>3, <1>4 DEF Showable
    <3>2. [page |-> h.page, body |-> Body(s, h)] \in job'[s].found
      BY <1>2, <1>3, <3>1
    <3>3. QED
      BY <3>2
  <2>2. \A p \in Pages : p # h.page /\ p \in { x.page : x \in job[s].todo } =>
                         p \in { x.page : x \in job'[s].todo }
    BY <1>2
  <2>3. { a.page : a \in job[s].found } \subseteq { a.page : a \in job'[s].found }
    BY <1>7
  <2>4. job[s].sparse # None => \A p \in Pages : Showable(s, p)' =>
          p \in { x.page : x \in job'[s].todo } \cup { a.page : a \in job'[s].found }
    BY <1>1, <1>5, <2>1, <2>2, <2>3 DEF Searching, Finding
  <2>5. /\ \A x \in job'[s].todo : x.page \in Pages
        /\ job'[s].sparse # None => job'[s].sparse \subseteq Pages
    BY <1>1, <1>2 DEF Searching, Finding
  <2>6. QED
    BY <1>1, <1>2, <2>4, <2>5 DEF Finding
<1>9. disk[h.page] # None =>
      \/ Body(s, h).torn
      \/ Quoted(s, h.page, Body(s, h).text)
      \/ \E c \in seen[s][h.page] \ {None} : Body(s, h).text = FindBestChunk(c, job[s].query)
  <2>1. CASE h.chunk # None
    BY <1>1, <2>1 DEF Body, Searching, Quoting
  <2>2. CASE h.chunk = None
    BY <1>3, <2>2 DEF Body
  <2>3. QED
    BY <2>1, <2>2
<1>10. Quoting(s)'
  <2>1. ASSUME NEW x \in job'[s].todo, x.chunk # None
        PROVE  x.chunk.torn \/ Quoted(s, x.page, x.chunk.text)'
    BY <1>1, <1>2, <1>6, <2>1 DEF Searching, Quoting, Finding
  <2>2. ASSUME NEW a \in job'[s].found
        PROVE  /\ a.page \in Pages
               /\ \/ a.body.torn
                  \/ Quoted(s, a.page, a.body.text)
                  \/ \E c \in seen[s][a.page] \ {None} :
                       a.body.text = FindBestChunk(c, job[s].query)
    <3>1. CASE a \in job[s].found
      BY <1>1, <3>1 DEF Searching, Quoting
    <3>2. CASE a \notin job[s].found
      <4>1. disk[h.page] # None /\ a = [page |-> h.page, body |-> Body(s, h)]
        BY <1>2, <3>2
      <4>2. a.page = h.page /\ a.body = Body(s, h)
        BY <4>1
      <4>3. QED
        BY <1>3, <1>9, <4>1, <4>2
    <3>3. QED
      BY <3>1, <3>2
  <2>3. ASSUME NEW a \in job'[s].found
        PROVE  \/ a.body.torn
               \/ Quoted(s, a.page, a.body.text)'
               \/ \E c \in seen'[s][a.page] \ {None} :
                    a.body.text = FindBestChunk(c, job'[s].query)
    BY <1>2, <1>4, <1>6, <2>2
  <2>4. QED
    BY <1>1, <2>1, <2>2, <2>3 DEF Quoting
<1>11. pc'[s] # "idle" => \A p \in Pages : disk[p] \in seen'[s][p]
  BY <1>1, <1>4 DEF Searching, Seeing
<1>12. QED
  BY <1>1, <1>8, <1>10, <1>11, OneSearch DEF Search

LEMMA SearchSearches ==
  ASSUME Shapes, Searching, NEW s \in Searchers, Search(s)
  PROVE  Searching'
<1>1. CASE Answer(s)
  BY <1>1, ReturnSearches DEF Answer
<1>2. QED
  BY <1>1, AskSearches, SparseSearchSearches, RankSearches, DegradeSearches, ReadHitSearches
     DEF Search

LEMMA BeginIndexSearches ==
  ASSUME Shapes, Searching, NEW b \in Builders, BeginIndex(b)
  PROVE  Searching'
<1>1. UNCHANGED <<disk, cache, store, job, seen>>
  BY DEF BeginIndex
<1>2. /\ pc[b] = "index"
      /\ \/ pc'[b] \in {"done", "rank", "merge"} /\ storeMu' = storeMu /\ storeMu = Free
         \/ pc'[b] = "build" /\ storeMu' = [by |-> b, manifest |-> disk]
      /\ pc'[b] = "rank" => store.manifest = disk
      /\ pc'[b] = "done" => b = Warmup
      /\ \A y \in Processes : y # b => pc'[y] = pc[y]
  BY OneBuilder, Moving DEF BeginIndex, UpToDate, Ready, Unready, Go, Shapes, Counters, Processes
<1>3. Seeing'
  BY <1>1, <1>2 DEF Seeing, Searching, Processes
<1>4. Indexing'
  <2>1. \A c \in Builders : pc[c] # "build"
    BY DEF BeginIndex, Searching, Indexing, Free
  <2>2. QED
    BY <1>1, <1>2, <2>1 DEF Indexing, Searching, Shapes, Processes
<1>5. Ranking'
  BY <1>1, <1>2 DEF Ranking, Searching, Seeing, Processes, Free
<1>6. \A s \in Searchers : Finding(s)' /\ Quoting(s)'
  <2>1. ASSUME NEW s \in Searchers, s # b PROVE Finding(s)' /\ Quoting(s)'
    BY <1>1, <1>2, <2>1, Elsewhere DEF Searching, Processes
  <2>2. ASSUME b \in Searchers PROVE Finding(b)' /\ Quoting(b)'
    <3>1. pc'[b] \in {"build", "rank", "merge"} /\ pc[b] = "index"
      BY <1>2, <2>2
    <3>2. \A p \in Pages : Showable(b, p)' = Showable(b, p)
      BY <1>1 DEF Showable
    <3>3. Finding(b)'
      BY <1>1, <2>2, <3>1, <3>2 DEF Finding, Searching
    <3>4. Quoting(b)'
      BY <1>1, <2>2, <3>1 DEF Quoting, Searching
    <3>5. QED
      BY <3>3, <3>4
  <2>3. QED
    BY <2>1, <2>2
<1>7. \A s \in Searchers : pc'[s] = "idle" => job'[s] = None
  BY <1>1, <1>2 DEF Searching, Processes
<1>8. QED
  BY <1>3, <1>4, <1>5, <1>6, <1>7 DEF Searching

\* A vector that is used again is that of the same text.
LEMMA Embedding ==
  ASSUME Indexing, NEW p, NEW c
  PROVE  \A e \in Entries(p, c) : e.page = p /\ e.vector = e.text
<1> DEFINE Old(i) == Reusable(p, i, ChunksOf[c][i])
           Vector(i) == IF Old(i) = {} THEN ChunksOf[c][i] ELSE CHOOSE v \in Old(i) : TRUE
<1>1. \A i : \A v \in Old(i) : v = ChunksOf[c][i]
  BY DEF Reusable, SameChunk, Indexing
<1> HIDE DEF Old
<1>2. \A i : Vector(i) = ChunksOf[c][i]
  BY <1>1
<1> HIDE DEF Vector
<1>3. Entries(p, c) = { [page |-> p, id |-> i, text |-> ChunksOf[c][i], vector |-> Vector(i)] :
                          i \in DOMAIN ChunksOf[c] }
  BY DEF Entries, Vector, Old
<1>4. QED
  BY <1>2, <1>3

LEMMA BuildSearches ==
  ASSUME Shapes, Searching, NEW b \in Builders, Build(b)
  PROVE  Searching'
<1>1. UNCHANGED <<disk, job, seen>> /\ pc[b] = "build" /\ storeMu' = Free /\ storeMu.by = b
  BY DEF Build, Searching, Indexing
<1>2. /\ pc'[b] \in {"done", "rank", "merge"}
      /\ pc'[b] = "done" <=> b = Warmup
      /\ pc'[b] = "rank" => store'.manifest = storeMu.manifest
      /\ \A y \in Processes : y # b => pc'[y] = pc[y]
  <2>1. Go(b, pc'[b]) /\ \A y \in Processes : y # b => pc'[y] = pc[y]
    BY OneBuilder
  <2>2. \A to : Go(b, to) => pc'[b] = to
    BY Moving DEF Shapes, Processes
  <2>3. CASE Ready(b) /\ store'.manifest = storeMu.manifest
    BY <2>1, <2>2, <2>3 DEF Ready
  <2>4. CASE Unready(b)
    BY <2>1, <2>2, <2>4 DEF Unready
  <2>5. QED
    BY <2>3, <2>4 DEF Build
<1>3. storeMu.manifest \in Docs /\ b # None
  BY <1>1 DEF Searching, Indexing
<1>4. \/ UNCHANGED <<store, cache>>
      \/ LET pages == { p \in Pages : storeMu.manifest[p] # None }
             chunks == UNION { Entries(p, disk[p]) : p \in pages }
         IN store' = [manifest |-> storeMu.manifest, chunks |-> chunks] /\ cache' \in {cache, chunks}
  BY DEF Build
<1>5. Seeing'
  BY <1>1, <1>2 DEF Seeing, Searching, Processes
<1>6. Indexing'
  <2>1. \A c \in Builders : pc'[c] # "build"
    BY <1>1, <1>2 DEF Searching, Indexing, Processes
  <2>2. CASE UNCHANGED <<store, cache>>
    BY <1>1, <2>1, <2>2 DEF Searching, Indexing, Free
  <2>3. CASE ~UNCHANGED <<store, cache>>
    <3> DEFINE pages == { p \in Pages : storeMu.manifest[p] # None }
               chunks == UNION { Entries(p, disk[p]) : p \in pages }
    <3>1. \A e \in chunks : e.page \in pages /\ e.vector = e.text
      BY Embedding DEF Searching
    <3>2. store' = [manifest |-> storeMu.manifest, chunks |-> chunks] /\ cache' \in {cache, chunks}
      BY <1>4, <2>3
    <3> HIDE DEF chunks
    <3>3. QED
      BY <1>1, <1>3, <2>1, <3>1, <3>2 DEF Searching, Indexing, Free
  <2>4. QED
    BY <2>2, <2>3
<1>7. Ranking'
  <2>1. storeMu'.by = None
    BY <1>1 DEF Free
  <2>2. ASSUME NEW s \in Searchers, pc'[s] = "rank", NEW p \in Pages
        PROVE  store'.manifest[p] \in seen'[s][p]
    <3>1. CASE store'.manifest = storeMu.manifest
      BY <1>1, <1>2, <1>3, <2>2, <3>1 DEF Searching, Ranking, Processes
    <3>2. CASE store' = store /\ s # b
      BY <1>1, <1>2, <2>2, <3>2 DEF Searching, Ranking, Processes
    <3>3. QED
      BY <1>2, <1>4, <2>2, <3>1, <3>2
  <2>3. QED
    BY <2>1, <2>2 DEF Ranking
<1>8. \A s \in Searchers : Finding(s)' /\ Quoting(s)'
  <2>1. ASSUME NEW s \in Searchers, s # b PROVE Finding(s)' /\ Quoting(s)'
    BY <1>1, <1>2, <2>1, Elsewhere DEF Searching, Processes
  <2>2. ASSUME b \in Searchers PROVE Finding(b)' /\ Quoting(b)'
    <3>1. pc'[b] \in {"build", "rank", "merge"} /\ pc[b] = "build"
      BY <1>1, <1>2, <2>2
    <3>2. \A p \in Pages : Showable(b, p)' = Showable(b, p)
      BY <1>1 DEF Showable
    <3>3. Finding(b)'
      BY <1>1, <2>2, <3>1, <3>2 DEF Finding, Searching
    <3>4. Quoting(b)'
      BY <1>1, <2>2, <3>1 DEF Quoting, Searching
    <3>5. QED
      BY <3>3, <3>4
  <2>3. QED
    BY <2>1, <2>2
<1>9. \A s \in Searchers : pc'[s] = "idle" => job'[s] = None
  BY <1>1, <1>2 DEF Searching, Processes
<1>10. QED
  BY <1>5, <1>6, <1>7, <1>8, <1>9 DEF Searching

LEMMA IngestSearches ==
  ASSUME Shapes, Searching, NEW i \in Ingesters, Ingest(i)
  PROVE  Searching'
<1>1. UNCHANGED searching /\ \A b \in Builders : pc'[b] = pc[b]
  BY OneIngester DEF Ingest, WritePage, CheckIndex, ReadIndex, AppendEntry, Processes
<1>2. CASE WritePage(i)
  BY <1>1, <1>2, PutSearches DEF WritePage
<1>3. CASE ~WritePage(i)
  <2>1. UNCHANGED <<disk, seen>>
    BY <1>3 DEF Ingest, CheckIndex, ReadIndex, AppendEntry
  <2>2. QED
    BY <1>1, <2>1, Elsewhere DEF Searching, Seeing, Indexing, Ranking, searching
<1>4. QED
  BY <1>2, <1>3

LEMMA SearchingSteps == Shapes /\ Searching /\ [Next]_vars => Searching'
<1> SUFFICES ASSUME Shapes, Searching, [Next]_vars PROVE Searching'
  OBVIOUS
<1>1. ASSUME UNCHANGED <<searching, disk, seen>>, \A b \in Builders : pc'[b] = pc[b]
      PROVE  Searching'
  BY <1>1, Elsewhere DEF Searching, Seeing, Indexing, Ranking, searching
<1>2. CASE \E k \in Conversations : Process(k)
  <2>1. \A b \in Builders : pc'[b] = pc[b]
    BY <1>2, OneConversation DEF Processes
  <2>2. QED
    BY <1>1, <1>2, <2>1 DEF Process, JudgeDecide, GenerateSummary, DedupCheck, WriteMemory
<1>3. CASE Edit
  BY <1>3, PutSearches DEF Edit
<1>4. CASE Crash
  <2>1. /\ \A s \in Searchers : pc'[s] = "idle" /\ job'[s] = None
        /\ \A b \in Builders : pc'[b] # "build"
        /\ storeMu' = Free /\ store' = Empty /\ UNCHANGED cache
    BY <1>4 DEF Crash, Idle
  <2>2. \A s \in Searchers : Finding(s)' /\ Quoting(s)'
    BY <2>1 DEF Finding, Quoting
  <2>3. QED
    BY <2>1, <2>2 DEF Searching, Seeing, Indexing, Ranking, Free, Empty
<1>5. CASE UNCHANGED vars
  BY <1>1, <1>5 DEF vars
<1>6. QED
  BY <1>2, <1>3, <1>4, <1>5, SearchSearches, BeginIndexSearches, BuildSearches, IngestSearches
     DEF Next

LEMMA SearchingAlways == Spec => [](Shapes /\ Searching)
<1>1. Init => Searching
  <2>1. ASSUME Init, NEW s \in Searchers PROVE Finding(s) /\ Quoting(s)
    BY <2>1 DEF Init, Idle, Finding, Quoting
  <2>2. QED
    BY <2>1 DEF Init, Idle, Searching, Seeing, Indexing, Ranking, Free, Empty
<1>2. QED
  BY <1>1, ShapesInitial, ShapesSteps, SearchingSteps, PTL DEF Spec

\* Whatever was edited, rebuilt, cached and restarted meanwhile, an answer
\* quotes what was on its page after the question was asked, unless the page
\* changed twice while it was indexed; and the vector of a chunk is its own
\* (ensureIndexed publishes under the mutex what it read after the manifest).
THEOREM ServedTextsWereCurrent == Spec => []ServedWasCurrent
<1>1. Searching => ServedWasCurrent
  BY DEF Searching, Indexing, Quoting, Quoted, ServedWasCurrent
<1>2. QED
  BY <1>1, SearchingAlways, PTL

\* No index is so stale that a search misses a page that matched all along
\* (the sparse cache is used only for exactly the files and hashes it has).
THEOREM MatchingPagesAreServed == Spec => []MatchesAreServed
<1>1. Searching => MatchesAreServed
  BY DEF Searching, Finding, Showable, Complete, MatchesAreServed
<1>2. QED
  BY <1>1, SearchingAlways, PTL

-----------------------------------------------------------------------------
(* Types, mutexes and bounds.                                               *)

StoreLock ==
  /\ storeMu.by \in Builders \cup {None}
  /\ \A b \in Builders : storeMu.by = b <=> pc[b] = "build"

WriterLock == \A i \in Ingesters : writerMu = i <=> pc[i] = "append"

MemoryLock == \A k \in Conversations : memoryMu = k <=> pc[k] # "idle"

Answers ==
  \A s \in Searchers : pc[s] # "idle" =>
    IsFiniteSet(job[s].found) /\ Cardinality(job[s].found) <= MaxResults

Files == sparse \in Docs \cup {None} /\ EntriesOK(store.chunks) /\ EntriesOK(cache)

Bounds ==
  listed \subseteq Pages /\ changes \in 0 .. MaxChanges /\ crashes \in 0 .. MaxCrashes

LEMMA StoreLockSteps == Shapes /\ StoreLock /\ [Next]_vars => StoreLock'
<1> SUFFICES ASSUME Shapes, StoreLock, [Next]_vars PROVE StoreLock'
  OBVIOUS
<1>1. ASSUME UNCHANGED storeMu,
             \A b \in Builders : pc'[b] = pc[b] \/ (pc[b] # "build" /\ pc'[b] # "build")
      PROVE  StoreLock'
  BY <1>1 DEF StoreLock
<1>2. ASSUME NEW s \in Searchers, Search(s) PROVE StoreLock'
  <2>1. \A y \in Processes : y # s => pc'[y] = pc[y]
    BY <1>2, OneSearcher
  <2>2. pc[s] # "build" /\ pc'[s] # "build"
    BY <1>2 DEF Search, Ask, SparseSearch, Rank, Degrade, ReadHit, Answer, Complete, Return, Go,
                Shapes, Counters, Processes
  <2>3. UNCHANGED storeMu
    BY <1>2 DEF Search, Ask, SparseSearch, Rank, Degrade, ReadHit, Answer
  <2>4. QED
    BY <1>1, <2>1, <2>2, <2>3 DEF Processes
<1>3. ASSUME NEW b \in Builders, BeginIndex(b) PROVE StoreLock'
  <2>1. \A y \in Processes : y # b => pc'[y] = pc[y]
    BY <1>3, OneBuilder
  <2>2. /\ pc[b] = "index" /\ storeMu = Free
        /\ \/ pc'[b] # "build" /\ UNCHANGED storeMu
           \/ pc'[b] = "build" /\ storeMu' = [by |-> b, manifest |-> disk]
    BY <1>3 DEF BeginIndex, Ready, Unready, Go, Shapes, Counters, Processes
  <2>3. QED
    BY <2>1, <2>2 DEF StoreLock, Free, Processes
<1>4. ASSUME NEW b \in Builders, Build(b) PROVE StoreLock'
  <2>1. \A y \in Processes : y # b => pc'[y] = pc[y]
    BY <1>4, OneBuilder
  <2>2. pc[b] = "build" /\ pc'[b] # "build" /\ storeMu' = Free
    BY <1>4 DEF Build, Ready, Unready, Go, Shapes, Counters, Processes
  <2>3. QED
    BY <2>1, <2>2 DEF StoreLock, Free, Processes
<1>5. CASE \E i \in Ingesters : Ingest(i)
  <2>1. \A b \in Builders : pc'[b] = pc[b]
    BY <1>5, OneIngester DEF Processes
  <2>2. UNCHANGED storeMu
    BY <1>5 DEF Ingest, WritePage, CheckIndex, ReadIndex, AppendEntry, searching
  <2>3. QED
    BY <1>1, <2>1, <2>2
<1>6. CASE \E k \in Conversations : Process(k)
  <2>1. \A b \in Builders : pc'[b] = pc[b]
    BY <1>6, OneConversation DEF Processes
  <2>2. UNCHANGED storeMu
    BY <1>6 DEF Process, JudgeDecide, GenerateSummary, DedupCheck, WriteMemory, searching
  <2>3. QED
    BY <1>1, <2>1, <2>2
<1>7. CASE Edit \/ UNCHANGED vars
  BY <1>1, <1>7 DEF Edit, vars, searching
<1>8. CASE Crash
  BY <1>8 DEF Crash, StoreLock, Free, Idle
<1>9. QED
  BY <1>2, <1>3, <1>4, <1>5, <1>6, <1>7, <1>8 DEF Next

LEMMA WriterLockSteps == Shapes /\ WriterLock /\ [Next]_vars => WriterLock'
<1> SUFFICES ASSUME Shapes, WriterLock, [Next]_vars PROVE WriterLock'
  OBVIOUS
<1>1. ASSUME UNCHANGED writerMu, \A i \in Ingesters : pc'[i] = pc[i]
      PROVE  WriterLock'
  BY <1>1 DEF WriterLock
<1>2. ASSUME NEW i \in Ingesters, Ingest(i) PROVE WriterLock'
  <2>1. \A j \in Ingesters : j # i => pc'[j] = pc[j]
    BY <1>2, OneIngester DEF Processes
  <2>2. \/ UNCHANGED writerMu /\ pc[i] # "append" /\ pc'[i] # "append"
        \/ writerMu = None /\ writerMu' = i /\ pc'[i] = "append"
        \/ pc[i] = "append" /\ writerMu' = None /\ pc'[i] = "idle"
    BY <1>2 DEF Ingest, WritePage, CheckIndex, ReadIndex, AppendEntry, Ingested, Go, Shapes,
                Counters, Processes
  <2>3. QED
    BY <2>1, <2>2 DEF WriterLock
<1>3. CASE \E s \in Searchers : Search(s)
  <2>1. \A i \in Ingesters : pc'[i] = pc[i]
    BY <1>3, OneSearcher DEF Processes
  <2>2. QED
    BY <1>1, <1>3, <2>1 DEF Search, Ask, SparseSearch, Rank, Degrade, ReadHit, Answer, writing
<1>4. CASE \E b \in Builders : BeginIndex(b) \/ Build(b)
  <2>1. \A i \in Ingesters : pc'[i] = pc[i]
    BY <1>4, OneBuilder DEF Processes
  <2>2. QED
    BY <1>1, <1>4, <2>1 DEF BeginIndex, Build, writing
<1>5. CASE \E k \in Conversations : Process(k)
  <2>1. \A i \in Ingesters : pc'[i] = pc[i]
    BY <1>5, OneConversation DEF Processes
  <2>2. QED
    BY <1>1, <1>5, <2>1 DEF Process, JudgeDecide, GenerateSummary, DedupCheck, WriteMemory, writing
<1>6. CASE Edit \/ UNCHANGED vars
  BY <1>1, <1>6 DEF Edit, vars, writing
<1>7. CASE Crash
  BY <1>7 DEF Crash, WriterLock, Idle
<1>8. QED
  BY <1>2, <1>3, <1>4, <1>5, <1>6, <1>7 DEF Next

LEMMA MemoryLockSteps == Shapes /\ MemoryLock /\ [Next]_vars => MemoryLock'
<1> SUFFICES ASSUME Shapes, MemoryLock, [Next]_vars PROVE MemoryLock'
  OBVIOUS
<1>1. ASSUME UNCHANGED memoryMu, \A k \in Conversations : pc'[k] = pc[k]
      PROVE  MemoryLock'
  BY <1>1 DEF MemoryLock
<1>2. ASSUME NEW k \in Conversations, Process(k) PROVE MemoryLock'
  <2>1. \A j \in Conversations : j # k => pc'[j] = pc[j]
    BY <1>2, OneConversation DEF Processes
  <2>2. \/ UNCHANGED memoryMu /\ pc[k] # "idle" /\ pc'[k] # "idle"
        \/ memoryMu = None /\ memoryMu' = k /\ pc'[k] # "idle"
        \/ pc[k] # "idle" /\ memoryMu' = None /\ pc'[k] = "idle"
    BY <1>2 DEF Process, JudgeDecide, GenerateSummary, DedupCheck, WriteMemory, Processed, Go,
                Shapes, Counters, Processes
  <2>3. QED
    BY <2>1, <2>2 DEF MemoryLock
<1>3. CASE \E s \in Searchers : Search(s)
  <2>1. \A k \in Conversations : pc'[k] = pc[k]
    BY <1>3, OneSearcher DEF Processes
  <2>2. QED
    BY <1>1, <1>3, <2>1 DEF Search, Ask, SparseSearch, Rank, Degrade, ReadHit, Answer, remembering
<1>4. CASE \E b \in Builders : BeginIndex(b) \/ Build(b)
  <2>1. \A k \in Conversations : pc'[k] = pc[k]
    BY <1>4, OneBuilder DEF Processes
  <2>2. QED
    BY <1>1, <1>4, <2>1 DEF BeginIndex, Build, remembering
<1>5. CASE \E i \in Ingesters : Ingest(i)
  <2>1. \A k \in Conversations : pc'[k] = pc[k]
    BY <1>5, OneIngester DEF Processes
  <2>2. QED
    BY <1>1, <1>5, <2>1 DEF Ingest, WritePage, CheckIndex, ReadIndex, AppendEntry, remembering
<1>6. CASE Edit \/ UNCHANGED vars
  BY <1>1, <1>6 DEF Edit, vars, remembering
<1>7. CASE Crash
  BY <1>7 DEF Crash, MemoryLock, Idle
<1>8. QED
  BY <1>2, <1>3, <1>4, <1>5, <1>6, <1>7 DEF Next

\* An answer grows hit by hit, up to its limit.
LEMMA AnswersSteps == Shapes /\ Answers /\ [Next]_vars => Answers'
<1> SUFFICES ASSUME Shapes, Answers, [Next]_vars PROVE Answers'
  OBVIOUS
<1>1. ASSUME UNCHANGED job, \A s \in Searchers : pc'[s] # "idle" => pc[s] # "idle"
      PROVE  Answers'
  BY <1>1 DEF Answers
<1>2. ASSUME NEW s \in Searchers, Search(s) PROVE Answers'
  <2>1. \A y \in Processes : y # s => pc'[y] = pc[y]
    BY <1>2, OneSearcher
  <2>2. \A t \in Searchers : t # s => job'[t] = job[t]
    BY <1>2 DEF Search, Ask, SparseSearch, Rank, Degrade, ReadHit, Answer, Return, Shapes, Jobs
  <2>3. ASSUME pc'[s] # "idle"
        PROVE  IsFiniteSet(job'[s].found) /\ Cardinality(job'[s].found) <= MaxResults
    <3>1. CASE Ask(s)
      <4>1. job'[s].found = {}
        BY <3>1 DEF Ask, Shapes, Jobs
      <4>2. QED
        BY <4>1, FS_EmptySet
    <3>2. CASE SparseSearch(s) \/ Rank(s)
      <4>1. pc[s] # "idle" /\ job'[s].found = job[s].found
        BY <3>2 DEF SparseSearch, Rank, Shapes, Jobs, Job
      <4>2. QED
        BY <4>1 DEF Answers
    <3>3. CASE Degrade(s)
      <4>1. ~Return(s)
        BY <2>3, Moving DEF Return, Shapes, Processes
      <4>2. pc[s] # "idle" /\ job'[s].found = job[s].found
        BY <3>3, <4>1 DEF Degrade, Shapes, Jobs, Job
      <4>3. QED
        BY <4>2 DEF Answers
    <3>4. CASE ReadHit(s)
      <4>1. /\ pc[s] # "idle" /\ Cardinality(job[s].found) < MaxResults
            /\ \E x : job'[s].found \in {job[s].found, job[s].found \cup {x}}
        <5>1. PICK todo, x :
                \/ job' = [job EXCEPT ![s].todo = todo, ![s].found = @]
                \/ job' = [job EXCEPT ![s].todo = todo, ![s].found = @ \cup {x}]
          BY <3>4 DEF ReadHit
        <5>2. pc[s] # "idle" /\ Cardinality(job[s].found) < MaxResults /\ Job(job[s])
          BY <3>4 DEF ReadHit, Shapes, Jobs
        <5>3. \/ job'[s] = [job[s] EXCEPT !.todo = todo, !.found = @]
              \/ job'[s] = [job[s] EXCEPT !.todo = todo, !.found = @ \cup {x}]
          BY <5>1 DEF Shapes, Jobs
        <5>4. job'[s].found \in {job[s].found, job[s].found \cup {x}}
          BY <5>2, <5>3 DEF Job
        <5>5. QED
          BY <5>2, <5>4
      <4>2. IsFiniteSet(job[s].found) /\ Cardinality(job[s].found) \in Nat
        BY <4>1, FS_CardinalityType DEF Answers
      <4>3. PICK x : job'[s].found \in {job[s].found, job[s].found \cup {x}}
        BY <4>1
      <4>4. /\ IsFiniteSet(job[s].found \cup {x})
            /\ Cardinality(job[s].found \cup {x}) \in
                 {Cardinality(job[s].found), Cardinality(job[s].found) + 1}
        BY <4>2, FS_AddElement
      <4>5. MaxResults \in Nat
        BY DEF VaultAssumption
      <4>6. /\ Cardinality(job[s].found) <= MaxResults
            /\ Cardinality(job[s].found \cup {x}) <= MaxResults
        BY <4>1, <4>2, <4>4, <4>5
      <4>7. QED
        BY <4>2, <4>3, <4>4, <4>6
    <3>5. CASE Answer(s)
      BY <2>3, <3>5, Moving DEF Answer, Return, Shapes, Processes
    <3>6. QED
      BY <1>2, <3>1, <3>2, <3>3, <3>4, <3>5 DEF Search
  <2>4. QED
    BY <2>1, <2>2, <2>3 DEF Answers, Processes
<1>3. CASE \E b \in Builders : BeginIndex(b) \/ Build(b)
  <2>1. \A s \in Searchers : pc'[s] # "idle" => pc[s] # "idle"
    BY <1>3, OneBuilder DEF Processes, BeginIndex, Build
  <2>2. QED
    BY <1>1, <1>3, <2>1 DEF BeginIndex, Build
<1>4. CASE \E i \in Ingesters : Ingest(i)
  <2>1. \A s \in Searchers : pc'[s] = pc[s]
    BY <1>4, OneIngester DEF Processes
  <2>2. UNCHANGED job
    BY <1>4 DEF Ingest, WritePage, CheckIndex, ReadIndex, AppendEntry, searching
  <2>3. QED
    BY <1>1, <2>1, <2>2
<1>5. CASE \E k \in Conversations : Process(k)
  <2>1. \A s \in Searchers : pc'[s] = pc[s]
    BY <1>5, OneConversation DEF Processes
  <2>2. UNCHANGED job
    BY <1>5 DEF Process, JudgeDecide, GenerateSummary, DedupCheck, WriteMemory, searching
  <2>3. QED
    BY <1>1, <2>1, <2>2
<1>6. CASE Edit \/ UNCHANGED vars
  BY <1>1, <1>6 DEF Edit, vars, searching
<1>7. CASE Crash
  BY <1>7 DEF Crash, Answers, Idle
<1>8. QED
  BY <1>2, <1>3, <1>4, <1>5, <1>6, <1>7 DEF Next

\* What is published at once has one entry for each place of each page.
LEMMA Publishing ==
  ASSUME NEW pages \in SUBSET Pages
  PROVE  EntriesOK(UNION { Entries(p, disk[p]) : p \in pages })
<1> DEFINE Vector(p, i) == LET text == ChunksOf[disk[p]][i]
                               old == Reusable(p, i, text)
                           IN IF old = {} THEN text ELSE CHOOSE v \in old : TRUE
<1>1. \A p : Entries(p, disk[p]) =
        { [page |-> p, id |-> i, text |-> ChunksOf[disk[p]][i], vector |-> Vector(p, i)] :
            i \in DOMAIN ChunksOf[disk[p]] }
  BY DEF Entries
<1> HIDE DEF Vector
<1>2. \A e \in UNION { Entries(p, disk[p]) : p \in pages } :
        /\ e.page \in pages
        /\ e = [page |-> e.page, id |-> e.id, text |-> ChunksOf[disk[e.page]][e.id],
                vector |-> Vector(e.page, e.id)]
  BY <1>1
<1>3. QED
  BY <1>2 DEF EntriesOK

LEMMA FilesSteps == Shapes /\ Files /\ [Next]_vars => Files'
<1> SUFFICES ASSUME Shapes, Files, [Next]_vars PROVE Files'
  OBVIOUS
<1>1. ASSUME UNCHANGED <<sparse, store, cache>> PROVE Files'
  BY <1>1 DEF Files
<1>2. ASSUME NEW s \in Searchers, Search(s) PROVE Files'
  BY <1>2 DEF Search, Ask, SparseSearch, Rank, Degrade, ReadHit, Answer, Files, Shapes
<1>3. ASSUME NEW b \in Builders, Build(b) PROVE Files'
  <2> DEFINE pages == { p \in Pages : storeMu.manifest[p] # None }
             chunks == UNION { Entries(p, disk[p]) : p \in pages }
  <2>1. CASE UNCHANGED <<store, cache>>
    BY <1>1, <1>3, <2>1 DEF Build
  <2>2. CASE store' = [manifest |-> storeMu.manifest, chunks |-> chunks] /\ cache' \in {cache, chunks}
    <3>1. EntriesOK(chunks)
      BY Publishing
    <3> HIDE DEF chunks
    <3>2. QED
      BY <1>3, <2>2, <3>1 DEF Build, Files
  <2>3. QED
    BY <1>3, <2>1, <2>2 DEF Build
<1>4. CASE \E b \in Builders : BeginIndex(b)
  BY <1>1, <1>4 DEF BeginIndex
<1>5. CASE \E i \in Ingesters : Ingest(i)
  BY <1>1, <1>5 DEF Ingest, WritePage, CheckIndex, ReadIndex, AppendEntry, searching
<1>6. CASE \E k \in Conversations : Process(k)
  BY <1>1, <1>6 DEF Process, JudgeDecide, GenerateSummary, DedupCheck, WriteMemory, searching
<1>7. CASE Edit \/ UNCHANGED vars
  BY <1>1, <1>7 DEF Edit, vars, searching
<1>8. CASE Crash
  BY <1>8 DEF Crash, Files, Empty, EntriesOK
<1>9. QED
  BY <1>2, <1>3, <1>4, <1>5, <1>6, <1>7, <1>8 DEF Next

LEMMA BoundsSteps == Shapes /\ Writers /\ Bounds /\ [Next]_vars => Bounds'
<1> SUFFICES ASSUME Shapes, Writers, Bounds, [Next]_vars PROVE Bounds'
  OBVIOUS
<1> USE DEF Bounds
<1>1. CASE \E s \in Searchers : Search(s)
  BY <1>1 DEF Search, Ask, SparseSearch, Rank, Degrade, ReadHit, Answer, writing
<1>2. CASE \E b \in Builders : BeginIndex(b) \/ Build(b)
  BY <1>2 DEF BeginIndex, Build, writing
<1>3. ASSUME NEW i \in Ingesters, Ingest(i) PROVE Bounds'
  BY <1>3 DEF Ingest, WritePage, Change, CheckIndex, ReadIndex, AppendEntry, Ingested, Writers
<1>4. CASE \E k \in Conversations : Process(k)
  BY <1>4 DEF Process, JudgeDecide, Change, GenerateSummary, DedupCheck, WriteMemory, writing
<1>5. CASE Edit
  BY <1>5 DEF Edit, Change, writing
<1>6. CASE Crash
  BY <1>6 DEF Crash
<1>7. CASE UNCHANGED vars
  BY <1>7 DEF vars, writing
<1>8. QED
  BY <1>1, <1>2, <1>3, <1>4, <1>5, <1>6, <1>7 DEF Next

\* Every variable has its type in every reachable state: who holds a mutex is
\* where the mutex is held, no two chunks of the store have one place, and no
\* answer is longer than its limit.
THEOREM VaultTypes == Spec => []VaultTypeOK
<1> DEFINE Locks == StoreLock /\ WriterLock /\ MemoryLock
           Inv == Locks /\ Answers /\ Files /\ Bounds /\ Writers /\ IngestedIsListed
<1>1. Init => Inv
  <2>1. Init => Locks /\ Answers
    BY DEF Init, Idle, StoreLock, WriterLock, MemoryLock, Answers, Free
  <2>2. Init => Files /\ Bounds
    BY DEF Init, Files, Bounds, Empty, EntriesOK
  <2>3. QED
    BY <2>1, <2>2, ListInitial
<1>2. Shapes /\ Searching /\ Inv /\ [Next]_vars => Inv'
  BY StoreLockSteps, WriterLockSteps, MemoryLockSteps, AnswersSteps, FilesSteps, BoundsSteps,
     ListSteps
<1>3. Shapes /\ Searching /\ Inv => VaultTypeOK
  <2> SUFFICES ASSUME Shapes, Searching, Inv PROVE VaultTypeOK
    OBVIOUS
  <2>1. /\ disk \in Docs /\ index \in Seq(Pages) /\ listed \subseteq Pages
        /\ sparse \in Docs \cup {None}
        /\ store.manifest \in Docs \cup {None} /\ EntriesOK(store.chunks) /\ EntriesOK(cache)
        /\ storeMu.by \in Builders \cup {None}
        /\ changes \in 0 .. MaxChanges /\ crashes \in 0 .. MaxCrashes
    BY DEF Shapes, Searching, Indexing, Writers, Files, Bounds, StoreLock
  <2>2. /\ \A b \in Builders : (storeMu.by = b) = (pc[b] = "build")
        /\ \A i \in Ingesters : (writerMu = i) = (pc[i] = "append")
    BY DEF StoreLock, WriterLock
  <2>3. \A k \in Conversations : (memoryMu = k) = (pc[k] \in {"summarize", "dedup", "write"})
    BY DEF MemoryLock, Shapes, Counters
  <2>4. \A s \in Searchers : IF pc[s] = "idle" THEN job[s] = None
                             ELSE Cardinality(job[s].found) <= MaxResults
    BY DEF Searching, Answers
  <2>5. QED
    BY <2>1, <2>2, <2>3, <2>4 DEF VaultTypeOK
<1> HIDE DEF Inv
<1>4. QED
  BY <1>1, <1>2, <1>3, SearchingAlways, PTL DEF Spec

================================================================================
