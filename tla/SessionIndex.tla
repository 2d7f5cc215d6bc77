------------------------------ MODULE SessionIndex ------------------------------
(***************************************************************************)
(* The search over past conversations: the index of                        *)
(* core/session_store.go, the goroutine that handleChat starts for each    *)
(* question (gateway/websocket.go:187-201), embeddings.json and the start  *)
(* of the program, on the web chat.                                        *)
(*                                                                         *)
(* An entry is the text of a message at a place, the pair of conversation  *)
(* and position that IndexMessage identifies it by.  Its vector is         *)
(* external: it is there or not.  All questions are long enough to be      *)
(* indexed.                                                                *)
(***************************************************************************)
EXTENDS WebChat

CONSTANTS
  Jobs,          \* goroutines of IndexMessage, each with the saver it starts
  PoorService,   \* the runs, by the crashes before, in which a call for a
                 \* vector may fail
  PoorStore      \* the runs in which the directory may not be readable and
                 \* embeddings.json not writable

ASSUME IndexAssumption == PoorService \subseteq Nat /\ PoorStore \subseteq Nat

VARIABLES
  index,         \* SessionStore.messages
  cache,         \* embeddings.json: None (no file), Torn, or a document
  job,           \* the goroutines: how far each is and what it works on
  cloned,        \* whether handleChat is past CloneSession, before its chain
  boot           \* Initialize, then "up"

indexVars == <<index, cache, job, cloned, boot>>
allVars == <<webVars, indexVars>>

Place == Keys \X (Nat \ {0})
Entry == [place : Place, text : Texts, vector : BOOLEAN]

\* No call for a vector fails in this run of the program.
EmbedderUp == crashes \notin PoorService

\* The directory can be read and embeddings.json written.
SoundStore == crashes \notin PoorStore

\* embeddings.json as a whole document.
Document(entries) == [entries |-> entries]

\* What can be read is neither of the two that cannot.
ASSUME CacheAssumption == {None, Torn} \cap [entries : SUBSET Entry] = {}

Idle == [step |-> "idle", data |-> {}]

\* The savers between RLock and RUnlock: the index stays as it is.
Saving(n) == job[n].step \in {"truncate", "write"}

\* A variant of ReadLocked: RUnlock before the file is written.
ReadLockedBriefly == FALSE

ReadLocked == \E n \in Jobs : Saving(n)

\* A variant of QuestionsOf: the position counts the questions only.
QuestionsOfByRound(k, history) ==
  { [place |-> <<k, Cardinality({ j \in 1 .. i : history[j].role = "user" })>>,
     text |-> history[i].text, vector |-> FALSE] :
      i \in { j \in DOMAIN history : history[j].role = "user" } }

\* The questions of a history, as entries without a vector.
QuestionsOf(k, history) ==
  { [place |-> <<k, i>>, text |-> history[i].text, vector |-> FALSE] :
      i \in { j \in DOMAIN history : history[j].role = "user" } }

IndexInit ==
  /\ WebInit
  /\ index = {}
  /\ cache = None
  /\ job = [n \in Jobs |-> Idle]
  /\ cloned = [w \in Sockets |-> FALSE]
  /\ boot = "load"

-----------------------------------------------------------------------------
(* Initialize, before any request is served (app.go:111).                   *)

\* loadEmbeddingCache: a file that can be read and has an entry is the index.
CacheServes == cache \notin {None, Torn, Document({})}

LoadCache ==
  /\ boot = "load"
  /\ CacheServes
  /\ index' = cache.entries
  /\ boot' = "up"
  /\ UNCHANGED <<webVars, cache, job, cloned>>

\* What buildEmbeddings collects from the files it can read.
Collected == UNION { QuestionsOf(k, disk[k].messages) : k \in { j \in Keys : Readable(j) } }

\* buildEmbeddings: an entry whose call fails stays without a vector.
Rebuild ==
  /\ boot = "load"
  /\ ~CacheServes
  /\ \E failed \in SUBSET Collected :
       /\ EmbedderUp => failed = {}
       /\ index' = failed \cup { [e EXCEPT !.vector = TRUE] : e \in Collected \ failed }
  /\ boot' = "truncate"
  /\ UNCHANGED <<webVars, cache, job, cloned>>

\* The directory cannot be read: the program starts with an empty index.
NoDirectory ==
  /\ boot = "load"
  /\ ~SoundStore
  /\ boot' = "up"
  /\ UNCHANGED <<webVars, index, cache, job, cloned>>

\* Its saveEmbeddingCache, while nobody else runs.
BootTruncate ==
  /\ boot = "truncate"
  /\ \/ cache' = Torn /\ boot' = "write"
     \/ ~SoundStore /\ boot' = "up" /\ UNCHANGED cache
  /\ UNCHANGED <<webVars, index, job, cloned>>

BootWrite ==
  /\ boot = "write"
  /\ cache' = Document(index) \/ (~SoundStore /\ UNCHANGED cache)
  /\ boot' = "up"
  /\ UNCHANGED <<webVars, index, job, cloned>>

Boot == LoadCache \/ Rebuild \/ NoDirectory \/ BootTruncate \/ BootWrite

-----------------------------------------------------------------------------
(* handleChat between the question and its chain.                           *)

\* The messages that CloneSession returns.
Clone(w) == messages[session[w]]

\* The last of them, with its position.
LastEntry(w) ==
  [place |-> <<KeyOf[session[w]], Len(Clone(w))>>, text |-> Last(Clone(w)).text, vector |-> TRUE]

EndsInQuestion(w) == Clone(w) # <<>> /\ Last(Clone(w)).role = "user"

\* A variant of LastMessage: the position counted from zero.
LastMessageFromZero(w) ==
  IF EndsInQuestion(w) THEN {[LastEntry(w) EXCEPT !.place[2] = @ - 1]} ELSE {}

\* It is for IndexMessage, which does nothing unless it is a question.
LastMessage(w) == IF EndsInQuestion(w) THEN {LastEntry(w)} ELSE {}

\* CloneSession, and the goroutine.
Spawn(w) ==
  /\ wpc[w] = "chain" /\ ~cloned[w]
  /\ cloned' = [cloned EXCEPT ![w] = TRUE]
  /\ \/ LastMessage(w) = {} /\ UNCHANGED job
     \/ /\ LastMessage(w) # {}
        /\ \E n \in Jobs :
             /\ job[n] = Idle
             /\ job' = [job EXCEPT ![n] = [step |-> "embed", data |-> LastMessage(w)]]
  /\ UNCHANGED <<webVars, index, cache, boot>>

\* Every other step of the socket; the chain begins after the clone.
Handler(w) ==
  /\ Socket(w)
  /\ wpc[w] = "chain" => cloned[w]
  /\ cloned' = [cloned EXCEPT ![w] = FALSE]
  /\ UNCHANGED <<index, cache, job, boot>>

-----------------------------------------------------------------------------
(* IndexMessage and the goroutine that saves the index.                     *)

\* A variant of Updated: the place is looked for by its conversation only.
UpdatedByConversation(new) ==
  { e \in index : e.place[1] \notin { f.place[1] : f \in new } } \cup new

\* The entry at the place of the new one is replaced, if there is one.
Updated(new) ==
  { e \in index : e.place \notin { f.place : f \in new } } \cup new

\* The call for the vector fails or times out.
EmbedFails(n) ==
  /\ job[n].step = "embed"
  /\ ~EmbedderUp
  /\ job' = [job EXCEPT ![n] = Idle]
  /\ UNCHANGED <<webVars, index, cache, cloned, boot>>

\* It returns one, which goes into the index under ss.mu; then the saver starts.
IndexMessage(n) ==
  /\ job[n].step = "embed"
  /\ ~ReadLocked
  /\ index' = Updated(job[n].data)
  /\ job' = [job EXCEPT ![n] = [step |-> "lock", data |-> {}]]
  /\ UNCHANGED <<webVars, cache, cloned, boot>>

\* saveEmbeddingCache: the index is read under RLock, which is held until the
\* file is written.
SaveIndex(n) ==
  /\ job[n].step = "lock"
  /\ job' = [job EXCEPT ![n] = [step |-> "truncate", data |-> index]]
  /\ UNCHANGED <<webVars, index, cache, cloned, boot>>

TruncateCache(n) ==
  /\ job[n].step = "truncate"
  /\ \/ cache' = Torn /\ job' = [job EXCEPT ![n].step = "write"]
     \/ ~SoundStore /\ job' = [job EXCEPT ![n] = Idle] /\ UNCHANGED cache
  /\ UNCHANGED <<webVars, index, cloned, boot>>

\* Savers that overlap write the same bytes.
WriteCache(n) ==
  /\ job[n].step = "write"
  /\ cache' = Document(job[n].data) \/ (~SoundStore /\ UNCHANGED cache)
  /\ job' = [job EXCEPT ![n] = Idle]
  /\ UNCHANGED <<webVars, index, cloned, boot>>

Job(n) ==
  EmbedFails(n) \/ IndexMessage(n) \/ SaveIndex(n) \/ TruncateCache(n) \/ WriteCache(n)

-----------------------------------------------------------------------------
(* The whole.                                                               *)

Serving ==
  /\ boot = "up"
  /\ \/ \E w \in Sockets : Spawn(w) \/ Handler(w)
     \/ \E n \in Jobs : Job(n)
     \/ Background /\ UNCHANGED <<socketVars, fileVars, crashes, indexVars>>

\* The goroutines and the index are gone; embeddings.json stays as it is.
IndexCrash ==
  /\ Crash
  /\ index' = {}
  /\ job' = [n \in Jobs |-> Idle]
  /\ cloned' = [w \in Sockets |-> FALSE]
  /\ boot' = "load"
  /\ UNCHANGED cache

IndexNext == Boot \/ Serving \/ IndexCrash

IndexSpec == IndexInit /\ [][IndexNext]_allVars

-----------------------------------------------------------------------------
(* Properties.                                                              *)

Steps == {"idle", "embed", "lock", "truncate", "write"}

\* The type of every variable.
IndexTypeOK ==
  /\ WebTypeOK
  /\ \A e \in index : e \in Entry
  /\ cache \notin {None, Torn} => \A e \in cache.entries : e \in Entry
  /\ \A n \in Jobs : job[n].step \in Steps /\ \A e \in job[n].data : e \in Entry
  /\ cloned \in [Sockets -> BOOLEAN]
  /\ boot \in {"load", "truncate", "write", "up"}

\* The text of an entry was asked at its place in a session of its conversation.
WasAsked(e) ==
  \E s \in Sessions :
    /\ KeyOf[s] = e.place[1]
    /\ e.place[2] \in DOMAIN messages[s]
    /\ messages[s][e.place[2]] = Question(e.text)

\* A hit is a question somebody asked where the hit says, although sockets that
\* share the conversation add to it between the question and the clone
\* (websocket.go:188-191), and whatever was read back after a restart.
HitsWereAsked == \A e \in index : WasAsked(e)

\* A place is in the index once, although a conversation that was resumed from
\* an older file uses its places again (session_store.go:198-208).
OneEntryPerPlace == \A e, f \in index : e.place = f.place => e = f

\* The program serves, and nobody is about to save the index.
Settled == boot = "up" /\ \A n \in Jobs : job[n].step \in {"idle", "embed"}

\* Then embeddings.json holds the index, whatever savers overlapped and wherever
\* the program died before (session_store.go:331-344), in a directory that can be
\* read and written.
CacheIsIndex == SoundStore /\ Settled => cache = Document(index)

\* Two entries of one question, place and text.
SameQuestion(e, f) == e.place = f.place /\ e.text = f.text

\* A question is in the index, with its text and a vector, about to be, or will
\* be handed to the indexer by a handler before its chain begins.
Covered(e) ==
  \/ \E w \in Sockets :
       wpc[w] = "chain" /\ ~cloned[w] /\ \E f \in LastMessage(w) : SameQuestion(e, f)
  \/ \E n \in Jobs : job[n].step = "embed" /\ \E f \in job[n].data : SameQuestion(e, f)
  \/ \E f \in index : SameQuestion(e, f) /\ f.vector

\* The questions a conversation was asked, in any of its sessions.
AskedIn(k) ==
  UNION { QuestionsOf(k, messages[s]) : s \in { t \in Sessions : KeyOf[t] = k } }

\* The others that were asked at its place: a conversation that is resumed from
\* a file without its last question uses the place of that question again.
Rivals(e) == { f \in AskedIn(e.place[1]) \ {e} : f.place = e.place }

\* The program runs for the first time, and every vector can be had.
FirstRun == EmbedderUp /\ crashes = 0

\* Then each question of a conversation open in one socket is indexed, with its
\* own text: what the chain, a time-out or a failed write does to the conversation
\* meanwhile takes none of them out of the search (websocket.go:187-201).  The
\* exception is a question with rivals: of those the index keeps the one whose
\* indexer came last, which may be the older one (session_store.go:198-208); one
\* of them it keeps.
QuestionsAreIndexed ==
  FirstRun => \A k \in OneTab : \A e \in AskedIn(k) :
    Covered(e) \/ \E f \in Rivals(e) : Covered(f)

================================================================================
