# TLA+ specifications of the Go agent

The repository holds a personal assistant: `go-agent/` is one Go process that
talks to users over WeCom, a REST API and a browser chat, keeps their
conversations as *sessions*, answers them with chains of model calls and vault
lookups, writes finished conversations to a knowledge vault and watches a Home
Assistant installation. `inference-service/` is a small Python proxy in front of
the model server. This directory specifies that process from its callbacks and
sockets down to the files it keeps, model-checks it with TLC and proves the main
safety properties of its core with TLAPS. Paths
below are relative to `go-agent/internal/` unless they start elsewhere.

## 1. Inventory

| Component | State it keeps | Operations | Talks to | Hard because |
|---|---|---|---|---|
| Session manager, `core/session.go` | map key -> session, each session's state, history, round count, last activity; `endCh` (50 places) | `GetOrCreate`, `AddMessage`, `EndSession`, `CompleteSession`, idle scan, `Stop` | called by every handler and socket; `endCh` to the consumer | two kinds of lock, check-then-act over both, a channel that may be full |
| Agent main loop, `core/agent.go`, `channel/manager.go` | none but local variables | `Run`, one goroutine per message (`handleMessageContext`), `consumeSessionEnds` | channels, session manager, chains, sedimentation | handlers of one user run concurrently; shutdown order of four kinds of goroutine |
| Session store, `core/session_store.go`, `core/session_owner.go` | one JSON file per conversation; the search index and `embeddings.json` | `SaveSession`, `BrowserSession`, `Initialize`, `IndexMessage`, `SearchSessions` | session manager (its lock), embedder, files | clone under a lock, write under none; files written in place; one indexer and one saver per question, beside everything else |
| Web chat gateway, `gateway/` | per socket: conversation id | socket loop, chat, REST endpoints | session store, chain executor | several sockets in one conversation, reconnects, restarts |
| Channels and WeCom, `channel/` | two bounded queues, the access token | callback, fan-in, send, token refresh | WeCom servers, agent loop | redelivery, queue limits, loss at shutdown, one token for all replies |
| Smart home, `smarthome/` | suggestions and their status, history and snapshot files, what Home Assistant was given | analyse, confirm, ignore, execute; collector; start and stop | Home Assistant, the vault | two writes around an effect outside, handlers and analyses over one file, restarts between them |
| Chain executor, `chain/` | one `ChainState` per run | step loop, switch of chains, the steps | inference client, vault, the handlers | recursion, cancellation, errors half way |
| Inference client, `inference/client.go` | one goroutine and one channel per stream | chat, stream, embed | inference service | producer and reader of a stream stop in either order |
| Sedimentation, `memory/` | the files of `_memory` | judge, summarise, dedupe, write | consumer of ended sessions | the comparison and the write are apart; partial writes |
| Vault, `vault/` | pages, `index.md`, a sparse and a dense index with a cache file each | read, write, index, search | everything | pages change under a search, an index and a cache |
| Filters and router, `filter/`, `core/router.go` | none | pure functions | agent loop, gateway | when a question may leave the machine |
| Wiring and configuration, `core/app.go`, `core/config.go` | none | build, run, shut down | all | one signal context |

What makes each correct, in short: a key has one live conversation and the
manager can always find it; the session limit holds; an ended conversation
reaches sedimentation once and whole; an answer stands behind its question; what
a user was shown is on disk; an acknowledged message is handled; a suggestion goes
through its life cycle whatever happens between two of its writes; a stream's text
arrives whole or is called broken; what an answer quotes was on the page; a
shutdown completes and loses only what the code decides to drop. `PROJECT.json` lists
every place in the code where this could go wrong ("hazards") and the property
that watches it.

## 2. Modules

| Module | Models | Uses |
|---|---|---|
| `SessionLifecycle` | the promise: unused -> active -> ending -> closed, one active session per key, a limit (`core/session.go:12-20`) | - |
| `SessionManager` | the session manager and the consumer of ended sessions, with arbitrary callers | refines `SessionLifecycle` |
| `AgentLoop` | the dispatch loop, all steps of the message handlers and the shutdown | extends `SessionManager` |
| `WebChat` | the sockets, the session files, reconnects and restarts | extends `SessionManager` |
| `SessionIndex` | the search over past conversations: start-up, indexers, savers of `embeddings.json`, a restart | extends `WebChat`, implements its specification |
| `Channels` | a message's way from the callback to its goroutine and its reply, with the access token | - |
| `ChatChain` | one request from its handler through the executor, the steps and the token stream | - |
| `RuleLifecycle` | the promise: what a suggested rule may go through, and when it is installed | - |
| `HistoryAnalysis` | the analyzer, as operators over history files | - |
| `SmartHome` | handlers, analyses, collector, `Start` and `Stop` over the device store, with a restart | extends `HistoryAnalysis`, refines `RuleLifecycle` |
| `Retrieval` | chunking, query tokens, matching, best chunk and page visibility, as operators | - |
| `Vault` | searches over both indexes, ingestions, sedimentation, an editor, a restart | extends `Retrieval` |
| `MC...` | one small instance of each for TLC | |
| `SessionManagerProofs`, `AgentLoopProofs`, `ChannelsProofs`, `ChatChainProofs`, `SmartHomeProofs`, `VaultProofs`, `WebChatProofs`, `SessionIndexProofs` | theorems about the module they are named after | extend it |

**Grain of atomicity.** One action is one critical section (`SessionManager.mu`
or one `Session.mu`), one channel operation or one effect outside the process.
`EndSession` is therefore two actions (state change, then the send after the
unlock), `CompleteSession` two, the scanner five, and `GetOrCreate` two (read
lock, then write lock with its second check). Two places take several locks and
are still one action:

- `activeCountLocked` reads sessions one after the other while others may end
  theirs. Nothing can become active meanwhile (that needs the manager lock), so
  the number it returns is the true number at the instant of its last read that
  mattered; the action is placed there.
- `Stop` closes the mapped sessions one by one under the manager lock after
  handlers and consumer are gone; the scanner can at most end one of them in
  between, which is the order "scanner first" or "Stop first" of the model.

**State.** The manager's variables are the fields of the Go structs: `current`
is `SessionManager.sessions`, `state`, `messages`, `rounds` are a session's
fields, `endCh` the channel, `overflow` the goroutines that `EndSession` starts
when the channel is full, `sending` the callers between the unlock and the send.
`idle` stands for the clock: "the last activity is more than `IdleTimeout` ago".
A pointer to a session stays valid for ever, so a session is an identity and
`current` says which of them the map holds. `consumerPc`/`consuming` and
`scanPc`/`expired`/`doomed` are the program counters and locals of the two
background goroutines.

In `AgentLoop` a message is a number, its handler has a program counter `pc`, its
local session `sess`, the count of lookups `attempt` and the history handed to
the chain, `context`. The chain is external: it answers or fails. The select
of `Manager.Run` may take a message although the context is done, as Go allows;
`LoopExit` stands for both of its ways out.

In `WebChat` a key is a conversation id. It outlives `Session` objects: it is
resumed from its file after its session was closed or the process restarted.
`wpc`, `conv`, `asked`, `session` and `snapshot` are a socket goroutine's program
counter, `sessionID` and locals; `disk` is the directory of session files, a file
being absent, torn or a history. `os.WriteFile` is two actions, since it empties
the file first. Questions are distinct so that a question and its answer can be
told apart. All conversations have one owner. `Crash` is a restart; a regular
shutdown does the same to the sockets, which `http.Server.Shutdown` does not
wait for.

In `SessionIndex` an entry is the text of a message at a *place*, its conversation and
position, by which `IndexMessage` knows it again; its vector, external, is there or
not. `index` is `SessionStore.messages`, `cache` is `embeddings.json`. A `job` is the
goroutine `handleChat` starts for a question, from the call for the vector ("embed")
to the saver it starts in turn ("lock", "truncate", "write"). `ReadLocked` is the
read lock of the savers: while one holds it, nobody changes the index. `cloned` puts
`CloneSession` between the question and the chain; every other step of a socket is
`WebChat`'s. `boot` is `Initialize`, which ends before a request is served.

In `Channels` a delivery is a message and the number of its try, since WeCom sends
a message again that was refused or not acknowledged in time. `request`, `inbound`,
`moving`, `merged` and `pc` are the places it passes: the HTTP request, the
adapter's queue, the hands of the fan-in goroutine, the merged queue, its own
goroutine. `token` and `tokenMu` are the token manager's; a refresh holds the mutex
during its call. What happens in a goroutine before the reply is `AgentLoop`.

`ChatChain` runs one request after the other, since requests share nothing in the
chain. `chain`, `step`, `pc` and `state` are the executor's position and the fields
of `ChainState` that later steps read; the stream has a producer (`reader`, with
the chunk it is sending in `held`), the channel `chunks`, the step that turns chunks
into tokens (`emitting`) and a caller that reads them or not. A text is the number
of deltas of the model's output it holds, so an answer that lacks one, or has one
twice, is told apart. The two channels hold one element. Handlers that stream are
callers of the package that set `Stream`; the HTTP handlers do not (section 5).

In `SmartHome` one action is one critical section of the store, one call to Home
Assistant or one write of a document. `changeSuggestion` and `SaveSuggestions` are two
actions each: the store's mutex is taken with the new content of `suggestions.json` in
`draft`, then the file is renamed into place or not. An analysis looks at its context at
the end of `Analyze` and before `SaveReport` (`smarthome/manager.go:162`, `181`), not
when it takes the mutex, and a read that fails ends it (`GivesUp`, `Publish`). `file` is
the status of each rule in it. A call may fail without or with effect. `history` is the
set of files the collector has written; what they hold is fixed by the constant
`Contents`, and `Suggestions(history)` is what an analysis may publish: the analyzer's
pairs of devices come from a Go map, so a correlation is looked for in one direction,
either one.

In `Vault` a walk over the directory (a manifest of hashes, the build of the sparse
index) is one action, since it reads each page at one instant and no property
relates two. A search is a sequence of actions: the sparse search, the check and
build of the dense index under its mutex (two actions: the manifest, then the
pages), the ranking, one action per page read again, the answer. A text is a
sequence of words and a vector is the text it was computed from, which is what
`ServedWasCurrent` needs to tell a vector of an old text from one of the new.
Similarity, external, is "shares a word"; which of more similar chunks than
twice `MaxResults` are the nearest is open. The sparse index is of whole files, so tags and
category match like the body (`FileWords`). A page of the answer that cannot be read is
skipped, and `seen` then counts it as gone (`ReadHit`); that the snippets of the sparse
search can be read is assumed. `seen` and `listed` are history variables.

## 3. Runs

All with `tlc -config <cfg> <MC module>`. In the runs of the sessions and of
`channels` deadlock is not an error: users may stop talking, the bounds stop them
sooner, and a process that was shut down has ended. The runs `chain`, `smarthome`
and `vault` check for deadlock as well.

| Run | Configuration | Shows |
|---|---|---|
| `manager` | `SessionManager.cfg` | one active session per key, the limit, ended sessions in exactly one place, sedimented histories final, refinement of `SessionLifecycle`; ended sessions get closed, silent ones get ended |
| `loop` | `AgentLoop.cfg` | an impatient and a patient user, two messages each: answers behind questions, questions once, nothing active after `Stop`; the patient user loses no answer and no chain gets that user's question as history |
| `loop_live` | `AgentLoopLive.cfg` | handlers return and a shutdown completes, with a session that may time out |
| `webchat` | `WebChat.cfg` | two sockets, a sheltered and an unsheltered conversation, a restart: saved messages, answers and round counts survive time-outs, resumption and restart, and a resumed session knows what was answered; files hold one instant of a session |
| `index` | `SessionIndex.cfg` | one socket, time-outs, resumption, a restart in the middle of a save too, a directory and a vector service that fail: in the first run of the program every question is indexed with its own text, or about to be, or has lost its place to another one that is; a hit was asked where it says; `embeddings.json` holds the index when nobody is about to save it |
| `channels` | `Channels.cfg` | what is acknowledged is in exactly one place until it is handled, whatever fills up; everything is handled in the end, with one token for all and refreshes that fail; `Run` returns |
| `chain` | `ChatChain.cfg` | tokens in order and none lost, "complete" only when the model said so, success only with the work done, every request answered, the stream's goroutine always released |
| `smarthome` | `SmartHome.cfg` | refinement of `RuleLifecycle` through concurrent handlers, analyses, failures and a restart; habits and on-times are those of the events that happened; `Stop` completes and nothing runs after it |
| `vault` | `Vault.cfg` | quotes were on their page during the search; no index is so stale that a page is missed; `index.md` lists each ingested page once; one topic, one memory |
| `loop_rollover`, `loop_shutdown`, `webchat_reconnect` | see section 5 | disagreements of code and documents |

The types of the session manager and of the web chat are conjuncts of `LoopTypeOK`
and `IndexTypeOK`; the limit is a guard of the life cycle `manager` refines, and
`AtMostMaxSessions` states it of every state (`CapacityRespected`).

**Bounds.** `Keys` one or two; `MaxSessions = 1` wherever the limit matters, so
that two users compete for one slot; `MaxRounds` one or two, so that the limit is
met by the next question; `EndChCap = 1`, so that the second ended session meets
a full channel (the code's 50 differ only in how many sessions that takes). A
pool of two to five `Session` objects lets a key be replaced at least once, and
while the old session still waits, is sedimented, or is held by a handler.
`MsgBound` limits messages in one session. In `manager`, where any client may add
any message, every session starts with a history that used up its rounds and
`MsgBound = 2` leaves room for one more, an answer: one message is enough to change a
history that was given away, and new histories and questions are in `loop`. Elsewhere
it is more than the messages all questions together can cause, so it never binds.
`MaxCrashes` is 1 (0 in `webchat_reconnect`, which needs none): a restart leaves
nothing but the files, so a second one adds only other files to start from.
Sessions, sockets and question texts are interchangeable where a run declares
symmetry; runs of liveness declare none. Patient and impatient user, sheltered
and unsheltered conversation share one instance, because what one of them does
with the one slot and the one consumer is the environment of the other.

`index`: one conversation with its second `Session` object, three questions so that
after the first is saved the second is lost and the third takes its place in a session
resumed from the older file, two indexers so that the savers of both overlap, and the
indexers of both questions, in either order. The directory fails before the restart
(`PoorStore = {0}`), so that the second run starts from whatever that left, and is sound
after it, for `CacheIsIndex`; the vector service fails in the second run (`PoorService =
{1}`) and not in the first, for `QuestionsAreIndexed`. One socket, because that property
speaks of one and a second would make the state space too large; `HitsWereAsked` for
sockets that share a conversation rests on its theorem.

`channels`: three messages, one of a user who is not allowed and one delivered up
to twice (`Times`), through queues of one place, so that both fill up while the
fan-in goroutine holds a third; two goroutines and the automatic refresh compete for
the token. `chain`: answers of up to `MaxDeltas = 3` deltas through channels of one
place; two user messages per body and every hint, so that each branch of the router
and of the validation is taken. The state space (under 20,000) is the whole system
at these sizes. `smarthome`: `MaxInputs = 3` requests, analyses and further
collections together: enough for a confirmation, a second handler and an analysis
that publishes between their writes, and for three collections; one restart.
The history is three overlapping files of six ticks and two days (`DayLength = 2`,
`LookbackDays = 2`, `MinDays = 2`), with one device that has a habit and one that was
only turned on twice on one evening. `vault`: two pages and two contents, one cut
into two chunks of which a word is lost (`ChunkMinLen`), one not to be shown, so that
an edit changes a page's text, its chunks and its visibility; `MaxChanges = 2` edits,
ingestions and sedimentations together, because each hazard needs two of them (two
ingestions, two conversations, an edit under a search and back), one restart, and
`MaxResults = 1` so that an answer is full after one page. One searcher and the
start-up indexing share the dense index; a second searcher would only be a second
builder. Lengths are counted in words and the chunk constants scaled to match.

**Switches.** They say which environment a run is about, and only ever remove behaviours
of users, clock, disk and operating system, never of the code: `Patient` (the users who
wait for the reply, and whose sessions do not time out meanwhile), `MayIdle` (the
sessions that may time out), `OneTab` (the conversations open in one socket at a time)
and `SoundDisk` (the conversations whose file writes neither fail nor are cut short by
the end of the process), `PoorService` (the runs of the program, counted by the restarts
before, in which a call for a vector may fail or take longer than its 30 s) and
`PoorStore` (those in which the directory of the sessions may be unreadable or
`embeddings.json` not writable; a restart may cut that file short in any). With
`OneTab`, a socket whose browser left but whose handler still works counts as open. A
conversation in both is called sheltered. `loop` lets no session time out; time-outs
under handlers are in `loop_live` and, with clients that may do anything at any moment,
in `manager`, and the theorems about `AgentLoop` hold with them.

**Fairness.** Weak fairness for every goroutine that can run: the consumer
(each model call inside `Process` has an HTTP time-out), callers of `EndSession`
between its two halves, the scanner (its ticker never stops), the handlers (the
chain has a 300 s context, `core/agent.go:130`). Strong fairness for
`OverflowSend`, because blocked senders on a Go channel are queued first come
first served, and for `ConsumerExit`, because Go's select picks among ready
cases at random and so does not avoid the Done case for ever. No fairness for
users, time-outs or cancellation. The liveness properties end at cancellation
where the code stops serving by design.

In the later modules: strong fairness for taking a Go mutex that others take again
and again (`GetToken`, `BeginRefresh`, `SaveSnapshot`, `SaveHistory`, the daily
worker), because `sync.RWMutex` blocks new readers behind a waiting writer and hands
over after one millisecond; weak fairness for the calls made while it is held, which
all have HTTP time-outs (30 s to WeCom, the configured one to Home Assistant). In
`ChatChain` weak fairness for the executor, for `Cancel` (every handler sets a
time-out) and for `ScanBroken` once the stream's context is done (reading the body
of a cancelled request fails). Model, caller of the stream, WeCom and users are
promised nothing.

## 4. Proofs

`tlapm <module>.tla` checks each of the eight proof modules. What they prove holds for
all values of the constants that satisfy the named assumptions of the modules, which
TLC evaluates in the runs.

| Theorem | Says |
|---|---|
| `TypeCorrect`, `LoopTypeCorrect`, `ChainTypes`, `SmartHomeTypes`, `VaultTypes`, `WebTypeCorrect`, `IndexTypeCorrect` | every variable keeps its type |
| `OneActivePerKey` | an active session is the one mapped at its key |
| `NoEndedSessionLost` | until `Stop`, an ended session waits in exactly one place |
| `SedimentsWhole`, `LoopSedimentsWhole` | nothing is added to a sedimented history |
| `CapacityRespected` | at most `MaxSessions` active sessions |
| `Refinement` | `SessionManager` implements `SessionLifecycle` |
| `LoopImplementsManager` | `LoopSpec` implements `SessionManager`'s `Spec`: the handlers are clients the manager allows for, so all of the above holds of the agent |
| `AnswersBelong`, `QuestionsOnce`, `StoppedStaysQuiet` (`AgentLoopProofs`) | the run `loop`'s properties |
| `PatientAnswers`, `ContextLacksQuestion` | a user who waits for each reply finds every answer kept, and no chain of such a user is given its own question as history |
| `AckedMessagesAreKept` | an acknowledged delivery is in one place from callback to goroutine |
| `TokensComeInOrder`, `FinalIsComplete`, `OkMeansDone` | the run `chain`'s invariants |
| `RulesLiveTheirLife` | `SmartHome` implements `RuleLifecycle`, restarts included |
| `DecidedRulesAreReal`, `DecisionsAreReal` | the abstract life cycle's invariant, and by the refinement the same of the running system |
| `StoppedStaysQuiet` (`SmartHomeProofs`), `SuggestedHabitsAreTrue` | nothing runs after `Stop`; a suggested habit is one |
| `FindingsAreCorrect` | habits and on-times are those of the events that happened: the analyzer's sum over turn-ons is the number of ticks a device was on |
| `RoundsCounted`, `FilesAreInstants` | the round count is the number of questions; a readable file holds one instant of a session |
| `QuestionsFirst`, `SavedStays`, `DeliveredStays` | in a conversation open in one socket at a time: an answer follows its question; what was saved stays; what was delivered is saved, and known to whatever session of it is open |
| `IndexImplementsWebChat` | `IndexSpec` implements `WebSpec`: with the search index, all of the above holds of the web chat |
| `HitsAreQuestions`, `PlacesAreUnique`, `CacheIsSaved`, `QuestionsAreFound` | the properties of `index`, and that a place is indexed once |
| `IngestedPagesAreListed`, `MemoriesAreDistinct` | the vault's files under concurrent writers and restarts |
| `ServedTextsWereCurrent`, `MatchingPagesAreServed` | what a search quotes, and what it must find |

**Assumptions.** Those on sessions are types, that `None` is no session, that histories
read back are histories and that the agent's own sessions start empty;
`PatientAssumption` says that the sessions of a user who waits do not time out.
`ChannelAssumption` and `VaultAssumption` are types and disjointness of the kinds of
processes. `ChainAssumption` says that bounds and capacities are positive.
`SmartAssumption` adds that what the analyzer can suggest is a rule, and
`AnalysisAssumption` that the history is finite, that its files hold finitely many
entries at integer times, and that the window one of the 1 to 366 days `TriggerAnalysis`
accepts (`smarthome/manager.go:155`); `DraftAssumption` only separates `None` from the
content of a file, as `FileAssumption` and `CacheAssumption` do. `WebAssumption` says
that `MaxRounds` is positive, since `config.go:141` takes 0 for 20: with 0, a new
conversation would refuse the question it was opened for, and `AskAgain` ignores that.

**Session manager.** None of the properties is inductive alone. That a session
is never in two places (`EndedInOnePlace`) needs that whatever waits has left
`active` (`EndedInv`), else `MarkEnding` could put it there again; that
`ActiveIsCurrent` survives `Unmap` needs that what the consumer unmaps is closed;
that a replaced session is not active needs `MappedByKey`; that a sedimented
history is final needs that its session has ended, which `AddMessage` checks.
`SafetyInv` is their conjunction. `CountIsExact` shows that the map entries
`activeCountLocked` counts are as many as the active sessions (a bijection given
by `ActiveIsCurrent`), from which the limit follows as an invariant. The proof
of `Refinement` maps every step to a life-cycle step or a stutter with `SafetyInv`
and `CapacityInv` at hand.

**Agent.** `LoopInv` adds that a handler holds an allocated session
(`HandlersHold`), that its question stands nowhere before it is recorded
(`NotAskedYet`) and stands in the session it holds afterwards (`QuestionStands`),
and that `Stop` comes after the last handler (`StoppedInv`). Each part is proved
over the steps of the handlers, with frame lemmas for the background's steps,
which touch no history. `PatientInv` follows the messages of the users who wait. Of
such a user one handler is under way at a time (`InTurn`), so nobody else holds its
session (`NobodyElseHolds`, from `OwnKey`): no handler ends or extends it, and the scanner
only ends what is idle (`IdleInv`, with `EndedInv` for the consumer). From the question
to the answer the session is therefore active (`PatientHeld`), which is why the answer is
accepted (`AnswerStands`; histories only grow, `MessagesGrow`), and the question is
its last message until it is cloned (`PatientAsked`), which with
`QuestionRecordedOnce` keeps it out of the context.

**Web chat.** `Effect` sums up what any step does to the sessions: it opens one, adds to
one, or ends some. Histories therefore only grow (`Growing`), a clone stays a prefix of
the session it was taken of (`SnapshotIsOneInstant`), and a file of some session of its
conversation. `OneSocket` keeps a conversation of `OneTab` to one socket and the session
mapped at its key to the one that socket works on (`Alone`), because a new id is one
nobody has and no file belongs to (`Issuing`). `Answers` follows a question: nobody else
asks it (`Distinct`), the session that is to take the answer has it or takes no more
(`Recorded`, `Unasked`), and nobody has answered it before (`Unanswered`,
`Undelivered`). `Saved` then says of the file (`OnDisk`), the session a resumption would
take, the session of the socket (`InSession`) and the clone it writes (`InSnapshot`)
that each lacks nothing a file once had and no answer that was sent (`Safe`), and that
the answer about to be sent is in each place it has reached (`Answered`). A file is torn
exactly while its writer is between the two halves of a write, so nothing is resumed
from it meanwhile.

**Search index.** A step of `SessionIndex` is one of `WebChat` or leaves its variables
alone (`IndexStep`), so `WebInv` is at hand throughout. `JobsHold` says what a goroutine
carries: an indexer one question, a saver between `RLock` and `RUnlock` the index as
it is, and before the program serves nobody anything. From the second follows
`CacheIsIndex`, whoever wrote last, and from the first that a new entry replaces the
one at its place (`PlacesOnce`, which needs the saved index too, since a restart may
load it). `Traceable` says of the index, its file and the indexers that each text was
asked where they say; it stays true because histories only grow, and holds of a rebuild
because a file is a prefix of some session (`FileIsOneInstant`). `AllIndexed` follows a
question from the handler that is about to clone the session to the goroutine to the
index (`SpawnCovers`, `JobCovers`). That it is still the last message when the handler
clones is `NobodyElseAdds`: the conversation is in no other socket. A session that is
resumed has only messages of an earlier one (`HistorySteps`), whose places are covered
already. All this is of places (`PlaceCovered`, `PlacesCovered`). The text comes last, in
`PlaceToQuestion`: what stands at a question's place, or is on its way there, was asked
there (`Traceable`), so it is that question or one of its rivals, which is the
exception `QuestionsAreIndexed` names. A restart ends what the property speaks of;
section 5 says why.

**Channels.** `Places` counts a delivery in both queues, so the proof rests on two
lemmas about that count under `Append` and `Tail`, shown by a bijection of positions.
`Pipeline` is the types, with the fact that the fan-in goroutine holds nothing once
it has ended.

**Chain.** `Inv` follows a delta on its whole way. `Flow` says that what the reader
accumulated is what the executor has got plus what is in the channel plus what the
reader holds, each chunk carrying the next number (`Numbered`, `Holding`), and that a
last chunk is the last of the channel of a reader that sends no more. `Caller` says
that the caller was sent the deltas the executor has got, but for the one it is
sending (`OnlyTexts`, `Emitting`). `Route` keeps a request on its chain: with
`ChainFacts`, that an answer is the last step of its chain, it shows that a stream is
begun once per request (`Beginning`), without which a second one could repeat deltas.
`Ingestion` says how much of the work is done at each step.

**Smart home.** `RuleInv` says that only the holder of `actionMu` is under way
(`OneHandler`), that how far it is tells what its rule has been through
(`RuleUnderWay`), and that a draft was made of the file as it is (`DraftIsFresh`), which
is what makes the two halves of a write one step of the life cycle. A restart takes the
handlers' places and leaves file, installation and documents, so it is a stutter; the
rule it interrupts stays "applying". `HabitInv` carries a finding from the analysis to
the file: the days an analysis counts are an image of days on which the event happened,
whatever is repeated or missing in the files (`SuggestedHabits`). On-times need an
argument about a sum. The intervals from a turn-on to the next turn-off are disjoint,
and together they are the ticks at which the device was on (`Covered`); one interval
more adds as many ticks as it has, so the sum is their number (`OnePartMore`,
`SumIsCount`). The sum is a fold over a finite set, so the induction is on finite sets,
written as a least counterexample: a smallest set for which the sum is wrong has an
element to take away (`LeastSubset`).

**Vault.** `Searching` says of every search at once: what a page holds is among what
the search has seen of it (`Seeing`), what is indexed was cut from such a content
(`Indexing`, `Ranking`), a page that must be served is found, then to be read, then
in the answer (`Finding`), and what is quoted qualifies (`Quoting`). A step of an editor
only adds to what is seen, so the parts survive it; a step of one search leaves the
others alone (`SearchersApart`). `Writers` says that who is about to append to
`index.md` holds its mutex and has its present content, `Rememberers` that who is about
to write a memory holds that mutex and that no memory says the same.

TLC checked the parts of these invariants on the small instances before they were
proved.

*Only model-checked:* the liveness properties, which need fairness and ENABLED. Every
invariant of a passing run is stated by a theorem.

## 5. What the checks found

The first three are runs that TLC ends with a counterexample, and findings in
`PROJECT.json`.

- `loop_rollover`: a user who sends two questions without waiting can lose the
  answer of the last permitted round: the second handler ends the session
  (`core/agent.go:105`) under the first. `core/session.go:223` says that answer
  must be kept.
- `loop_shutdown`: sessions that wait in `endCh` at shutdown are dropped
  (`core/agent.go:184`); `core/session.go:247-248` says that they are processed.
- `webchat_reconnect`: the goroutine of a dropped socket goes on with its answer.
  When the browser is back and asks again, the two write the same file with no
  lock, and the older clone may be the last (`core/session_store.go:165`).

Met while modelling, without a run of their own: one goroutine per message
(`channel/manager.go:135`), so a history may not be in the order of sending that
`core/session.go:41` names. A message that arrives between the scanner's reading of the
last activity and its `EndSession` does not save the session
(`core/session.go:325-335`). Session files are written in place, so a process that ends,
or a disk that fails, between truncation and write leaves a conversation that cannot be
read back (`core/session_store.go:165`). At the session limit the web chat takes a new
id without a session and every later message on that socket is refused
(`gateway/websocket.go:173-177`), and the main loop's first lookup drops the message
without a reply (`core/agent.go:94`). A chain that outlives the session's idle time-out
answers the browser with a text no history holds, since the result of `AddMessage` is
ignored (`gateway/websocket.go:242`); by default a chain has 300 s and a session 30 min.
With two handlers of one user, the last message of the clone may be the other's question
(`core/agent.go:126`), and a handler's own question is given to its chain twice;
`QuestionAskedOnce` speaks of users who wait for their answer.

In the search index, without a run: `handleChat` hands the indexer the last message
of a clone it takes after `AddMessage` (`gateway/websocket.go:189-191`). When another
socket of the conversation added a question in between, both hand over that one, and
the first is not found by any search, while `core/session_store.go:172` asks for a call
after each; with an answer in between, nothing is handed over. `Initialize` takes any
`embeddings.json` that is whole and not empty for the index
(`core/session_store.go:131`), so a question whose indexer ended with the process stays
out of the search although the session's file has it; `core/session_store.go:96` says
that the index is rebuilt from those. `QuestionsAreIndexed` therefore speaks of
conversations open in one socket and of the first run. It has one more exception. A
question whose chain failed was never saved; when its session times out and the
conversation is resumed from the file, the next question gets the same place.
`IndexMessage` knows an entry by its place (`core/session_store.go:198-208`), so the one
indexed last replaces the other. Usually the lost question leaves the index; but when its
indexer is the slower one, TLC finds, the index keeps it and no search finds the question
the file has. The property says that one of the questions of a place is kept, with its
own text.

In the channels, without a run: a message is handled once per delivery, and nothing
compares message ids when WeCom delivers it again after a late acknowledgement; what
waits in the two queues at shutdown was acknowledged and is lost. `AckedIsKept` speaks
of deliveries, and so of neither. `AutoRefresh` renews only a token that has already
expired, because `refresh` checks again behind the mutex (`wecom/auth.go`).

In the chains: no handler sets `Stream`, so the streaming half of the answer step
has no user yet. The executor does not count switches, although
`chain/executor.go:47` allows one; the registered chains see to it
(`ChainTypeOK`). An ingestion whose model had no output answers "ok" with nothing
written, its message overwritten by `ingest-finalize` (`chain/chains.go:76-89`);
`OkIsDone` speaks of ingestions with output.

In the smart home: suggestions the analyzer makes itself carry no automation, so
they can be ignored and never confirmed. Repeated entries of overlapping
collections count as several events in a correlation's rate
(`smarthome/analyzer.go:231`), though not in a habit's days. If "failed" cannot be
written after a failed execution the suggestion stays "applying", which can be
confirmed again. A failed history call loses its interval: the next asks for its
own. Snapshots and history files are written in place.

In the vault: a page that changes between its hash and its chunks
(`vault/embedding.go:117-179`) and then changes back leaves chunks that match no
version the store compares, until the next change; `ServedWasCurrent` names this
exception. A ranked chunk is quoted after the visibility of the page as it is now
was checked (`chain/go_steps.go:117`). A section of under 100 characters at the end
of a long page is in no chunk. Two fallback summaries share their standard words,
so that one may be taken for a repetition of the other
(`memory/sedimentation.go:262`). A write of a memory that fails half way leaves its
part behind.

Every property of a passing run was also checked against a variant of the code
it must refuse; the variants stand in the modules beside the definition they
change ("A variant of ...") and are part of no specification.

## 6. Not modelled

- *Chains without a handler* (summarize, synthesize, cross-link), `BranchingChain`,
  and the steps only they use.
- *Streaming to a browser*: the token channel has no reader in the gateway.
- *Filters*: one rewriting of a text by regular expressions after the other.
- *Scores*: BM25, cosine similarity, rank fusion and the analyzer's statistics and
  anomalies are floating point. The models allow every order of equal rank, and every order where
  the code's depends on scores only.
- *The second vault*, `AppendLog`, the status reports, `vault/vector.go` (used by its
  test only), the trigger entities the decide step extracts from the vault.
- *Cryptography, HTTP, JSON, prompts, configuration*: pure computation or I/O
  without control of interest. A call is the set of its outcomes.
- *The inference service, the browser widget, the tools under `go-agent/tools`*:
  outside the process, or no part of it.
- *Wall-clock time*: only its order with the events that depend on it.
- *Reads of unlocked fields in log calls* (`EndSession` logs the round count after
  the unlock): without effect on the state.
- *Owners*: `BrowserSession` compares owners; the model has one.

## 7. Plan

The models cover the parts of the process that keep state. What is left to do:

| Step | Modules | Question |
|---|---|---|
| 1 | `Vault` | both vaults in one search, the order in which their results are merged |
| 2 | `SessionIndex` | which questions of a conversation shared by sockets are indexed, and which are after a restart |
