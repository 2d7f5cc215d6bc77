------------------------------- MODULE ChatChain -------------------------------
(***************************************************************************)
(* One request through the chain executor (go-agent/internal/chain), from  *)
(* the HTTP handler that starts it to its response, with the goroutine of  *)
(* the inference client that reads the model's event stream and the caller *)
(* that reads the tokens.  Requests share nothing here, so they come one   *)
(* after the other.  Texts are abstracted to how many deltas of the        *)
(* model's output they hold: the k-th delta is the number k.               *)
(***************************************************************************)
EXTENDS Naturals, Sequences, SequencesExt

CONSTANTS
  None,
  MaxDeltas,   \* bound: deltas the model sends in one answer
  MaxSources,  \* maxResults of VaultSearchStep
  ChunkCap,    \* capacity of the channel from readSSE, 20 in the code
  StreamCap    \* capacity of the caller's token channel, 50 in the usage note

ASSUME ChainAssumption ==
  /\ MaxDeltas \in Nat \ {0} /\ MaxSources \in Nat
  /\ ChunkCap \in Nat \ {0} /\ StreamCap \in Nat \ {0}
  /\ None # "ok" \* no answer yet is not a good one

VARIABLES
  req,      \* the request in flight, or None
  chain,    \* the chain runChain executes
  step,     \* the index of its next step
  pc,       \* where the request's goroutine is
  ctx,      \* the request's context: "live" or "done"
  state,    \* the part of ChainState the steps read and write
  switches, \* how often the executor changed chains for this request
  outcome,  \* what the handler answered, or None
  reader,   \* where readSSE is
  held,     \* the chunk readSSE is sending, and where it goes next
  sent,     \* deltas readSSE has accumulated
  over,     \* whether the model has said its answer is over
  chunks,   \* the channel from readSSE
  got,      \* deltas runStreaming has accumulated
  emitting, \* the token runStreaming is sending, and what follows it
  tokens,   \* every token written to state.Stream, in order
  unread    \* how many of them the caller has not read

streamVars == <<reader, held, sent, over, chunks, got, emitting, tokens, unread>>
chainVars == <<req, chain, step, pc, ctx, state, switches, outcome>>
vars == <<chainVars, streamVars>>

-----------------------------------------------------------------------------
(* Requests and chains.                                                     *)

\* The chains BuildAllChains registers and some handler runs.
Chains ==
  [chat   |-> <<"decide", "search", "preprocess", "assemble", "answer">>,
   direct |-> <<"simple-answer">>,
   rag    |-> <<"search", "preprocess", "assemble", "answer">>,
   ingest |-> <<"distill", "write", "index", "finalize">>]

\* ModelRouter.Decide: only an unqualified "cloud" hint leaves the machine.
Decide(hint, image, sensitive, skill) ==
  CASE hint = "named" -> "named"
    [] hint = "cloud" /\ ~sensitive /\ ~skill -> "cloud"
    [] hint = "cloud" /\ (sensitive \/ skill) -> "default"
    [] hint = "auto" /\ image -> "vision"
    [] OTHER -> "default"

\* parseChatRequest and extractQuery: a body is the kinds of its user contents;
\* the last user message is the query, and without text in it a placeholder.
Parses(body) == body # <<>> /\ \E i \in DOMAIN body : body[i] # "blank"
Query(body) == IF Last(body) = "blank" THEN "image" ELSE Last(body)

Contents == {"entity", "other", "image", "blank"}
Bodies == SeqOf(Contents, 2)

WebChatRequest == [via : {"webchat"}, query : {"entity", "other"}]
RestRequest ==
  [via : {"rest"}, body : Bodies, hint : {"named", "cloud", "auto"},
   sensitive : BOOLEAN, skill : BOOLEAN]
IngestRequest == [via : {"ingest"}]
\* A caller of the package that sets Stream and StreamMode; streamer says
\* whether its client has ChatStream.
StreamRequest ==
  [via : {"stream"}, query : {"entity", "other"}, streamer : BOOLEAN]
Requests == WebChatRequest \cup RestRequest \cup IngestRequest \cup StreamRequest

NewState == [query |-> None, decision |-> None, sources |-> 0, prompt |-> FALSE,
             wiki |-> 0, written |-> FALSE, indexed |-> FALSE, answer |-> 0]

StreamIdle ==
  /\ reader = "off" /\ held = None /\ sent = 0 /\ over = FALSE /\ chunks = <<>>
  /\ got = 0 /\ emitting = None /\ tokens = <<>> /\ unread = 0

Init ==
  /\ req = None /\ chain = None /\ step = 1 /\ pc = "idle" /\ ctx = "live"
  /\ state = NewState /\ switches = 0 /\ outcome = None
  /\ StreamIdle

\* The handler's answer; the request's goroutine is done.
Answer(o) == outcome' = o /\ pc' = "answered"

Enter(name, query) ==
  /\ chain' = name /\ step' = 1 /\ pc' = "step"
  /\ state' = [state EXCEPT !.query = query]
  /\ UNCHANGED outcome

-----------------------------------------------------------------------------
(* The handlers, up to ChainExecutor.Run.                                   *)

BeginRest(r) ==
  /\ r \in RestRequest
  /\ req' = r
  /\ LET model == Decide(r.hint, \E i \in DOMAIN r.body : r.body[i] = "image",
                         r.sensitive, r.skill)
     IN \/ ~Parses(r.body) /\ Answer("bad request") /\ UNCHANGED <<chain, step, state>>
        \/ /\ Parses(r.body) /\ model = "cloud"
           /\ Answer("no cloud") /\ UNCHANGED <<chain, step, state>>
        \/ /\ Parses(r.body) /\ model # "cloud"
           /\ Enter(IF r.skill THEN "rag" ELSE "chat", Query(r.body))

BeginOther(r) ==
  /\ r \notin RestRequest
  /\ req' = r
  /\ IF r.via = "ingest" THEN Enter("ingest", "other") ELSE Enter("chat", r.query)

Begin ==
  /\ pc = "idle"
  /\ \E r \in Requests : BeginRest(r) \/ BeginOther(r)
  /\ UNCHANGED <<ctx, switches, streamVars>>

\* The caller goes away, or the handler's timeout expires.
Cancel ==
  /\ pc \notin {"idle", "answered"}
  /\ ctx' = "done"
  /\ ctx # "done"
  /\ UNCHANGED <<req, chain, step, pc, state, switches, outcome, streamVars>>

-----------------------------------------------------------------------------
(* runChain: the context is checked before every step.                      *)

At(name) == pc = "run" /\ Chains[chain][step] = name
Streaming == req.via = "stream"

Fail == pc' = "failed" /\ UNCHANGED <<step, state>>
Proceed == pc' = "step" /\ step' = step + 1

StartStep ==
  /\ pc = "step"
  /\ step <= Len(Chains[chain])
  /\ pc' = IF ctx = "done" THEN "failed" ELSE "run"
  /\ UNCHANGED <<req, chain, step, ctx, state, switches, outcome, streamVars>>

EndChain ==
  /\ pc = "step"
  /\ step > Len(Chains[chain])
  /\ pc' = "succeeded"
  /\ UNCHANGED <<req, chain, step, ctx, state, switches, outcome, streamVars>>

\* EntityTriggerDecideStep, Run and Decide: without an entity in the query the
\* executor switches to the direct chain, from its first step.
DecideStep ==
  /\ At("decide")
  /\ \/ /\ state.query = "entity"
        /\ state' = [state EXCEPT !.decision = "search"]
        /\ Proceed /\ UNCHANGED <<chain, switches>>
     \/ /\ state.query # "entity"
        /\ state' = [state EXCEPT !.decision = "direct"]
        /\ chain' = "direct" /\ step' = 1 /\ pc' = "step"
        /\ switches' = switches + 1
  /\ UNCHANGED <<req, ctx, outcome, streamVars>>

\* VaultSearchStep: any number of sources, an error when no index answers.
SearchStep ==
  /\ At("search")
  /\ \/ Fail
     \/ \E n \in 0 .. MaxSources : state' = [state EXCEPT !.sources = n] /\ Proceed
  /\ UNCHANGED <<req, chain, ctx, switches, outcome, streamVars>>

\* PagePreprocessStep only rewrites the bodies of the sources.
PreprocessStep ==
  /\ At("preprocess")
  /\ Proceed
  /\ UNCHANGED <<req, chain, ctx, state, switches, outcome, streamVars>>

AssembleStep ==
  /\ At("assemble")
  /\ state' = [state EXCEPT !.prompt = state.sources > 0]
  /\ Proceed
  /\ UNCHANGED <<req, chain, ctx, switches, outcome, streamVars>>

-----------------------------------------------------------------------------
(* The model, buffered.                                                     *)

AtAnswer == At("answer") \/ At("simple-answer")

\* runBuffered: the whole answer, possibly empty, or an error.
AnswerBuffered ==
  /\ AtAnswer /\ ~Streaming
  /\ \/ Fail
     \/ \E n \in 0 .. MaxDeltas : state' = [state EXCEPT !.answer = n] /\ Proceed
  /\ UNCHANGED <<req, chain, ctx, switches, outcome, streamVars>>

Token(kind, text) == [kind |-> kind, text |-> text]

\* runStreaming with a client that cannot stream: one token with the answer.
AnswerFallback ==
  /\ AtAnswer /\ Streaming /\ ~req.streamer
  /\ \/ Fail /\ UNCHANGED emitting
     \/ \E n \in 0 .. MaxDeltas :
          /\ state' = [state EXCEPT !.answer = n]
          /\ emitting' = [token |-> Token("done", n), then |-> "return"]
          /\ pc' = "emit"
          /\ UNCHANGED step
  /\ UNCHANGED <<req, chain, ctx, switches, outcome, reader, held, sent, over,
                 chunks, got, tokens, unread>>

\* LLMIngestStep, VaultWriteStep, IndexUpdateStep and ingest-finalize.
DistillStep ==
  /\ At("distill")
  /\ \/ Fail
     \/ \E n \in 0 .. 1 : state' = [state EXCEPT !.wiki = n] /\ Proceed
  /\ UNCHANGED <<req, chain, ctx, switches, outcome, streamVars>>

\* Without output the step leaves a message as the answer and writes nothing.
WriteStep ==
  /\ At("write")
  /\ \/ state.wiki > 0 /\ Fail
     \/ state.wiki > 0 /\ state' = [state EXCEPT !.written = TRUE] /\ Proceed
     \/ state.wiki = 0 /\ state' = [state EXCEPT !.answer = 1] /\ Proceed
  /\ UNCHANGED <<req, chain, ctx, switches, outcome, streamVars>>

\* A variant of IndexStep: a page that cannot be indexed is only logged.
IndexStepLogging ==
  /\ At("index")
  /\ \/ Proceed /\ UNCHANGED state
     \/ state.written /\ state' = [state EXCEPT !.indexed = TRUE] /\ Proceed
  /\ UNCHANGED <<req, chain, ctx, switches, outcome, streamVars>>

IndexStep ==
  /\ At("index")
  /\ \/ state.written /\ Fail
     \/ state.written /\ state' = [state EXCEPT !.indexed = TRUE] /\ Proceed
     \/ ~state.written /\ UNCHANGED state /\ Proceed
  /\ UNCHANGED <<req, chain, ctx, switches, outcome, streamVars>>

\* The answer is replaced either way: by the confirmation, or by the output.
FinalizeStep ==
  /\ At("finalize")
  /\ state' = [state EXCEPT !.answer = IF state.written THEN 1 ELSE state.wiki]
  /\ Proceed
  /\ UNCHANGED <<req, chain, ctx, switches, outcome, streamVars>>

-----------------------------------------------------------------------------
(* The model, streaming: ChatStream and its goroutine readSSE.              *)

\* runStreaming derives a context it cancels when it returns.
StreamDone == ctx = "done" \/ pc \notin {"relay", "emit"}

StartStream ==
  /\ AtAnswer /\ Streaming /\ req.streamer
  /\ \/ Fail /\ UNCHANGED <<reader, emitting>>
     \/ /\ reader' = "scan"
        /\ UNCHANGED <<step, state>>
        /\ IF state.sources > 0
           THEN /\ emitting' = [token |-> Token("sources", state.sources), then |-> "relay"]
                /\ pc' = "emit"
           ELSE pc' = "relay" /\ UNCHANGED emitting
  /\ UNCHANGED <<req, chain, ctx, switches, outcome, held, sent, over, chunks,
                 got, tokens, unread>>

Hold(chunk, next) == held' = [chunk |-> chunk, next |-> next] /\ reader' = "send"

\* An event with a delta, and perhaps the finish reason.
ScanDelta ==
  /\ reader = "scan" /\ sent < MaxDeltas
  /\ sent' = sent + 1
  /\ \E next \in {"scan", "complete"} :
       Hold(Token("text", sent + 1), next) /\ over' = (next = "complete")
  /\ UNCHANGED <<chainVars, chunks, got, emitting, tokens, unread>>

\* "[DONE]" or a finish reason of its own.
ScanComplete ==
  /\ reader = "scan"
  /\ reader' = "complete" /\ over' = TRUE
  /\ UNCHANGED <<chainVars, held, sent, chunks, got, emitting, tokens, unread>>

\* A variant of ScanBroken: the end of the body counts as the end of the answer.
ScanBrokenAsDone ==
  /\ reader = "scan"
  /\ Hold(Token("done", sent), "close")
  /\ UNCHANGED <<chainVars, sent, over, chunks, got, emitting, tokens, unread>>

\* An event that is no JSON, an error event, a read error or the end of the body.
ScanBroken ==
  /\ reader = "scan"
  /\ Hold(Token("error", 0), "close")
  /\ UNCHANGED <<chainVars, sent, over, chunks, got, emitting, tokens, unread>>

FinishScan ==
  /\ reader = "complete"
  /\ Hold(Token("done", sent), "close")
  /\ UNCHANGED <<chainVars, sent, over, chunks, got, emitting, tokens, unread>>

\* A variant of Send: a chunk that finds the channel full is dropped.
SendDropping ==
  /\ reader = "send"
  /\ chunks' = IF Len(chunks) < ChunkCap THEN Append(chunks, held.chunk) ELSE chunks
  /\ reader' = held.next /\ held' = None
  /\ UNCHANGED <<chainVars, sent, over, got, emitting, tokens, unread>>

\* A variant of Send: the chunks are queued without a limit.
SendUnbounded ==
  /\ reader = "send"
  /\ chunks' = Append(chunks, held.chunk)
  /\ reader' = held.next /\ held' = None
  /\ UNCHANGED <<chainVars, sent, over, got, emitting, tokens, unread>>

\* send waits for room in the channel, or for the stream's context.
Send ==
  /\ reader = "send"
  /\ Len(chunks) < ChunkCap
  /\ chunks' = Append(chunks, held.chunk)
  /\ reader' = held.next /\ held' = None
  /\ UNCHANGED <<chainVars, sent, over, got, emitting, tokens, unread>>

\* A variant of Abandon: nobody is told that the caller is gone.
AbandonNever == FALSE /\ UNCHANGED vars

Abandon ==
  /\ reader = "send" /\ StreamDone
  /\ reader' = "close" /\ held' = None
  /\ UNCHANGED <<chainVars, sent, over, chunks, got, emitting, tokens, unread>>

ReadSSE ==
  ScanDelta \/ ScanComplete \/ ScanBroken \/ FinishScan \/ Send \/ Abandon

-----------------------------------------------------------------------------
(* runStreaming: from chunks to tokens.                                     *)

Emit(token, then) == emitting' = [token |-> token, then |-> then] /\ pc' = "emit"

\* A chunk carries text, the whole answer, or an error.
Relay ==
  /\ pc = "relay" /\ chunks # <<>>
  /\ chunks' = Tail(chunks)
  /\ LET c == Head(chunks) IN
     \/ /\ c.kind = "text"
        /\ got' = got + 1
        /\ Emit(c, "relay")
        /\ UNCHANGED state
     \/ /\ c.kind = "done"
        /\ got' = IF c.text > 0 THEN c.text ELSE got
        /\ state' = [state EXCEPT !.answer = got']
        /\ Emit(Token("done", got'), "return")
     \/ /\ c.kind = "error"
        /\ state' = [state EXCEPT !.answer = got]
        /\ Emit(c, "fail")
        /\ UNCHANGED got
  /\ UNCHANGED <<req, chain, step, ctx, switches, outcome, reader, held, sent,
                 over, tokens, unread>>

\* The channel was closed before a last chunk, or the context is done.
RelayBroken ==
  /\ pc = "relay"
  /\ (chunks = <<>> /\ reader = "close") \/ ctx = "done"
  /\ pc' = "failed"
  /\ UNCHANGED <<req, chain, step, ctx, state, switches, outcome, streamVars>>

AfterEmit ==
  CASE emitting.then = "relay" -> pc' = "relay" /\ UNCHANGED step
    [] emitting.then = "return" -> Proceed
    [] OTHER -> pc' = "failed" /\ UNCHANGED step

EmitToken ==
  /\ pc = "emit" /\ unread < StreamCap
  /\ tokens' = Append(tokens, emitting.token)
  /\ unread' = unread + 1
  /\ AfterEmit
  /\ emitting' = None
  /\ UNCHANGED <<req, chain, ctx, state, switches, outcome, reader, held, sent,
                 over, chunks, got>>

\* A variant of EmitCancelled: the token is sent whoever has left.
EmitStubborn == FALSE /\ UNCHANGED vars

EmitCancelled ==
  /\ pc = "emit" /\ ctx = "done"
  /\ pc' = "failed"
  /\ emitting' = None
  /\ UNCHANGED <<req, chain, step, ctx, state, switches, outcome, reader, held,
                 sent, over, chunks, got, tokens, unread>>

\* The caller takes a token, or takes none for as long as it likes.
ReadToken ==
  /\ unread > 0
  /\ unread' = unread - 1
  /\ UNCHANGED <<chainVars, reader, held, sent, over, chunks, got, emitting, tokens>>

-----------------------------------------------------------------------------
(* The handlers, from ChainExecutor.Run on.                                 *)

Respond ==
  /\ pc \in {"failed", "succeeded"}
  /\ Answer(CASE pc = "failed" -> "failed"
              [] pc = "succeeded" /\ req.via = "ingest" -> "ok"
              [] pc = "succeeded" /\ req.via # "ingest" /\ state.answer = 0 -> "empty"
              [] OTHER -> "ok")
  /\ UNCHANGED <<req, chain, step, ctx, state, switches, streamVars>>

\* The next request, once the stream's goroutine has ended.
Finish ==
  /\ pc = "answered" /\ reader \in {"off", "close"}
  /\ req' = None /\ chain' = None /\ step' = 1 /\ pc' = "idle" /\ ctx' = "live"
  /\ state' = NewState /\ switches' = 0 /\ outcome' = None
  /\ reader' = "off" /\ held' = None /\ sent' = 0 /\ over' = FALSE /\ chunks' = <<>>
  /\ got' = 0 /\ emitting' = None /\ tokens' = <<>> /\ unread' = 0

Executor ==
  \/ StartStep \/ EndChain \/ DecideStep \/ SearchStep \/ PreprocessStep
  \/ AssembleStep \/ AnswerBuffered \/ AnswerFallback \/ DistillStep \/ WriteStep
  \/ IndexStep \/ FinalizeStep \/ StartStream \/ Relay \/ RelayBroken
  \/ EmitToken \/ EmitCancelled \/ Respond

Next == Begin \/ Cancel \/ Executor \/ ReadSSE \/ ReadToken \/ Finish

Spec == Init /\ [][Next]_vars

\* The two goroutines run when they can; every handler has a timeout; a body
\* whose request is cancelled fails to be read.  The caller and the model are
\* promised nothing.
LiveSpec ==
  /\ Spec
  /\ WF_vars(Executor)
  /\ WF_vars(Cancel)
  /\ WF_vars(StreamDone /\ ScanBroken)
  /\ WF_vars(FinishScan \/ Send \/ Abandon)

-----------------------------------------------------------------------------
(* Properties.                                                              *)

\* The type of every variable. A request changes chains "at most once"
\* (executor.go:47): runChain does not count, the registered chains see to it.
ChainTypeOK ==
  /\ req \in Requests \cup {None}
  /\ chain \in DOMAIN Chains \cup {None}
  /\ chain # None => step \in 1 .. Len(Chains[chain]) + 1
  /\ pc \in {"idle", "step", "run", "relay", "emit", "failed", "succeeded", "answered"}
  /\ ctx \in {"live", "done"}
  /\ state.sources \in 0 .. MaxSources /\ state.answer \in 0 .. MaxDeltas
  /\ switches \in 0 .. 1
  /\ outcome \in {None, "bad request", "no cloud", "failed", "empty", "ok"}
  /\ reader \in {"off", "scan", "complete", "send", "close"}
  /\ over \in BOOLEAN /\ sent \in 0 .. MaxDeltas /\ got \in 0 .. MaxDeltas
  /\ Len(chunks) <= ChunkCap /\ unread <= StreamCap

\* Whether the first token holds the sources: how far it shifts the deltas.
Lead == IF tokens # <<>> /\ tokens[1].kind = "sources" THEN 1 ELSE 0

\* The caller of a stream sees the sources first if at all, then the deltas of
\* the model with none lost, repeated or out of order however slowly it reads,
\* then at most one last token (types.go:155, client.go:92, llm_steps.go:145).
TokensInOrder ==
  \A i \in DOMAIN tokens :
    /\ tokens[i].kind = "sources" => i = 1
    /\ tokens[i].kind = "text" => tokens[i].text = i - Lead
    /\ tokens[i].kind \in {"done", "error"} => i = Len(tokens)

\* An answer is final only when the model ended it: after an interruption, a
\* broken event or a cancellation no token and no outcome says it is complete,
\* and what is final is all the model said, as the caller has seen it
\* (client.go:159, llm_steps.go:119).
CompleteIsComplete ==
  \A i \in DOMAIN tokens : tokens[i].kind = "done" /\ req.streamer =>
    /\ over /\ tokens[i].text = sent
    /\ i = Lead + sent + 1
    /\ state.answer = sent

\* A request is told it succeeded only with an answer of the model, or, for an
\* ingest with output, with its page written and in the index.
OkIsDone ==
  outcome = "ok" =>
    IF req.via = "ingest" THEN state.wiki > 0 => state.written /\ state.indexed
    ELSE state.answer > 0

\* The goroutine that reads the event stream ends although nobody promises to
\* read its channel until it closes (client.go:41): the context runStreaming
\* derives is what releases it (llm_steps.go:79).
ReaderEnds == reader \in {"scan", "complete", "send"} ~> reader \in {"close", "off"}

\* Every request is answered, whatever the model and the caller do.
RequestAnswered == pc \notin {"idle", "answered"} ~> outcome # None

===============================================================================
