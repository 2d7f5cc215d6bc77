---------------------------- MODULE ChatChainProofs ----------------------------
(***************************************************************************)
(* Theorems about ChatChain, for answers of every length and channels of   *)
(* every capacity.                                                         *)
(***************************************************************************)
EXTENDS ChatChain, TLAPS

USE ChainAssumption

-----------------------------------------------------------------------------
(* The chains.                                                              *)

\* Where the steps that matter stand in their chains.
LEMMA ChainFacts ==
  ASSUME NEW c \in DOMAIN Chains, NEW n \in 1 .. Len(Chains[c])
  PROVE  /\ Len(Chains[c]) \in Nat \ {0}
         /\ Chains[c][n] \in {"answer", "simple-answer"} => n = Len(Chains[c]) /\ c # "ingest"
         /\ Chains[c][n] = "decide" => c = "chat"
         /\ Chains[c][n] = "distill" => c = "ingest" /\ n = 1
         /\ Chains[c][n] = "write" => c = "ingest" /\ n = 2
         /\ Chains[c][n] = "index" => c = "ingest" /\ n = 3
         /\ Chains[c][n] = "finalize" => c = "ingest" /\ n = 4
         /\ c = "ingest" => n \in 1 .. 4 /\ Len(Chains[c]) = 4
<1>1. CASE c = "chat"
  <2>1. Chains[c] = <<"decide", "search", "preprocess", "assemble", "answer">>
    BY <1>1 DEF Chains
  <2>2. n \in {1, 2, 3, 4, 5}
    BY <2>1
  <2>3. QED
    BY <1>1, <2>1, <2>2
<1>2. CASE c = "direct"
  BY <1>2 DEF Chains
<1>3. CASE c = "rag"
  <2>1. Chains[c] = <<"search", "preprocess", "assemble", "answer">>
    BY <1>3 DEF Chains
  <2>2. n \in {1, 2, 3, 4}
    BY <2>1
  <2>3. QED
    BY <1>3, <2>1, <2>2
<1>4. CASE c = "ingest"
  <2>1. Chains[c] = <<"distill", "write", "index", "finalize">>
    BY <1>4 DEF Chains
  <2>2. n \in {1, 2, 3, 4}
    BY <2>1
  <2>3. QED
    BY <1>4, <2>1, <2>2
<1>5. QED
  BY <1>1, <1>2, <1>3, <1>4 DEF Chains

LEMMA Lengths ==
  /\ DOMAIN Chains = {"chat", "direct", "rag", "ingest"}
  /\ \A c \in DOMAIN Chains : Len(Chains[c]) \in Nat \ {0}
BY DEF Chains

-----------------------------------------------------------------------------
(* Where a request is.                                                      *)

State(s) ==
  s = [query |-> s.query, decision |-> s.decision, sources |-> s.sources,
       prompt |-> s.prompt, wiki |-> s.wiki, written |-> s.written,
       indexed |-> s.indexed, answer |-> s.answer]

States ==
  /\ State(state)
  /\ state.sources \in 0 .. MaxSources /\ state.answer \in 0 .. MaxDeltas
  /\ state.wiki \in 0 .. 1 /\ state.written \in BOOLEAN /\ state.indexed \in BOOLEAN

Running == pc \in {"step", "run", "relay", "emit", "failed", "succeeded"}

\* A request and its chain belong together, and a chain is left only at its end.
Route ==
  /\ req \in Requests \cup {None}
  /\ pc \in {"idle", "step", "run", "relay", "emit", "failed", "succeeded", "answered"}
  /\ ctx \in {"live", "done"}
  /\ outcome \in {None, "bad request", "no cloud", "failed", "empty", "ok"}
  /\ Running => /\ chain \in DOMAIN Chains
                /\ chain = "ingest" <=> req.via = "ingest"
  /\ chain \in DOMAIN Chains \cup {None}
  /\ chain \in DOMAIN Chains => step \in 1 .. Len(Chains[chain]) + 1
  /\ pc \in {"run", "relay", "emit"} => step <= Len(Chains[chain])
  /\ pc \in {"relay", "emit"} => Chains[chain][step] \in {"answer", "simple-answer"}
  /\ pc = "succeeded" => step > Len(Chains[chain])

\* Only the first chain of a request decides, so it decides once.
Once ==
  /\ switches \in 0 .. 1
  /\ pc = "idle" => switches = 0
  /\ Running /\ chain # "direct" => switches = 0

-----------------------------------------------------------------------------
(* From the model to runStreaming.                                          *)

Chunk == [kind : {"text", "done", "error"}, text : 0 .. MaxDeltas]

\* What readSSE is about to send.
Holding ==
  \/ /\ held.chunk = Token("text", sent) /\ held.next \in {"scan", "complete"}
     /\ sent = got + Len(chunks) + 1
     /\ held.next = "complete" => over
  \/ /\ held.chunk = Token("done", sent) /\ held.next = "close"
     /\ over /\ sent = got + Len(chunks)
  \/ /\ held.chunk = Token("error", 0) /\ held.next = "close"
     /\ sent = got + Len(chunks)

\* The chunks that are under way continue what runStreaming has got.
Numbered(i) ==
  \/ chunks[i] = Token("text", got + i) /\ got + i <= sent
  \/ reader = "close" /\ i = Len(chunks) /\ chunks[i] = Token("error", 0)
  \/ /\ reader = "close" /\ i = Len(chunks) /\ chunks[i] = Token("done", sent)
     /\ over /\ sent = got + i - 1

Counts ==
  /\ sent \in 0 .. MaxDeltas /\ got \in 0 .. sent /\ over \in BOOLEAN
  /\ chunks \in Seq(Chunk) /\ Len(chunks) <= ChunkCap

Flow ==
  /\ reader \in {"off", "scan", "complete", "send", "close"}
  /\ Counts
  /\ reader = "off" => chunks = <<>> /\ got = 0 /\ sent = 0
  /\ reader \in {"scan", "complete"} => sent = got + Len(chunks)
  /\ reader = "complete" => over
  /\ reader = "send" => Holding
  /\ \A i \in 1 .. Len(chunks) : Numbered(i)

\* Nothing has been streamed before the step that streams.
Beginning ==
  pc \in {"idle", "run"} \/ (pc = "step" /\ step <= Len(Chains[chain])) => StreamIdle

-----------------------------------------------------------------------------
(* From runStreaming to the caller.                                         *)

TokenSet == [kind : {"sources", "text", "done", "error"}, text : Nat]

\* The caller was sent the sources, perhaps, and n deltas.
OnlyTexts(n) ==
  /\ Len(tokens) = Lead + n
  /\ \A i \in 1 .. Len(tokens) : i > Lead => tokens[i] = Token("text", i - Lead)

Emitting ==
  \/ /\ tokens = <<>> /\ got = 0 /\ req.streamer /\ reader # "off"
     /\ emitting = [token |-> Token("sources", state.sources), then |-> "relay"]
  \/ /\ got > 0 /\ OnlyTexts(got - 1) /\ req.streamer /\ reader # "off"
     /\ emitting = [token |-> Token("text", got), then |-> "relay"]
  \/ /\ OnlyTexts(got) /\ over /\ got = sent /\ state.answer = sent /\ reader = "close"
     /\ emitting = [token |-> Token("done", got), then |-> "return"]
  \/ /\ OnlyTexts(got)
     /\ emitting = [token |-> Token("error", 0), then |-> "fail"]
  \/ /\ ~req.streamer /\ tokens = <<>>
     /\ emitting = [token |-> Token("done", state.answer), then |-> "return"]

Caller ==
  /\ tokens \in Seq(TokenSet) /\ unread \in 0 .. StreamCap
  /\ pc = "relay" => req.streamer /\ reader # "off" /\ OnlyTexts(got)
  /\ pc = "emit" => Emitting
  /\ \A i \in 1 .. Len(tokens) : tokens[i].kind = "done" /\ req.streamer => reader = "close"

-----------------------------------------------------------------------------
(* What an ingestion has done.                                              *)

Ingestion ==
  /\ pc \in {"step", "run"} /\ chain = "ingest" =>
       /\ step >= 3 /\ state.wiki > 0 => state.written
       /\ step >= 4 /\ state.wiki > 0 => state.indexed
  /\ pc = "succeeded" /\ chain = "ingest" /\ state.wiki > 0 => state.written /\ state.indexed
  /\ pc # "answered" => outcome # "ok"

-----------------------------------------------------------------------------

Inv ==
  /\ States /\ Route /\ Once /\ Flow /\ Beginning /\ Caller /\ Ingestion
  /\ TokensInOrder /\ CompleteIsComplete /\ OkIsDone

LEMMA Initially == Init => Inv
<1> SUFFICES ASSUME Init PROVE Inv
  OBVIOUS
<1>1. States
  BY DEF Init, NewState, States, State
<1>2. Route /\ Once
  BY Lengths DEF Init, Route, Once, Running
<1>3. Flow
  <2>1. <<>> \in Seq(Chunk) /\ Len(<<>>) = 0
    OBVIOUS
  <2>2. Counts
    <3>1. /\ sent = 0 /\ got = 0 /\ over = FALSE /\ chunks = <<>>
      BY DEF Init, StreamIdle
    <3>2. ChunkCap \in Nat \ {0} /\ MaxDeltas \in Nat \ {0}
      BY DEF ChainAssumption
    <3>3. chunks \in Seq(Chunk) /\ Len(chunks) <= ChunkCap
      BY <2>1, <3>1, <3>2
    <3>4. sent \in 0 .. MaxDeltas /\ got \in 0 .. sent
      BY <3>1, <3>2
    <3>5. QED
      BY <3>1, <3>3, <3>4 DEF Counts
  <2>3. 1 .. Len(chunks) = {}
    BY <2>1 DEF Init, StreamIdle
  <2>4. QED
    BY <2>2, <2>3 DEF Init, StreamIdle, Flow
<1>4. Beginning /\ Ingestion /\ OkIsDone
  BY DEF Init, Beginning, Ingestion, OkIsDone
<1>5. Caller /\ TokensInOrder /\ CompleteIsComplete
  BY DEF Init, StreamIdle, Caller, TokensInOrder, CompleteIsComplete
<1>6. QED
  BY <1>1, <1>2, <1>3, <1>4, <1>5 DEF Inv

-----------------------------------------------------------------------------
(* The steps that stream nothing.                                           *)

\* The stream's part of the invariant follows when nothing of it moves.
LEMMA Quiet ==
  ASSUME Inv, UNCHANGED streamVars, pc' \notin {"relay", "emit"}, Beginning',
         tokens = <<>> \/ UNCHANGED <<req, state>>
  PROVE  Flow' /\ Caller' /\ TokensInOrder' /\ CompleteIsComplete'
<1> USE DEF streamVars
<1>1. Flow'
  BY DEF Inv, Flow, Counts, Holding, Numbered
<1>2. CASE tokens = <<>>
  <2>1. Caller'
    BY <1>2 DEF Inv, Caller
  <2>2. TokensInOrder' /\ CompleteIsComplete'
    BY <1>2 DEF TokensInOrder, CompleteIsComplete
  <2>3. QED
    BY <1>1, <2>1, <2>2
<1>3. CASE UNCHANGED <<req, state>>
  <2>1. Caller'
    BY <1>3 DEF Inv, Caller
  <2>2. TokensInOrder' /\ CompleteIsComplete'
    BY <1>3 DEF Inv, TokensInOrder, CompleteIsComplete, Lead
  <2>3. QED
    BY <1>1, <2>1, <2>2
<1>4. QED
  BY <1>2, <1>3

LEMMA BeginSteps ==
  ASSUME Inv, Begin
  PROVE  Inv'
<1>1. PICK r \in Requests : BeginRest(r) \/ BeginOther(r)
  BY DEF Begin
<1>2. /\ pc = "idle" /\ req' = r /\ StreamIdle /\ UNCHANGED <<ctx, switches, streamVars>>
      /\ tokens = <<>> /\ switches = 0
  BY <1>1 DEF Begin, BeginRest, BeginOther, Inv, Beginning, StreamIdle, Once
<1>3. \/ /\ pc' = "step" /\ step' = 1 /\ chain' \in {"chat", "rag", "ingest"}
         /\ chain' = "ingest" <=> r.via = "ingest"
         /\ \E q : state' = [state EXCEPT !.query = q]
         /\ UNCHANGED outcome
      \/ /\ pc' = "answered" /\ outcome' \in {"bad request", "no cloud"}
         /\ UNCHANGED <<chain, step, state>>
  <2>1. CASE BeginRest(r)
    <3>1. r.via = "rest"
      BY <2>1 DEF BeginRest, RestRequest
    <3>2. QED
      BY <2>1, <3>1 DEF BeginRest, Enter, Answer
  <2>2. CASE BeginOther(r)
    BY <2>2 DEF BeginOther, Enter
  <2>3. QED
    BY <1>1, <2>1, <2>2
<1>4. States'
  BY <1>3 DEF Inv, States, State
<1>5. Route' /\ Once'
  <2>1. CASE pc' = "step"
    <3>1. chain' \in DOMAIN Chains /\ Len(Chains[chain']) \in Nat \ {0} /\ chain' # "direct"
      BY <1>3, <2>1, Lengths
    <3>2. step' \in 1 .. Len(Chains[chain']) + 1 /\ UNCHANGED outcome
      BY <1>3, <2>1, <3>1
    <3>3. Route'
      BY <1>2, <1>3, <2>1, <3>1, <3>2 DEF Inv, Route, Running
    <3>4. QED
      BY <1>2, <2>1, <3>3 DEF Once
  <2>2. CASE pc' = "answered"
    <3>1. Route'
      BY <1>2, <1>3, <2>2 DEF Inv, Route, Running
    <3>2. QED
      BY <1>2, <2>2, <3>1 DEF Once, Running
  <2>3. QED
    BY <1>3, <2>1, <2>2
<1>6. Beginning'
  BY <1>2 DEF Beginning, StreamIdle, streamVars
<1>7. Flow' /\ Caller' /\ TokensInOrder' /\ CompleteIsComplete'
  BY <1>2, <1>3, <1>6, Quiet
<1>8. Ingestion' /\ OkIsDone'
  <2>1. outcome' # "ok"
    BY <1>2, <1>3 DEF Inv, Ingestion
  <2>2. CASE pc' = "step"
    BY <1>3, <2>1, <2>2 DEF Ingestion, OkIsDone
  <2>3. CASE pc' = "answered"
    BY <2>1, <2>3 DEF Ingestion, OkIsDone
  <2>4. QED
    BY <1>3, <2>2, <2>3
<1>9. QED
  BY <1>4, <1>5, <1>6, <1>7, <1>8 DEF Inv

\* The steps before the answer, and those of an ingestion.
PlainStep ==
  \/ StartStep \/ EndChain \/ DecideStep \/ SearchStep \/ PreprocessStep \/ AssembleStep
  \/ AnswerBuffered \/ DistillStep \/ WriteStep \/ IndexStep \/ FinalizeStep

LEMMA Here ==
  ASSUME Inv, Running
  PROVE  /\ chain \in DOMAIN Chains /\ Len(Chains[chain]) \in Nat \ {0}
         /\ step \in 1 .. Len(Chains[chain]) + 1
         /\ pc \in {"run", "relay", "emit"} => step \in 1 .. Len(Chains[chain])
         /\ chain = "ingest" <=> req.via = "ingest"
<1>1. /\ chain \in DOMAIN Chains /\ step \in 1 .. Len(Chains[chain]) + 1
      /\ pc \in {"run", "relay", "emit"} => step <= Len(Chains[chain])
      /\ chain = "ingest" <=> req.via = "ingest"
  BY DEF Inv, Route
<1>2. Len(Chains[chain]) \in Nat \ {0}
  BY <1>1, Lengths
<1>3. QED
  BY <1>1, <1>2

LEMMA PlainMoves ==
  ASSUME Inv, PlainStep
  PROVE  /\ UNCHANGED <<req, ctx, outcome, streamVars>>
         /\ pc \in {"step", "run"} /\ pc' \in {"step", "run", "failed", "succeeded"}
         /\ \/ UNCHANGED <<chain, step>>
            \/ UNCHANGED chain /\ pc' = "step" /\ pc = "run" /\ step' = step + 1
            \/ chain = "chat" /\ chain' = "direct" /\ pc' = "step" /\ pc = "run" /\ step' = 1
         /\ UNCHANGED chain => UNCHANGED switches
         /\ switches' \in {switches, switches + 1}
         /\ pc' = "run" => pc = "step" /\ step <= Len(Chains[chain]) /\ UNCHANGED step
         /\ pc' = "succeeded" => pc = "step" /\ step > Len(Chains[chain]) /\ UNCHANGED <<step, state>>
<1>1. CASE StartStep \/ EndChain
  BY <1>1 DEF StartStep, EndChain
<1>2. CASE DecideStep
  <2>1. pc = "run" /\ chain \in DOMAIN Chains /\ step \in 1 .. Len(Chains[chain])
    BY <1>2, Here DEF DecideStep, At, Running
  <2>2. chain = "chat"
    BY <1>2, <2>1, ChainFacts DEF DecideStep, At
  <2>3. QED
    BY <1>2, <2>1, <2>2 DEF DecideStep, Proceed
<1>3. CASE SearchStep \/ PreprocessStep \/ AssembleStep \/ AnswerBuffered
  BY <1>3 DEF SearchStep, PreprocessStep, AssembleStep, AnswerBuffered, AtAnswer, At, Fail, Proceed
<1>4. CASE DistillStep \/ WriteStep \/ IndexStep \/ FinalizeStep
  BY <1>4 DEF DistillStep, WriteStep, IndexStep, FinalizeStep, At, Fail, Proceed
<1>5. QED
  BY <1>1, <1>2, <1>3, <1>4 DEF PlainStep

LEMMA PlainStates ==
  ASSUME Inv, PlainStep
  PROVE  States'
<1> USE DEF States, State
<1>1. States
  BY DEF Inv
<1>2. CASE UNCHANGED state
  BY <1>1, <1>2
<1>3. CASE \/ \E d : state' = [state EXCEPT !.decision = d]
           \/ \E n \in 0 .. MaxSources : state' = [state EXCEPT !.sources = n]
           \/ \E b : state' = [state EXCEPT !.prompt = b]
           \/ \E n \in 0 .. MaxDeltas : state' = [state EXCEPT !.answer = n]
  BY <1>1, <1>3
<1>4. CASE \/ \E n \in 0 .. 1 : state' = [state EXCEPT !.wiki = n]
           \/ state' = [state EXCEPT !.written = TRUE]
           \/ state' = [state EXCEPT !.indexed = TRUE]
  BY <1>1, <1>4
<1>5. 1 \in 0 .. MaxDeltas /\ state.wiki \in 0 .. MaxDeltas
  BY <1>1
<1>6. CASE WriteStep \/ FinalizeStep
  <2>1. \/ \E n \in 0 .. MaxDeltas : state' = [state EXCEPT !.answer = n]
        \/ UNCHANGED state
        \/ state' = [state EXCEPT !.written = TRUE]
    BY <1>5, <1>6 DEF WriteStep, FinalizeStep, Fail
  <2>2. QED
    BY <1>2, <1>3, <1>4, <2>1
<1>7. CASE ~(WriteStep \/ FinalizeStep)
  BY <1>2, <1>3, <1>4, <1>7
     DEF PlainStep, StartStep, EndChain, DecideStep, SearchStep, PreprocessStep, AssembleStep,
         AnswerBuffered, DistillStep, IndexStep, Fail
<1>8. QED
  BY <1>6, <1>7

LEMMA PlainIngests ==
  ASSUME Inv, PlainStep
  PROVE  Ingestion' /\ OkIsDone'
<1>1. outcome' # "ok"
  BY PlainMoves DEF Inv, Ingestion
<1>2. OkIsDone'
  BY <1>1 DEF OkIsDone
<1>3. ASSUME chain' # "ingest" PROVE Ingestion'
  BY <1>1, <1>3 DEF Ingestion
<1>4. ASSUME chain' = "ingest" PROVE Ingestion'
  <2>1. chain = "ingest"
    BY <1>4, PlainMoves
  <2>2. Chains["ingest"] = <<"distill", "write", "index", "finalize">>
    BY DEF Chains
  <2>3. step \in 1 .. 5 /\ (pc = "run" => step \in {1, 2, 3, 4})
    BY <2>1, <2>2, PlainMoves, Here DEF Running
  <2>4. CASE StartStep
    BY <1>1, <2>4 DEF StartStep, Ingestion, Inv
  <2>5. CASE EndChain
    <3>1. step > 4 /\ pc = "step" /\ pc' = "succeeded" /\ UNCHANGED <<chain, state>>
      BY <2>1, <2>2, <2>5 DEF EndChain
    <3>2. state.wiki > 0 => state.written /\ state.indexed
      BY <2>1, <2>3, <3>1 DEF Ingestion, Inv
    <3>3. QED
      BY <1>1, <3>1, <3>2 DEF Ingestion
  <2>6. ASSUME pc = "run", PlainStep PROVE Ingestion'
    <3>1. /\ \A name : At(name) => Chains["ingest"][step] = name
          /\ At("distill") => step = 1
          /\ At("write") => step = 2
          /\ At("index") => step = 3
          /\ At("finalize") => step = 4
          /\ \A name : At(name) => name \in {"distill", "write", "index", "finalize"}
      <4>1. step \in {1, 2, 3, 4}
        BY <2>3, <2>6
      <4>2. QED
        BY <2>1, <2>2, <4>1 DEF At
    <3>2. CASE DistillStep
      <4>1. step = 1
        BY <3>1, <3>2 DEF DistillStep
      <4>2. QED
        BY <1>1, <3>2, <4>1 DEF DistillStep, Fail, Proceed, Ingestion
    <3>3. CASE WriteStep
      <4>1. step = 2 /\ States
        BY <3>1, <3>3 DEF WriteStep, Inv
      <4>2. QED
        BY <1>1, <3>3, <4>1 DEF WriteStep, Fail, Proceed, Ingestion, States, State
    <3>4. CASE IndexStep
      <4>1. step = 3 /\ States /\ (state.wiki > 0 => state.written)
        BY <2>1, <2>6, <3>1, <3>4 DEF IndexStep, Inv, Ingestion
      <4>2. QED
        BY <1>1, <3>4, <4>1 DEF IndexStep, Fail, Proceed, Ingestion, States, State
    <3>5. CASE FinalizeStep
      <4>1. step = 4 /\ States /\ (state.wiki > 0 => state.written /\ state.indexed)
        BY <2>1, <2>6, <3>1, <3>5 DEF FinalizeStep, Inv, Ingestion
      <4>2. QED
        BY <1>1, <3>5, <4>1 DEF FinalizeStep, Proceed, Ingestion, States, State
    <3>6. DistillStep \/ WriteStep \/ IndexStep \/ FinalizeStep
      BY <2>6, <3>1 DEF PlainStep, StartStep, EndChain, DecideStep, SearchStep, PreprocessStep,
                        AssembleStep, AnswerBuffered, AtAnswer
    <3>7. QED
      BY <3>2, <3>3, <3>4, <3>5, <3>6
  <2>7. pc = "run" \/ StartStep \/ EndChain
    BY DEF PlainStep, DecideStep, SearchStep, PreprocessStep, AssembleStep, AnswerBuffered,
           AtAnswer, DistillStep, WriteStep, IndexStep, FinalizeStep, At
  <2>8. QED
    BY <2>4, <2>5, <2>6, <2>7
<1>5. QED
  BY <1>2, <1>3, <1>4

LEMMA PlainSteps ==
  ASSUME Inv, PlainStep
  PROVE  Inv'
<1>1. /\ Running /\ Running' /\ chain \in DOMAIN Chains /\ chain' \in DOMAIN Chains
      /\ step \in 1 .. Len(Chains[chain]) + 1 /\ Len(Chains[chain]) \in Nat \ {0}
      /\ Len(Chains[chain']) \in Nat \ {0}
  BY PlainMoves, Lengths DEF Inv, Route, Running
<1>2. Route'
  <2>1. step' \in 1 .. Len(Chains[chain']) + 1
    <3>1. CASE UNCHANGED <<chain, step>>
      BY <1>1, <3>1
    <3>2. CASE UNCHANGED chain /\ pc = "run" /\ step' = step + 1
      BY <1>1, <3>2, Here
    <3>3. CASE step' = 1
      BY <1>1, <3>3
    <3>4. QED
      BY <3>1, <3>2, <3>3, PlainMoves
  <2>2. chain' = "ingest" <=> req'.via = "ingest"
    BY <1>1, PlainMoves DEF Inv, Route
  <2>3. QED
    BY <1>1, <2>1, <2>2, PlainMoves DEF Inv, Route
<1>3. Once'
  BY <1>1, PlainMoves DEF Inv, Once, Running
<1>4. pc = "run" \/ (pc = "step" /\ UNCHANGED <<chain, step>>)
  BY PlainMoves
<1>5. Beginning'
  <2>1. CASE StreamIdle
    BY <2>1, PlainMoves DEF Beginning, StreamIdle, streamVars
  <2>2. CASE ~StreamIdle
    BY <1>1, <1>4, <2>2, PlainMoves DEF Beginning, Inv
  <2>3. QED
    BY <2>1, <2>2
<1>6. tokens = <<>> \/ UNCHANGED <<req, state>>
  <2>1. CASE pc = "run"
    BY <2>1 DEF Inv, Beginning, StreamIdle
  <2>2. CASE pc = "step"
    BY <2>2 DEF PlainStep, StartStep, EndChain, DecideStep, SearchStep, PreprocessStep, AssembleStep,
                AnswerBuffered, AtAnswer, DistillStep, WriteStep, IndexStep, FinalizeStep, At
  <2>3. QED
    BY <2>1, <2>2, PlainMoves
<1>7. Flow' /\ Caller' /\ TokensInOrder' /\ CompleteIsComplete'
  BY <1>5, <1>6, PlainMoves, Quiet
<1>8. QED
  BY <1>2, <1>3, <1>5, <1>7, PlainStates, PlainIngests DEF Inv

\* A handler answers, the caller leaves, or the next request comes.
LEMMA HandlerSteps ==
  ASSUME Inv, Respond \/ Cancel \/ Finish
  PROVE  Inv'
<1>1. CASE Respond
  <2>1. /\ pc \in {"failed", "succeeded"} /\ pc' = "answered"
        /\ UNCHANGED <<req, chain, step, ctx, state, switches, streamVars>>
        /\ outcome' \in {"failed", "empty", "ok"}
        /\ outcome' = "ok" => pc = "succeeded" /\ (req.via = "ingest" \/ state.answer # 0)
    BY <1>1 DEF Respond, Answer
  <2>2. States' /\ Route' /\ Once' /\ Beginning'
    BY <2>1 DEF Inv, States, State, Route, Once, Running, Beginning
  <2>3. Flow' /\ Caller' /\ TokensInOrder' /\ CompleteIsComplete'
    BY <2>1, <2>2, Quiet
  <2>4. Ingestion'
    BY <2>1 DEF Inv, Ingestion
  <2>5. OkIsDone'
    <3>1. ASSUME outcome' = "ok", req.via = "ingest"
          PROVE  state.wiki > 0 => state.written /\ state.indexed
      BY <2>1, <3>1, Here DEF Inv, Ingestion, Running
    <3>2. ASSUME outcome' = "ok", req.via # "ingest" PROVE state.answer > 0
      BY <2>1, <3>2 DEF Inv, States
    <3>3. QED
      BY <2>1, <3>1, <3>2 DEF OkIsDone
  <2>6. QED
    BY <2>2, <2>3, <2>4, <2>5 DEF Inv
<1>2. CASE Cancel
  <2>1. ctx' = "done" /\ UNCHANGED <<req, chain, step, pc, state, switches, outcome, streamVars>>
    BY <1>2 DEF Cancel
  <2>2. States' /\ Route' /\ Once' /\ Beginning'
    <3>1. States' /\ Beginning'
      BY <2>1 DEF Inv, States, State, Beginning, StreamIdle, streamVars
    <3>2. Route' /\ Once'
      BY <2>1 DEF Inv, Route, Once, Running
    <3>3. QED
      BY <3>1, <3>2
  <2>3. Flow' /\ Caller'
    BY <2>1 DEF Inv, Flow, Counts, Holding, Numbered, Caller, Emitting, OnlyTexts, Lead, streamVars
  <2>4. TokensInOrder' /\ CompleteIsComplete' /\ Ingestion' /\ OkIsDone'
    BY <2>1 DEF Inv, TokensInOrder, CompleteIsComplete, Lead, Ingestion, OkIsDone, streamVars
  <2>5. QED
    BY <2>2, <2>3, <2>4 DEF Inv
<1>3. CASE Finish
  <2>1. Init'
    BY <1>3 DEF Finish, Init, StreamIdle
  <2>2. QED
    BY <2>1, Initially, PTL
<1>4. QED
  BY <1>1, <1>2, <1>3


-----------------------------------------------------------------------------
(* The steps of readSSE.                                                    *)

\* What follows from a step of the goroutine alone.
LEMMA ReaderApart ==
  ASSUME Inv, UNCHANGED <<chainVars, got, emitting, tokens, unread>>, Flow',
         reader \in {"scan", "complete", "send"}, reader' # "off",
         \/ UNCHANGED <<sent, over>>
         \/ reader = "scan"
  PROVE  Inv'
<1> USE DEF chainVars
<1>1. States' /\ Route' /\ Once' /\ Ingestion' /\ OkIsDone'
  <2>1. States' /\ Ingestion' /\ OkIsDone'
    BY DEF Inv, States, State, Ingestion, OkIsDone
  <2>2. Route' /\ Once'
    BY DEF Inv, Route, Once, Running
  <2>3. QED
    BY <2>1, <2>2
<1>2. ~StreamIdle
  BY DEF StreamIdle
<1>3. Beginning'
  BY <1>2 DEF Inv, Beginning
<1>4. TokensInOrder'
  BY DEF Inv, TokensInOrder, Lead
<1>5. \A i \in DOMAIN tokens : tokens[i].kind = "done" => ~req.streamer
  BY DEF Inv, Caller
<1>6. CompleteIsComplete'
  BY <1>5 DEF CompleteIsComplete
<1>7. pc = "emit" => Emitting'
  BY DEF Inv, Caller, Emitting, OnlyTexts, Lead
<1>8. Caller'
  BY <1>5, <1>7 DEF Inv, Caller, OnlyTexts, Lead
<1>9. QED
  BY <1>1, <1>3, <1>4, <1>6, <1>8 DEF Inv

\* Chunks that are all numbered and belong to the past of a reader at work.
LEMMA StillNumbered ==
  ASSUME Flow, reader # "close", got' = got, chunks' = chunks, sent' \in Nat, sent <= sent'
  PROVE  \A i \in 1 .. Len(chunks') : Numbered(i)'
BY DEF Flow, Counts, Numbered

LEMMA ReaderSteps ==
  ASSUME Inv, ReadSSE
  PROVE  Inv'
<1>1. Flow /\ Counts /\ Len(chunks) \in Nat
  BY DEF Inv, Flow, Counts
<1>2. CASE ScanDelta
  <2>1. /\ reader = "scan" /\ sent < MaxDeltas /\ sent' = sent + 1 /\ reader' = "send"
        /\ UNCHANGED <<chainVars, chunks, got, emitting, tokens, unread>>
        /\ \E next \in {"scan", "complete"} :
             /\ held' = [chunk |-> Token("text", sent + 1), next |-> next]
             /\ over' = (next = "complete")
    BY <1>2 DEF ScanDelta, Hold
  <2>2. Holding' /\ over' \in BOOLEAN
    <3>1. PICK next \in {"scan", "complete"} :
            /\ held' = [chunk |-> Token("text", sent + 1), next |-> next]
            /\ over' = (next = "complete")
      BY <2>1
    <3>2. held'.chunk = Token("text", sent') /\ held'.next \in {"scan", "complete"}
      BY <2>1, <3>1
    <3>3. over' \in BOOLEAN /\ (held'.next = "complete" => over')
      <4>1. held'.next = next
        BY <3>1
      <4>2. QED
        BY <3>1, <4>1, Zenon
    <3>4. sent' = got' + Len(chunks') + 1
      BY <1>1, <2>1 DEF Flow, Counts
    <3>5. QED
      BY <3>2, <3>3, <3>4, Zenon DEF Holding
  <2>3. Counts'
    BY <1>1, <2>1, <2>2 DEF Counts
  <2>4. Flow'
    BY <1>1, <2>1, <2>2, <2>3, StillNumbered DEF Flow, Counts
  <2>5. QED
    BY <2>1, <2>4, ReaderApart
<1>3. CASE ScanComplete
  <2>1. /\ reader = "scan" /\ reader' = "complete" /\ over' = TRUE
        /\ UNCHANGED <<chainVars, held, sent, chunks, got, emitting, tokens, unread>>
    BY <1>3 DEF ScanComplete
  <2>2. Flow'
    BY <1>1, <2>1, StillNumbered DEF Flow, Counts
  <2>3. QED
    BY <2>1, <2>2, ReaderApart
<1>4. CASE ScanBroken
  <2>1. /\ reader = "scan" /\ reader' = "send"
        /\ held' = [chunk |-> Token("error", 0), next |-> "close"]
        /\ UNCHANGED <<chainVars, sent, over, chunks, got, emitting, tokens, unread>>
    BY <1>4 DEF ScanBroken, Hold
  <2>2. Holding'
    BY <1>1, <2>1 DEF Flow, Holding
  <2>3. Flow'
    BY <1>1, <2>1, <2>2, StillNumbered DEF Flow, Counts
  <2>4. QED
    BY <2>1, <2>3, ReaderApart
<1>5. CASE FinishScan
  <2>1. /\ reader = "complete" /\ reader' = "send"
        /\ held' = [chunk |-> Token("done", sent), next |-> "close"]
        /\ UNCHANGED <<chainVars, sent, over, chunks, got, emitting, tokens, unread>>
    BY <1>5 DEF FinishScan, Hold
  <2>2. Holding'
    BY <1>1, <2>1 DEF Flow, Holding
  <2>3. Flow'
    BY <1>1, <2>1, <2>2, StillNumbered DEF Flow, Counts
  <2>4. QED
    BY <2>1, <2>3, ReaderApart
<1>6. CASE Abandon
  <2>1. /\ reader = "send" /\ reader' = "close"
        /\ UNCHANGED <<chainVars, sent, over, chunks, got, emitting, tokens, unread>>
    BY <1>6 DEF Abandon
  <2>2. Flow'
    BY <1>1, <2>1, StillNumbered DEF Flow, Counts
  <2>3. QED
    BY <2>1, <2>2, ReaderApart
<1>7. CASE Send
  <2>1. /\ reader = "send" /\ reader' = held.next /\ Len(chunks) < ChunkCap
        /\ chunks' = Append(chunks, held.chunk)
        /\ UNCHANGED <<chainVars, sent, over, got, emitting, tokens, unread>>
    BY <1>7 DEF Send
  <2> DEFINE n == Len(chunks)
  <2>2. Holding /\ held.chunk \in Chunk
    BY <1>1, <2>1 DEF Flow, Holding, Counts, Token, Chunk
  <2>3. /\ chunks' \in Seq(Chunk) /\ Len(chunks') = n + 1
        /\ chunks'[n + 1] = held.chunk
        /\ \A i \in 1 .. n : chunks'[i] = chunks[i]
    BY <1>1, <2>1, <2>2 DEF Counts
  <2>4. Counts'
    BY <1>1, <2>1, <2>3 DEF Counts
  <2>5. \A i \in 1 .. n : Numbered(i)'
    BY <1>1, <2>1, <2>3 DEF Flow, Numbered
  <2>6. /\ Numbered(Len(chunks))'
        /\ reader' \in {"scan", "complete", "close"}
        /\ reader' \in {"scan", "complete"} => sent' = got' + Len(chunks')
        /\ reader' = "complete" => over'
    <3>1. CASE /\ held.chunk = Token("text", sent) /\ held.next \in {"scan", "complete"}
               /\ sent = got + n + 1 /\ (held.next = "complete" => over)
      <4>1. chunks'[n + 1] = Token("text", got' + (n + 1)) /\ got' + (n + 1) <= sent'
        BY <1>1, <2>1, <2>3, <3>1 DEF Counts
      <4>2. sent' = got' + Len(chunks')
        BY <1>1, <2>1, <2>3, <3>1 DEF Counts
      <4>3. reader' \in {"scan", "complete"} /\ (reader' = "complete" => over')
        BY <2>1, <3>1, Zenon
      <4>4. QED
        BY <2>3, <4>1, <4>2, <4>3 DEF Numbered
    <3>2. CASE /\ held.chunk = Token("done", sent) /\ held.next = "close"
               /\ over /\ sent = got + n
      <4>1. /\ chunks'[n + 1] = Token("done", sent') /\ reader' = "close"
            /\ n + 1 = Len(chunks') /\ sent' = got' + (n + 1) - 1
        BY <1>1, <2>1, <2>3, <3>2 DEF Counts
      <4>2. over'
        BY <2>1, <3>2
      <4>3. QED
        BY <2>3, <4>1, <4>2 DEF Numbered
    <3>3. CASE held.chunk = Token("error", 0) /\ held.next = "close"
      BY <1>1, <2>1, <2>3, <3>3 DEF Numbered
    <3>4. QED
      BY <2>2, <3>1, <3>2, <3>3 DEF Holding
  <2>7. \A i \in 1 .. Len(chunks') : Numbered(i)'
    <3> SUFFICES ASSUME NEW i \in 1 .. Len(chunks') PROVE Numbered(i)'
      OBVIOUS
    <3>1. i \in 1 .. n \/ i = Len(chunks')
      BY <1>1, <2>3
    <3>2. CASE i \in 1 .. n
      BY <2>5, <3>2
    <3>3. CASE i = Len(chunks')
      BY <2>6, <3>3
    <3>4. QED
      BY <3>1, <3>2, <3>3
  <2>8. Flow'
    BY <2>4, <2>6, <2>7 DEF Flow
  <2>9. QED
    BY <2>1, <2>6, <2>8, ReaderApart
<1>8. QED
  BY <1>2, <1>3, <1>4, <1>5, <1>6, <1>7 DEF ReadSSE


-----------------------------------------------------------------------------
(* The steps of runStreaming.                                               *)

\* A request that streams, or has streamed, stays on its way.
LEMMA OnTheWay ==
  ASSUME Inv, Running, Running', UNCHANGED <<req, chain, step, ctx, switches, outcome>>,
         pc' \in {"relay", "emit"} => Chains[chain][step] \in {"answer", "simple-answer"}
                                      /\ step <= Len(Chains[chain]),
         pc' \notin {"step", "run", "succeeded"}
  PROVE  Route' /\ Once' /\ Ingestion' /\ OkIsDone' /\ Beginning'
<1>1. Route'
  BY DEF Inv, Route, Running
<1>2. Once' /\ Beginning'
  BY DEF Inv, Once, Running, Beginning
<1>3. Ingestion' /\ OkIsDone'
  BY DEF Inv, Ingestion, OkIsDone, Running
<1>4. QED
  BY <1>1, <1>2, <1>3

LEMMA AnswerHere ==
  ASSUME Inv, AtAnswer
  PROVE  /\ pc = "run" /\ Running /\ StreamIdle
         /\ Chains[chain][step] \in {"answer", "simple-answer"} /\ step <= Len(Chains[chain])
<1>1. pc = "run" /\ Chains[chain][step] \in {"answer", "simple-answer"}
  BY DEF AtAnswer, At
<1>2. QED
  BY <1>1, Here DEF Inv, Beginning, Running

LEMMA StartStreamSteps ==
  ASSUME Inv, StartStream
  PROVE  Inv'
<1>1. /\ UNCHANGED <<req, chain, step, ctx, state, switches, outcome>>
      /\ UNCHANGED <<held, sent, over, chunks, got, tokens, unread>>
      /\ AtAnswer /\ req.streamer
      /\ \/ pc' = "failed" /\ UNCHANGED <<reader, emitting>>
         \/ /\ pc' = "emit" /\ reader' = "scan"
            /\ emitting' = [token |-> Token("sources", state.sources), then |-> "relay"]
         \/ pc' = "relay" /\ reader' = "scan" /\ UNCHANGED emitting
  BY DEF StartStream, Fail
<1>2. /\ pc = "run" /\ Running /\ StreamIdle /\ Running'
      /\ Chains[chain][step] \in {"answer", "simple-answer"} /\ step <= Len(Chains[chain])
  BY <1>1, AnswerHere DEF Running
<1>3. Route' /\ Once' /\ Ingestion' /\ OkIsDone' /\ Beginning'
  BY <1>1, <1>2, OnTheWay
<1>4. chunks = <<>> /\ got = 0 /\ sent = 0 /\ tokens = <<>> /\ Len(tokens) = 0 /\ Len(chunks) = 0
  BY <1>2 DEF StreamIdle
<1>5. States' /\ Counts'
  BY <1>1 DEF Inv, States, State, Flow, Counts
<1>6. Flow'
  <2>1. 1 .. Len(chunks') = {}
    BY <1>1, <1>4
  <2>2. CASE reader' = "scan"
    BY <1>1, <1>4, <1>5, <2>1, <2>2 DEF Flow
  <2>3. CASE reader' = reader
    BY <1>1, <1>2, <1>4, <1>5, <2>1, <2>3 DEF Flow, StreamIdle
  <2>4. QED
    BY <1>1, <2>2, <2>3
<1>7. Caller'
  <2>1. Lead' = 0 /\ OnlyTexts(got)'
    BY <1>1, <1>4 DEF Lead, OnlyTexts
  <2>2. 1 .. Len(tokens') = {}
    BY <1>1, <1>4
  <2>3. CASE pc' = "emit"
    BY <1>1, <1>4, <2>2, <2>3 DEF Inv, Caller, Emitting
  <2>4. CASE pc' # "emit"
    BY <1>1, <1>4, <2>1, <2>2, <2>4 DEF Inv, Caller
  <2>5. QED
    BY <2>3, <2>4
<1>8. TokensInOrder' /\ CompleteIsComplete'
  BY <1>1, <1>4 DEF TokensInOrder, CompleteIsComplete
<1>9. QED
  BY <1>3, <1>5, <1>6, <1>7, <1>8 DEF Inv

LEMMA AnswerFallbackSteps ==
  ASSUME Inv, AnswerFallback
  PROVE  Inv'
<1>1. /\ UNCHANGED <<req, chain, step, ctx, switches, outcome>>
      /\ UNCHANGED <<reader, held, sent, over, chunks, got, tokens, unread>>
      /\ AtAnswer /\ ~req.streamer
      /\ \/ pc' = "failed" /\ UNCHANGED <<emitting, state>>
         \/ /\ pc' = "emit"
            /\ \E n \in 0 .. MaxDeltas :
                 /\ state' = [state EXCEPT !.answer = n]
                 /\ emitting' = [token |-> Token("done", n), then |-> "return"]
  BY DEF AnswerFallback, Fail
<1>2. /\ pc = "run" /\ Running /\ StreamIdle /\ Running'
      /\ Chains[chain][step] \in {"answer", "simple-answer"} /\ step <= Len(Chains[chain])
  BY <1>1, AnswerHere DEF Running
<1>3. Route' /\ Once' /\ Ingestion' /\ OkIsDone' /\ Beginning'
  BY <1>1, <1>2, OnTheWay
<1>4. tokens = <<>> /\ tokens' = <<>> /\ 1 .. Len(tokens') = {}
  BY <1>1, <1>2 DEF StreamIdle
<1>5. /\ States'
      /\ pc' = "emit" => emitting' = [token |-> Token("done", state'.answer), then |-> "return"]
  BY <1>1 DEF Inv, States, State
<1>6. Flow'
  BY <1>1 DEF Inv, Flow, Counts, Holding, Numbered
<1>7. Caller'
  <2>1. pc' = "emit" => Emitting'
    BY <1>1, <1>4, <1>5 DEF Emitting
  <2>2. QED
    BY <1>1, <1>4, <2>1 DEF Inv, Caller
<1>8. TokensInOrder' /\ CompleteIsComplete'
  BY <1>4 DEF TokensInOrder, CompleteIsComplete
<1>9. QED
  BY <1>3, <1>5, <1>6, <1>7, <1>8 DEF Inv

\* What the caller was sent so far is the sources, then deltas.
LEMMA SentKinds ==
  ASSUME tokens \in Seq(TokenSet), NEW n \in Nat, OnlyTexts(n)
  PROVE  /\ Lead \in {0, 1} /\ Len(tokens) = Lead + n
         /\ \A i \in 1 .. Len(tokens) :
              IF i > Lead THEN tokens[i].kind = "text" /\ tokens[i].text = i - Lead
              ELSE i = 1 /\ tokens[i].kind = "sources"
<1>1. Lead \in {0, 1} /\ (Lead = 1 => tokens[1].kind = "sources")
  BY DEF Lead
<1>2. ASSUME NEW i \in 1 .. Len(tokens), i > Lead
      PROVE  tokens[i].kind = "text" /\ tokens[i].text = i - Lead
  BY <1>2 DEF OnlyTexts, Token
<1>3. ASSUME NEW i \in 1 .. Len(tokens), ~(i > Lead)
      PROVE  i = 1 /\ tokens[i].kind = "sources"
  BY <1>1, <1>3
<1>4. QED
  BY <1>1, <1>2, <1>3 DEF OnlyTexts

\* The first chunk is the next delta, the end of the answer, or an error.
LEMMA RelaySteps ==
  ASSUME Inv, Relay
  PROVE  Inv'
<1> DEFINE c == Head(chunks)
<1>1. /\ UNCHANGED <<req, chain, step, ctx, switches, outcome, reader, held, sent, over,
                     tokens, unread>>
      /\ pc = "relay" /\ pc' = "emit" /\ chunks # <<>> /\ chunks' = Tail(chunks)
  BY DEF Relay, Emit
<1>2. /\ Running /\ Running'
      /\ Chains[chain][step] \in {"answer", "simple-answer"} /\ step <= Len(Chains[chain])
  BY <1>1 DEF Inv, Route, Running
<1>3. Route' /\ Once' /\ Ingestion' /\ OkIsDone' /\ Beginning'
  BY <1>1, <1>2, OnTheWay
<1>4. /\ c = chunks[1] /\ Len(chunks) \in Nat \ {0} /\ Len(chunks') = Len(chunks) - 1
      /\ chunks' \in Seq(Chunk) /\ \A i \in 1 .. Len(chunks') : chunks'[i] = chunks[i + 1]
      /\ sent \in 0 .. MaxDeltas /\ got \in 0 .. sent /\ Len(chunks) <= ChunkCap /\ Counts
  BY <1>1 DEF Inv, Flow, Counts
<1>5. req.streamer /\ reader # "off" /\ OnlyTexts(got)
  BY <1>1 DEF Inv, Caller
<1>6. Flow /\ Numbered(1)
  BY <1>4 DEF Inv, Flow
<1>7. \A i \in 1 .. Len(tokens) : tokens[i].kind # "done"
  BY <1>4, <1>5, SentKinds DEF Inv, Caller
<1>8. TokensInOrder' /\ CompleteIsComplete'
  BY <1>1, <1>7 DEF Inv, TokensInOrder, CompleteIsComplete, Lead, Caller
<1>9. OnlyTexts(got)' = OnlyTexts(got') /\ \A n : OnlyTexts(n)' = OnlyTexts(n)
  BY <1>1 DEF OnlyTexts, Lead
<1>10. CASE c = Token("text", got + 1) /\ got + 1 <= sent
  <2>1. got' = got + 1 /\ emitting' = [token |-> c, then |-> "relay"] /\ UNCHANGED state
    BY <1>10 DEF Relay, Emit, Token
  <2>2. got' \in 0 .. sent' /\ got' > 0 /\ got' - 1 = got
    BY <1>1, <1>4, <1>10, <2>1
  <2>3. Counts'
    BY <1>1, <1>4, <2>2 DEF Counts
  <2>4. \A i \in 1 .. Len(chunks') : Numbered(i)'
    <3> SUFFICES ASSUME NEW i \in 1 .. Len(chunks') PROVE Numbered(i)'
      OBVIOUS
    <3>1. i + 1 \in 1 .. Len(chunks) /\ i \in Int
      BY <1>4
    <3>2. Numbered(i + 1)
      BY <1>6, <3>1 DEF Flow
    <3>3. chunks'[i] = chunks[i + 1] /\ (i + 1 = Len(chunks) <=> i = Len(chunks'))
      BY <1>4, <3>1
    <3>4. CASE chunks[i + 1] = Token("text", got + (i + 1)) /\ got + (i + 1) <= sent
      <4>1. got + (i + 1) = got' + i /\ sent' = sent
        BY <1>1, <1>4, <2>1, <3>1
      <4>2. QED
        BY <3>3, <3>4, <4>1 DEF Numbered
    <3>5. CASE /\ reader = "close" /\ i + 1 = Len(chunks)
               /\ chunks[i + 1] = Token("error", 0)
      BY <1>1, <3>3, <3>5 DEF Numbered
    <3>6. CASE /\ reader = "close" /\ i + 1 = Len(chunks)
               /\ chunks[i + 1] = Token("done", sent) /\ over /\ sent = got + (i + 1) - 1
      <4>1. sent' = got' + i - 1 /\ chunks'[i] = Token("done", sent') /\ over'
        BY <1>1, <1>4, <2>1, <3>1, <3>3, <3>6
      <4>2. QED
        BY <1>1, <3>3, <3>6, <4>1 DEF Numbered
    <3>7. QED
      BY <3>2, <3>4, <3>5, <3>6 DEF Numbered
  <2>5. Holding => Holding'
    BY <1>1, <1>4, <2>1 DEF Holding
  <2>6. Flow'
    <3>1. /\ reader \in {"scan", "complete", "send", "close"} /\ UNCHANGED <<reader, over>>
          /\ reader = "complete" => over
          /\ reader = "send" => Holding
          /\ reader \in {"scan", "complete"} => sent = got + Len(chunks)
      BY <1>1, <1>5, <1>6 DEF Flow
    <3>2. reader' \in {"scan", "complete"} => sent' = got' + Len(chunks')
      BY <1>1, <1>4, <2>1, <3>1
    <3>3. (reader' = "complete" => over') /\ (reader' = "send" => Holding')
      BY <2>5, <3>1
    <3>4. QED
      BY <2>3, <2>4, <3>1, <3>2, <3>3 DEF Flow
  <2>7. Emitting'
    <3>1. OnlyTexts(got - 1)'
      BY <1>5, <1>9, <2>2
    <3>2. QED
      BY <1>1, <1>5, <1>10, <2>1, <2>2, <3>1 DEF Emitting
  <2>8. Caller'
    BY <1>1, <1>7, <2>7 DEF Inv, Caller
  <2>9. States'
    BY <2>1 DEF Inv, States, State
  <2>10. QED
    BY <1>3, <1>8, <2>6, <2>8, <2>9 DEF Inv
<1>11. CASE /\ c = Token("done", sent) /\ reader = "close" /\ Len(chunks) = 1
            /\ over /\ sent = got
  <2>1. /\ got' = got /\ state' = [state EXCEPT !.answer = got]
        /\ emitting' = [token |-> Token("done", got), then |-> "return"]
    BY <1>4, <1>11 DEF Relay, Emit, Token
  <2>2. chunks' \in Seq(Chunk) /\ 1 .. Len(chunks') = {} /\ Len(chunks') = 0
    BY <1>4, <1>11
  <2>3. Flow'
    BY <1>1, <1>4, <1>11, <2>1, <2>2 DEF Flow, Counts
  <2>4. States' /\ state'.answer = got
    BY <1>4, <2>1 DEF Inv, States, State
  <2>5. Emitting'
    BY <1>1, <1>5, <1>9, <1>11, <2>1, <2>4 DEF Emitting
  <2>6. Caller'
    BY <1>1, <1>7, <2>5 DEF Inv, Caller
  <2>7. QED
    BY <1>3, <1>8, <2>3, <2>4, <2>6 DEF Inv
<1>12. CASE c = Token("error", 0) /\ reader = "close" /\ Len(chunks) = 1
  <2>1. /\ got' = got /\ state' = [state EXCEPT !.answer = got]
        /\ emitting' = [token |-> Token("error", 0), then |-> "fail"]
    <3>1. c.kind = "error"
      BY <1>12 DEF Token
    <3>2. UNCHANGED got /\ state' = [state EXCEPT !.answer = got] /\ Emit(c, "fail")
      BY <3>1 DEF Relay
    <3>3. QED
      BY <1>12, <3>2 DEF Emit
  <2>2. chunks' \in Seq(Chunk) /\ 1 .. Len(chunks') = {} /\ Len(chunks') = 0
    BY <1>4, <1>12
  <2>3. Flow'
    BY <1>1, <1>4, <1>12, <2>1, <2>2 DEF Flow, Counts
  <2>4. States'
    BY <1>4, <2>1 DEF Inv, States, State
  <2>5. Emitting'
    BY <1>5, <1>9, <2>1 DEF Emitting
  <2>6. Caller'
    BY <1>1, <1>7, <2>5 DEF Inv, Caller
  <2>7. QED
    BY <1>3, <1>8, <2>3, <2>4, <2>6 DEF Inv
<1>13. QED
  BY <1>4, <1>6, <1>10, <1>11, <1>12 DEF Numbered

\* The step ends in an error: what was sent stays in order and incomplete.
LEMMA BreakingSteps ==
  ASSUME Inv, RelayBroken \/ EmitCancelled
  PROVE  Inv'
<1>1. /\ UNCHANGED <<req, chain, step, ctx, state, switches, outcome, reader, held, sent, over,
                     chunks, got, tokens, unread>>
      /\ pc \in {"relay", "emit"} /\ pc' = "failed"
  BY DEF RelayBroken, EmitCancelled, streamVars
<1>2. Route' /\ Once' /\ Ingestion' /\ OkIsDone' /\ Beginning'
  BY <1>1, OnTheWay DEF Running
<1>3. States' /\ Flow'
  BY <1>1 DEF Inv, States, State, Flow, Counts, Holding, Numbered
<1>4. Caller' /\ TokensInOrder' /\ CompleteIsComplete'
  BY <1>1 DEF Inv, Caller, TokensInOrder, CompleteIsComplete, Lead
<1>5. QED
  BY <1>2, <1>3, <1>4 DEF Inv

LEMMA ReadTokenSteps ==
  ASSUME Inv, ReadToken
  PROVE  Inv'
<1>1. /\ UNCHANGED <<chainVars, reader, held, sent, over, chunks, got, emitting, tokens>>
      /\ unread > 0 /\ unread' = unread - 1
  BY DEF ReadToken
<1> USE DEF chainVars
<1>2. States' /\ Ingestion' /\ OkIsDone' /\ Flow'
  BY <1>1 DEF Inv, States, State, Ingestion, OkIsDone, Flow, Counts, Holding, Numbered
<1>3. Route' /\ Once'
  BY <1>1 DEF Inv, Route, Once, Running
<1>4. Beginning'
  BY <1>1 DEF Inv, Beginning, StreamIdle
<1>5. pc = "emit" => Emitting'
  BY <1>1 DEF Inv, Caller, Emitting, OnlyTexts, Lead
<1>6. unread' \in 0 .. StreamCap
  BY <1>1 DEF Inv, Caller
<1>7. Caller' /\ TokensInOrder' /\ CompleteIsComplete'
  BY <1>1, <1>5, <1>6 DEF Inv, Caller, OnlyTexts, TokensInOrder, CompleteIsComplete, Lead
<1>8. QED
  BY <1>2, <1>3, <1>4, <1>7 DEF Inv

\* The token that was ready reaches the caller.
LEMMA EmitTokenSteps ==
  ASSUME Inv, EmitToken
  PROVE  Inv'
<1> DEFINE n == Len(tokens)
<1>1. /\ UNCHANGED <<req, chain, ctx, state, switches, outcome, reader, held, sent, over,
                     chunks, got>>
      /\ pc = "emit" /\ tokens' = Append(tokens, emitting.token)
      /\ unread < StreamCap /\ unread' = unread + 1
      /\ AfterEmit
  BY DEF EmitToken
<1>2. /\ Running /\ Emitting /\ tokens \in Seq(TokenSet) /\ unread \in 0 .. StreamCap
      /\ Chains[chain][step] \in {"answer", "simple-answer"}
      /\ chain \in DOMAIN Chains /\ step \in 1 .. Len(Chains[chain])
      /\ Len(Chains[chain]) \in Nat \ {0}
  BY <1>1, Here DEF Inv, Caller, Route, Running
<1>3. step = Len(Chains[chain]) /\ chain # "ingest"
  BY <1>2, ChainFacts
<1>4. /\ n \in Nat /\ Len(tokens') = n + 1 /\ tokens'[n + 1] = emitting.token
      /\ \A i \in 1 .. n : tokens'[i] = tokens[i]
  BY <1>1, <1>2
<1>5. /\ sent \in 0 .. MaxDeltas /\ got \in 0 .. sent /\ sent \in Nat /\ got \in Nat
      /\ state.sources \in Nat /\ state.answer \in Nat /\ State(state)
  BY DEF Inv, Flow, Counts, States
<1>6. States' /\ Flow' /\ unread' \in 0 .. StreamCap
  BY <1>1, <1>2 DEF Inv, States, State, Flow, Counts, Holding, Numbered
<1>7. ASSUME tokens' \in Seq(TokenSet), Caller', TokensInOrder', CompleteIsComplete',
             \/ pc' = "relay" /\ UNCHANGED step
             \/ pc' = "step" /\ step' = step + 1
             \/ pc' = "failed" /\ UNCHANGED step
      PROVE  Inv'
  <2>1. CASE UNCHANGED step
    <3>1. Running' /\ pc' \notin {"step", "run", "succeeded"}
      BY <1>3, <1>2, <1>7, <2>1 DEF Running
    <3>2. Route' /\ Once' /\ Ingestion' /\ OkIsDone' /\ Beginning'
      BY <1>1, <1>2, <2>1, <3>1, OnTheWay
    <3>3. QED
      BY <1>6, <1>7, <3>2 DEF Inv
  <2>2. CASE pc' = "step" /\ step' = step + 1
    <3>1. step' = Len(Chains[chain']) + 1 /\ step' \in 1 .. Len(Chains[chain']) + 1
      BY <1>1, <1>2, <1>3, <2>2
    <3>2. Route' /\ Once'
      BY <1>1, <1>2, <2>2, <3>1 DEF Inv, Route, Once, Running
    <3>3. Beginning'
      BY <1>1, <1>2, <2>2, <3>1 DEF Beginning
    <3>4. Ingestion' /\ OkIsDone'
      BY <1>1, <1>3, <2>2 DEF Inv, Ingestion, OkIsDone
    <3>5. QED
      BY <1>6, <1>7, <3>2, <3>3, <3>4 DEF Inv
  <2>3. QED
    BY <1>7, <2>1, <2>2
<1>8. ASSUME NEW m \in Nat, OnlyTexts(m)
      PROVE  /\ \A i \in 1 .. n : tokens[i].kind \notin {"done", "error"}
             /\ n = Lead + m /\ Lead \in {0, 1}
             /\ \A i \in 1 .. n : tokens[i].kind = "text" => tokens[i].text = i - Lead
             /\ \A i \in 1 .. n : tokens[i].kind = "sources" => i = 1
  BY <1>2, <1>8, SentKinds
\* A token after others changes nothing of what they are.
<1>9. ASSUME NEW m \in Nat, OnlyTexts(m), emitting.token \in TokenSet,
             emitting.token.kind # "sources",
             emitting.token.kind = "text" => emitting.token.text = m + 1
      PROVE  /\ Lead' = Lead /\ TokensInOrder'
             /\ \A i \in 1 .. Len(tokens') : tokens'[i].kind = "done" => i = n + 1
  <2>1. Lead' = Lead
    <3>1. CASE n = 0
      BY <1>1, <1>2, <1>4, <1>9, <3>1 DEF Lead
    <3>2. CASE n > 0
      BY <1>1, <1>2, <1>4, <3>2 DEF Lead
    <3>3. QED
      BY <1>4, <3>1, <3>2
  <2>2. \A i \in DOMAIN tokens' : i \in 1 .. n \/ i = n + 1
    BY <1>1, <1>2, <1>4
  <2>3. \A i \in 1 .. n : /\ tokens'[i].kind = "sources" => i = 1
                          /\ tokens'[i].kind = "text" => tokens'[i].text = i - Lead
                          /\ tokens'[i].kind \notin {"done", "error"}
    BY <1>4, <1>8, <1>9
  <2>4. /\ tokens'[n + 1].kind # "sources"
        /\ tokens'[n + 1].kind = "text" => tokens'[n + 1].text = n + 1 - Lead
    BY <1>4, <1>8, <1>9
  <2>5. TokensInOrder'
    <3>1. ASSUME NEW i \in DOMAIN tokens'
          PROVE  /\ tokens'[i].kind = "sources" => i = 1
                 /\ tokens'[i].kind = "text" => tokens'[i].text = i - Lead'
                 /\ tokens'[i].kind \in {"done", "error"} => i = Len(tokens')
      <4>1. CASE i \in 1 .. n
        BY <2>1, <2>3, <4>1
      <4>2. CASE i = n + 1
        <5>1. /\ tokens'[i].kind # "sources" /\ i = Len(tokens')
              /\ tokens'[i].kind = "text" => tokens'[i].text = n + 1 - Lead
          BY <1>4, <2>4, <4>2
        <5>2. n + 1 - Lead = i - Lead'
          BY <1>4, <1>8, <1>9, <2>1, <4>2
        <5>3. QED
          BY <5>1, <5>2
      <4>3. QED
        BY <2>2, <3>1, <4>1, <4>2
    <3>2. QED
      BY <3>1 DEF TokensInOrder
  <2>6. QED
    BY <1>1, <1>2, <1>4, <2>1, <2>2, <2>3, <2>5
<1>10. CASE /\ tokens = <<>> /\ got = 0 /\ req.streamer /\ reader # "off"
            /\ emitting = [token |-> Token("sources", state.sources), then |-> "relay"]
  <2>1. pc' = "relay" /\ UNCHANGED step
    BY <1>1, <1>10 DEF AfterEmit
  <2>2. /\ tokens' \in Seq(TokenSet) /\ Len(tokens') = 1 /\ DOMAIN tokens' = {1}
        /\ tokens'[1].kind = "sources"
    BY <1>1, <1>5, <1>10 DEF Token, TokenSet
  <2>3. Lead' = 1
    BY <2>2 DEF Lead
  <2>4. OnlyTexts(got)'
    BY <1>1, <1>10, <2>2, <2>3 DEF OnlyTexts
  <2>5. Caller' /\ TokensInOrder' /\ CompleteIsComplete'
    BY <1>1, <1>6, <1>10, <2>1, <2>2, <2>4 DEF Caller, TokensInOrder, CompleteIsComplete
  <2>6. QED
    BY <1>7, <2>1, <2>2, <2>5
<1>11. CASE /\ got > 0 /\ OnlyTexts(got - 1) /\ req.streamer /\ reader # "off"
            /\ emitting = [token |-> Token("text", got), then |-> "relay"]
  <2>1. pc' = "relay" /\ UNCHANGED step
    BY <1>1, <1>11 DEF AfterEmit
  <2>2. /\ emitting.token \in TokenSet /\ emitting.token.kind = "text"
        /\ emitting.token.text = got /\ got - 1 \in Nat /\ emitting.token = Token("text", got)
    BY <1>5, <1>11 DEF Token, TokenSet
  <2>3. /\ Lead' = Lead /\ TokensInOrder'
        /\ \A i \in 1 .. Len(tokens') : tokens'[i].kind = "done" => i = n + 1
    BY <1>5, <1>9, <1>11, <2>2
  <2>4. tokens' \in Seq(TokenSet) /\ \A i \in 1 .. Len(tokens') : tokens'[i].kind # "done"
    BY <1>1, <1>2, <1>4, <2>2, <2>3
  <2>5. n = Lead + (got - 1) /\ Lead \in {0, 1}
    BY <1>8, <1>11, <2>2
  <2>6. OnlyTexts(got)'
    <3>1. \A i \in 1 .. n : i > Lead => tokens'[i] = Token("text", i - Lead)
      BY <1>4, <1>11 DEF OnlyTexts
    <3>2. tokens'[n + 1] = Token("text", n + 1 - Lead)
      BY <1>4, <1>5, <2>2, <2>5
    <3>3. \A i \in 1 .. Len(tokens') : i > Lead' => tokens'[i] = Token("text", i - Lead')
      <4> SUFFICES ASSUME NEW i \in 1 .. Len(tokens'), i > Lead'
                   PROVE  tokens'[i] = Token("text", i - Lead')
        OBVIOUS
      <4>1. Lead' = Lead /\ (i \in 1 .. n \/ i = n + 1)
        BY <1>4, <2>3
      <4>2. CASE i \in 1 .. n
        BY <3>1, <4>1, <4>2
      <4>3. CASE i = n + 1
        <5>1. tokens'[i] = Token("text", n + 1 - Lead)
          BY <3>2, <4>3
        <5>2. n + 1 - Lead = i - Lead'
          BY <1>4, <2>5, <4>1, <4>3
        <5>3. QED
          BY <5>1, <5>2
      <4>4. QED
        BY <4>1, <4>2, <4>3
    <3>4. Len(tokens') = Lead' + got'
      BY <1>1, <1>4, <1>5, <2>3, <2>5
    <3>5. QED
      BY <3>3, <3>4 DEF OnlyTexts
  <2>7. Caller' /\ CompleteIsComplete'
    BY <1>1, <1>6, <1>11, <2>1, <2>4, <2>6 DEF Caller, CompleteIsComplete
  <2>8. QED
    BY <1>7, <2>1, <2>3, <2>4, <2>7
<1>12. CASE /\ OnlyTexts(got) /\ over /\ got = sent /\ state.answer = sent /\ reader = "close"
            /\ emitting = [token |-> Token("done", got), then |-> "return"]
  <2>1. pc' = "step" /\ step' = step + 1
    BY <1>1, <1>12 DEF AfterEmit, Proceed
  <2>2. /\ emitting.token \in TokenSet /\ emitting.token.kind = "done"
        /\ emitting.token.text = got
    BY <1>5, <1>12 DEF Token, TokenSet
  <2>3. /\ Lead' = Lead /\ TokensInOrder'
        /\ \A i \in 1 .. Len(tokens') : tokens'[i].kind = "done" => i = n + 1
    BY <1>5, <1>9, <1>12, <2>2
  <2>4. tokens' \in Seq(TokenSet) /\ DOMAIN tokens' = 1 .. Len(tokens')
    BY <1>1, <1>2, <2>2
  <2>5. n = Lead + got
    BY <1>5, <1>8, <1>12
  <2>6. CompleteIsComplete'
    BY <1>1, <1>4, <1>5, <1>12, <2>2, <2>3, <2>4, <2>5 DEF CompleteIsComplete
  <2>7. Caller'
    BY <1>1, <1>6, <1>12, <2>1, <2>4 DEF Caller
  <2>8. QED
    BY <1>7, <2>1, <2>3, <2>4, <2>6, <2>7
<1>13. CASE /\ OnlyTexts(got)
            /\ emitting = [token |-> Token("error", 0), then |-> "fail"]
  <2>1. pc' = "failed" /\ UNCHANGED step
    BY <1>1, <1>13 DEF AfterEmit
  <2>2. emitting.token \in TokenSet /\ emitting.token.kind = "error"
    BY <1>13 DEF Token, TokenSet
  <2>3. /\ Lead' = Lead /\ TokensInOrder'
        /\ \A i \in 1 .. Len(tokens') : tokens'[i].kind = "done" => i = n + 1
    BY <1>5, <1>9, <1>13, <2>2
  <2>4. /\ tokens' \in Seq(TokenSet) /\ DOMAIN tokens' = 1 .. Len(tokens')
        /\ \A i \in 1 .. Len(tokens') : tokens'[i].kind # "done"
    BY <1>1, <1>2, <1>4, <2>2, <2>3
  <2>5. Caller' /\ CompleteIsComplete'
    BY <1>6, <2>1, <2>4 DEF Caller, CompleteIsComplete
  <2>6. QED
    BY <1>7, <2>1, <2>3, <2>4, <2>5
<1>14. CASE /\ ~req.streamer /\ tokens = <<>>
            /\ emitting = [token |-> Token("done", state.answer), then |-> "return"]
  <2>1. pc' = "step" /\ step' = step + 1
    BY <1>1, <1>14 DEF AfterEmit, Proceed
  <2>2. /\ tokens' \in Seq(TokenSet) /\ Len(tokens') = 1 /\ DOMAIN tokens' = {1}
        /\ tokens'[1].kind = "done"
    BY <1>1, <1>5, <1>14 DEF Token, TokenSet
  <2>3. TokensInOrder'
    BY <2>2 DEF TokensInOrder
  <2>4. Caller' /\ CompleteIsComplete'
    BY <1>1, <1>6, <1>14, <2>1, <2>2 DEF Caller, CompleteIsComplete
  <2>5. QED
    BY <1>7, <2>1, <2>2, <2>3, <2>4
<1>15. QED
  BY <1>2, <1>10, <1>11, <1>12, <1>13, <1>14 DEF Emitting

-----------------------------------------------------------------------------
(* Every step.                                                              *)

LEMMA EveryStep == Inv /\ [Next]_vars => Inv'
<1> SUFFICES ASSUME Inv, [Next]_vars PROVE Inv'
  OBVIOUS
<1>1. CASE Begin
  BY <1>1, BeginSteps
<1>2. CASE Cancel \/ Respond \/ Finish
  BY <1>2, HandlerSteps
<1>3. CASE PlainStep
  BY <1>3, PlainSteps
<1>4. CASE AnswerFallback
  BY <1>4, AnswerFallbackSteps
<1>5. CASE StartStream
  BY <1>5, StartStreamSteps
<1>6. CASE Relay
  BY <1>6, RelaySteps
<1>7. CASE RelayBroken \/ EmitCancelled
  BY <1>7, BreakingSteps
<1>8. CASE EmitToken
  BY <1>8, EmitTokenSteps
<1>9. CASE ReadSSE
  BY <1>9, ReaderSteps
<1>10. CASE ReadToken
  BY <1>10, ReadTokenSteps
<1>11. CASE UNCHANGED vars
  <2> USE <1>11 DEF vars, chainVars, streamVars
  <2>1. States' /\ Route' /\ Once' /\ Ingestion' /\ OkIsDone'
    <3>1. States' /\ Ingestion' /\ OkIsDone'
      BY DEF Inv, States, State, Ingestion, OkIsDone
    <3>2. Route' /\ Once'
      BY DEF Inv, Route, Once, Running
    <3>3. QED
      BY <3>1, <3>2
  <2>2. Flow' /\ Beginning'
    BY DEF Inv, Flow, Counts, Holding, Numbered, Beginning, StreamIdle
  <2>3. Caller' /\ TokensInOrder' /\ CompleteIsComplete'
    BY DEF Inv, Caller, Emitting, OnlyTexts, Lead, TokensInOrder, CompleteIsComplete
  <2>4. QED
    BY <2>1, <2>2, <2>3 DEF Inv
<1>12. QED
  BY <1>1, <1>2, <1>3, <1>4, <1>5, <1>6, <1>7, <1>8, <1>9, <1>10, <1>11
     DEF Next, Executor, PlainStep

LEMMA Invariance == Spec => []Inv
BY Initially, EveryStep, PTL DEF Spec

-----------------------------------------------------------------------------
(* The theorems.                                                            *)

\* Whatever the model, its reader and the caller do, and in whatever order, the
\* caller is sent the sources, then every delta once and in order, then at most
\* one last token: runStreaming (llm_steps.go) and readSSE (client.go).
THEOREM TokensComeInOrder == Spec => []TokensInOrder
<1>1. Inv => TokensInOrder
  BY DEF Inv
<1>2. QED
  BY <1>1, Invariance, PTL

\* No interrupted answer is ever presented as a complete one: readSSE sends its
\* final chunk only after the model's end, and nothing of the answer is missing
\* when runStreaming passes it on.
THEOREM FinalIsComplete == Spec => []CompleteIsComplete
<1>1. Inv => CompleteIsComplete
  BY DEF Inv
<1>2. QED
  BY <1>1, Invariance, PTL

\* The handlers report success only for an answer, or for an ingestion whose
\* page is written and in the index.
THEOREM OkMeansDone == Spec => []OkIsDone
<1>1. Inv => OkIsDone
  BY DEF Inv
<1>2. QED
  BY <1>1, Invariance, PTL

\* Type correctness; runChain does not count the changes of chain, and the
\* registered chains still allow only one.
THEOREM ChainTypes == Spec => []ChainTypeOK
<1>1. Inv => ChainTypeOK
  <2> SUFFICES ASSUME Inv PROVE ChainTypeOK
    OBVIOUS
  <2>2. chain # None => step \in 1 .. Len(Chains[chain]) + 1
    BY DEF Inv, Route
  <2>3. sent \in 0 .. MaxDeltas /\ got \in 0 .. MaxDeltas /\ over \in BOOLEAN
        /\ Len(chunks) <= ChunkCap
    BY DEF Inv, Flow, Counts
  <2>4. QED
    <3>1. /\ req \in Requests \cup {None} /\ chain \in DOMAIN Chains \cup {None}
          /\ pc \in {"idle", "step", "run", "relay", "emit", "failed", "succeeded", "answered"}
          /\ ctx \in {"live", "done"}
          /\ outcome \in {None, "bad request", "no cloud", "failed", "empty", "ok"}
      BY DEF Inv, Route
    <3>2. /\ state.sources \in 0 .. MaxSources /\ state.answer \in 0 .. MaxDeltas
          /\ switches \in 0 .. 1
      BY DEF Inv, States, Once
    <3>3. reader \in {"off", "scan", "complete", "send", "close"} /\ unread <= StreamCap
      BY DEF Inv, Flow, Caller
    <3>4. QED
      BY <2>2, <2>3, <3>1, <3>2, <3>3 DEF ChainTypeOK
<1>2. QED
  BY <1>1, Invariance, PTL

================================================================================
