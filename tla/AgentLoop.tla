------------------------------- MODULE AgentLoop -------------------------------
(***************************************************************************)
(* The agent's main loop, go-agent/internal/core/agent.go, on top of the   *)
(* session manager: channel.Manager.Run (channel/manager.go:66-141) starts *)
(* one goroutine per message, and every goroutine runs                     *)
(* handleMessageContext.  Handlers of the same user run concurrently.      *)
(*                                                                         *)
(* A message is a number; of two messages of one user the smaller was sent *)
(* first.  The question and the answer of message m both carry the text m. *)
(***************************************************************************)
EXTENDS SessionManager

CONSTANTS
  UserOf,        \* the key (channel and user) every message comes from
  Patient        \* the users who wait for the reply before they send again,
                 \* and whose sessions do not time out meanwhile

Msgs == Texts

ASSUME LoopAssumption ==
  /\ Msgs \subseteq Nat
  /\ UserOf \in [Msgs -> Keys]
  /\ Patient \subseteq Keys
  /\ Histories = {[messages |-> <<>>, rounds |-> 0]}

\* What "patient" means for time; what it means for sending is in Dispatch.
ASSUME PatientAssumption == \A s \in MayIdle : KeyOf[s] \notin Patient

VARIABLES
  pc,            \* where the handler of each message is
  sess,          \* its local variable session
  attempt,       \* 1, or 2 once the round limit made it look up again
  context,       \* the conversation_history its chain is given
  outcome,       \* what the user was sent (for properties)
  loop           \* channel.Manager.Run: running, exited

handlerVars == <<pc, sess, attempt, context, outcome>>
loopVars == <<vars, handlerVars, loop>>

FreshHistory == [messages |-> <<>>, rounds |-> 0]
Question(m) == [role |-> "user", text |-> m]
Answer(m) == [role |-> "assistant", text |-> m]

Goto(m, label) == pc' = [pc EXCEPT ![m] = label]

\* The manager changes, the handler only moves on.
Keep == UNCHANGED <<context, outcome, loop>>

LoopInit ==
  /\ Init
  /\ pc = [m \in Msgs |-> "inbound"]
  /\ sess = [m \in Msgs |-> None]
  /\ attempt = [m \in Msgs |-> 1]
  /\ context = [m \in Msgs |-> <<>>]
  /\ outcome = [m \in Msgs |-> "none"]
  /\ loop = "running"

-----------------------------------------------------------------------------
(* channel.Manager.Run.                                                     *)

\* The fan-in delivers a user's messages in order; each gets a goroutine.
\* While the loop runs, select may take a message although ctx is done.
Dispatch(m) ==
  /\ pc[m] = "inbound"
  /\ loop = "running"
  /\ \A n \in Msgs : (n < m /\ UserOf[n] = UserOf[m]) =>
       IF UserOf[m] \in Patient THEN pc[n] = "done" ELSE pc[n] # "inbound"
  /\ Goto(m, "find")
  /\ UNCHANGED <<vars, sess, attempt, context, outcome, loop>>

LoopExit ==
  /\ loop = "running"
  /\ phase # "running"
  /\ loop' = "exited"
  /\ UNCHANGED <<vars, handlerVars>>

-----------------------------------------------------------------------------
(* handleMessageContext.                                                    *)

\* GetOrCreate, fast path under the read lock.
Find(m) ==
  LET k == UserOf[m] IN
  /\ pc[m] = "find"
  /\ IF CurrentActive(k)
       THEN sess' = [sess EXCEPT ![m] = current[k]] /\ Goto(m, "ask")
       ELSE UNCHANGED sess /\ Goto(m, "create")
  /\ UNCHANGED <<vars, attempt>> /\ Keep

\* GetOrCreate, slow path under the write lock.  The first time, an error is
\* only logged: the user gets no reply at all.
Create(m) ==
  LET k == UserOf[m] IN
  /\ pc[m] = "create"
  /\ \/ /\ CurrentActive(k)
        /\ sess' = [sess EXCEPT ![m] = current[k]]
        /\ Goto(m, "ask")
        /\ UNCHANGED <<vars, attempt>> /\ Keep
     \/ /\ \E s \in Sessions : Open(k, s, FreshHistory)
                               /\ sess' = [sess EXCEPT ![m] = s]
        /\ Goto(m, "ask")
        /\ UNCHANGED attempt /\ Keep
     \/ /\ Replaceable(k) /\ ~SlotFree
        /\ attempt[m] = 1
        /\ outcome' = [outcome EXCEPT ![m] = "dropped"]
        /\ Goto(m, "done")
        /\ UNCHANGED <<vars, sess, attempt, context, loop>>
     \/ /\ Replaceable(k) /\ ~SlotFree
        /\ attempt[m] = 2
        /\ Goto(m, "fail")
        /\ UNCHANGED <<vars, sess, attempt>> /\ Keep

\* A variant of Ask: what AddMessage returns is ignored.
AskUnchecked(m) ==
  /\ pc[m] = "ask"
  /\ IF Accepts(sess[m], "user")
       THEN AddMessage(sess[m], Question(m))
       ELSE UNCHANGED vars
  /\ Goto(m, "clone")
  /\ UNCHANGED <<sess, attempt>> /\ Keep

\* AddMessage of the question; refused, the session is ended and the lookup
\* made a second time, and refused again, the user is told of the failure.
Ask(m) ==
  /\ pc[m] = "ask"
  /\ \/ /\ AddMessage(sess[m], Question(m))
        /\ Goto(m, "clone")
     \/ /\ ~Accepts(sess[m], "user")
        /\ Goto(m, IF attempt[m] = 1 THEN "end" ELSE "fail")
        /\ UNCHANGED vars
  /\ UNCHANGED <<sess, attempt>> /\ Keep

\* EndSession of the refusing session, first half ...
EndRefusing(m) ==
  /\ pc[m] = "end"
  /\ \/ ClientEnd(sess[m]) /\ Goto(m, "post") /\ UNCHANGED attempt
     \/ /\ state[sess[m]] # "active"
        /\ attempt' = [attempt EXCEPT ![m] = @ + 1]
        /\ Goto(m, "find")
        /\ UNCHANGED vars
  /\ UNCHANGED sess /\ Keep

\* ... and second half.
PostRefusing(m) ==
  /\ pc[m] = "post"
  /\ ClientPost(sess[m])
  /\ attempt' = [attempt EXCEPT ![m] = @ + 1]
  /\ Goto(m, "find")
  /\ UNCHANGED sess /\ Keep

\* A variant of PriorHistory: the cloned history is passed on whole.
WholeHistory(h) == h

\* The cloned history without its last message.
PriorHistory(h) == SubSeq(h, 1, Len(h) - 1)

\* CloneSession: all but the last message become the chain's history.
Clone(m) ==
  /\ pc[m] = "clone"
  /\ context' = [context EXCEPT ![m] = PriorHistory(messages[sess[m]])]
  /\ Goto(m, "chain")
  /\ UNCHANGED <<vars, sess, attempt, outcome, loop>>

\* A variant of Chain: a failed chain is tried again from the lookup.
ChainRetried(m) ==
  /\ pc[m] = "chain"
  /\ \E label \in {"send", "find"} : Goto(m, label)
  /\ UNCHANGED <<vars, sess, attempt>> /\ Keep

\* The chain answers, or fails: error, timeout, cancellation, empty answer.
Chain(m) ==
  /\ pc[m] = "chain"
  /\ \E label \in {"send", "fail"} : Goto(m, label)
  /\ UNCHANGED <<vars, sess, attempt>> /\ Keep

\* Channel.Send of the answer; if that fails the handler returns.
Send(m) ==
  /\ pc[m] = "send"
  /\ \/ Goto(m, "record") /\ outcome' = [outcome EXCEPT ![m] = "answered"]
     \/ Goto(m, "done") /\ outcome' = [outcome EXCEPT ![m] = "unsent"]
  /\ UNCHANGED <<vars, sess, attempt, context, loop>>

\* AddMessage of the answer.  It is refused only when the session is no longer
\* active, and then the EndSession that follows returns at once.
Record(m) ==
  /\ pc[m] = "record"
  /\ \/ AddMessage(sess[m], Answer(m))
     \/ ~Accepts(sess[m], "assistant") /\ UNCHANGED vars
  /\ Goto(m, "done")
  /\ UNCHANGED <<sess, attempt>> /\ Keep

\* sendFailure.
Fail(m) ==
  /\ pc[m] = "fail"
  /\ outcome' = [outcome EXCEPT ![m] = "failed"]
  /\ Goto(m, "done")
  /\ UNCHANGED <<vars, sess, attempt, context, loop>>

Handler(m) ==
  \/ Find(m) \/ Create(m) \/ Ask(m) \/ EndRefusing(m) \/ PostRefusing(m)
  \/ Clone(m) \/ Chain(m) \/ Send(m) \/ Record(m) \/ Fail(m)

-----------------------------------------------------------------------------
(* Agent.Run.                                                               *)

\* A variant of HandlersGone: Manager.Run returns without handlers.Wait().
HandlersForgotten == loop = "exited"

\* What Manager.Run waits for before it returns.
HandlersGone ==
  /\ loop = "exited"
  /\ \A m \in Msgs : pc[m] \in {"inbound", "done"}

AgentStop == HandlersGone /\ Stop /\ UNCHANGED <<handlerVars, loop>>

LoopNext ==
  \/ \E m \in Msgs : Dispatch(m) \/ Handler(m)
  \/ (Background \/ Cancel) /\ UNCHANGED <<handlerVars, loop>>
  \/ LoopExit
  \/ AgentStop

LoopSpec == LoopInit /\ [][LoopNext]_loopVars

(***************************************************************************)
(* Fairness: every goroutine that can run does; the chain has a timeout    *)
(* (agent.go:130).  Once the context is cancelled the two select loops     *)
(* take the Done case sooner or later.                                     *)
(***************************************************************************)
LoopFairness ==
  /\ \A m \in Msgs : WF_loopVars(Handler(m))
  /\ WF_loopVars(Consumer /\ UNCHANGED <<handlerVars, loop>>)
  /\ SF_loopVars(ConsumerExit /\ UNCHANGED <<handlerVars, loop>>)
  /\ WF_loopVars(Scanner /\ UNCHANGED <<handlerVars, loop>>)
  /\ WF_loopVars(LoopExit) /\ WF_loopVars(AgentStop)

LoopFairSpec == LoopSpec /\ LoopFairness

-----------------------------------------------------------------------------
(* Properties.                                                              *)

Labels == {"inbound", "find", "create", "ask", "end", "post", "clone", "chain",
           "send", "record", "fail", "done"}

\* The type of every variable.
LoopTypeOK ==
  /\ TypeOK
  /\ pc \in [Msgs -> Labels]
  /\ sess \in [Msgs -> Sessions \cup {None}]
  /\ attempt \in [Msgs -> {1, 2}]
  /\ context \in [Msgs -> Seq(Message)]
  /\ outcome \in [Msgs -> {"none", "answered", "unsent", "failed", "dropped"}]
  /\ loop \in {"running", "exited"}

\* Whatever handlers of one user interleave, time out and roll over, an answer
\* only stands in a session behind its own question (agent.go:93-169: question
\* and answer go to the same session, also after the second lookup).
AnswersFollowQuestions ==
  \A s \in Sessions : \A j \in DOMAIN messages[s] :
    messages[s][j].role = "assistant" =>
      \E i \in 1 .. j - 1 : messages[s][i] = Question(messages[s][j].text)

\* The retry after a refused question records it once in all: no question
\* stands twice in a session or in two sessions (agent.go:99-111).
QuestionRecordedOnce ==
  \A s, t \in Sessions :
    \A i \in DOMAIN messages[s], j \in DOMAIN messages[t] :
      (messages[s][i].role = "user" /\ messages[s][i] = messages[t][j])
        => (s = t /\ i = j)

\* When Agent.Run has stopped the session manager no conversation is active
\* and none is mapped: no handler was still running that could open one
\* (handlers.Wait, manager.go:82-85; agent.go:69-74).
NothingActiveAfterStop ==
  phase = "stopped" => Active = {} /\ \A k \in Keys : current[k] = None

\* An answer a user received is kept in the session next to its question:
\* "the last permitted user message and its answer must be kept completely"
\* (session.go:223).
AnswerKept(m) ==
  (pc[m] = "done" /\ outcome[m] = "answered") =>
    \E i \in DOMAIN messages[sess[m]] : messages[sess[m]][i] = Answer(m)

LastAnswerKept == \A m \in Msgs : AnswerKept(m)

\* It holds of the users who wait for the reply before they send again and
\* whose sessions do not time out meanwhile.
PatientAnswersKept == \A m \in Msgs : UserOf[m] \in Patient => AnswerKept(m)

\* The history a chain is given does not hold the question it is asked, which
\* the prompt adds itself (agent.go:126, llm_steps.go:199-211), when the user
\* waits for each reply.
QuestionAskedOnce ==
  \A m \in Msgs : UserOf[m] \in Patient =>
    \A i \in DOMAIN context[m] : context[m][i] # Question(m)

\* When the agent has stopped, no ended session is left waiting: "the memory
\* module receives this session from EndChan and processes it"
\* (session.go:247-248).
EndedIsProcessed ==
  phase = "stopped" => endCh = <<>> /\ overflow = {} /\ sending = {}

(***************************************************************************)
(* The inductive invariant behind the safety properties, in parts; with    *)
(* SafetyInv of the session manager underneath.                            *)
(***************************************************************************)

Unasked == {"inbound", "find", "create", "ask", "end", "post"}
Holding == {"ask", "end", "post", "clone", "chain", "send", "record"}

\* A handler past the lookup holds a session that was allocated, and it looks
\* up at most twice.
HandlersHold ==
  \A m \in Msgs :
    /\ pc[m] \in Holding => sess[m] \in Sessions /\ state[sess[m]] # "unused"
    /\ pc[m] \in {"end", "post"} => attempt[m] = 1

\* Before the question is recorded it stands nowhere ...
NotAskedYet ==
  \A m \in Msgs : pc[m] \in Unasked =>
    \A s \in Sessions : \A i \in DOMAIN messages[s] : messages[s][i] # Question(m)

\* ... and after it, in the session the handler holds.
QuestionStands ==
  \A m \in Msgs : pc[m] \in Holding \ Unasked =>
    \E i \in DOMAIN messages[sess[m]] : messages[sess[m]][i] = Question(m)

\* Stop comes after the last handler.
StoppedInv == NothingActiveAfterStop /\ (phase = "stopped" => HandlersGone)

LoopInv ==
  /\ LoopTypeOK
  /\ HandlersHold
  /\ NotAskedYet
  /\ QuestionStands
  /\ AnswersFollowQuestions
  /\ QuestionRecordedOnce
  /\ StoppedInv

\* A handler that started returns, whatever the limits, the queue of ended
\* sessions and a shutdown do.
HandlersReturn == \A m \in Msgs : pc[m] = "find" ~> pc[m] = "done"

\* A shutdown completes: Run's three waits (fan-in and handlers, consumer)
\* never wait for each other.
ShutdownCompletes == phase = "cancelled" ~> phase = "stopped"

================================================================================
