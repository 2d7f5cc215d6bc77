---------------------------- MODULE AgentLoopProofs ----------------------------
(***************************************************************************)
(* Theorems about AgentLoop, for every set of users and messages and every *)
(* limit: the agent's handlers are clients the session manager allows, so  *)
(* what is proved of the manager holds of the agent, questions and answers *)
(* stand where they belong, and a user who waits keeps every answer.       *)
(***************************************************************************)
EXTENDS AgentLoop, SessionManagerProofs

USE LoopAssumption

-----------------------------------------------------------------------------
(* What the manager's two additions do to the recorded messages.            *)

\* A question and an answer are messages.
LEMMA MessageTypes ==
  ASSUME NEW m \in Msgs
  PROVE  Question(m) \in Message /\ Answer(m) \in Message
BY DEF Question, Answer, Message, Roles, Msgs

\* AddMessage puts e behind everything session s holds and touches no other.
LEMMA Added ==
  ASSUME TypeOK, NEW s \in Sessions, NEW e \in Message, AddMessage(s, e)
  PROVE  /\ \A t \in Sessions \ {s} : messages'[t] = messages[t]
         /\ DOMAIN messages'[s] = DOMAIN messages[s] \cup {Len(messages[s]) + 1}
         /\ \A i \in DOMAIN messages[s] :
              i < Len(messages[s]) + 1 /\ messages'[s][i] = messages[s][i]
         /\ Len(messages[s]) + 1 \notin DOMAIN messages[s]
         /\ messages'[s][Len(messages[s]) + 1] = e
         /\ UNCHANGED state
<1>1. messages[s] \in Seq(Message) /\ messages'[s] = Append(messages[s], e)
  BY DEF AddMessage, TypeOK
<1>2. \A t \in Sessions \ {s} : messages'[t] = messages[t]
  BY DEF AddMessage, TypeOK
<1>3. QED
  BY <1>1, <1>2 DEF AddMessage

\* GetOrCreate starts a session without messages.
LEMMA OpenedFresh ==
  ASSUME TypeOK, NEW k \in Keys, NEW s \in Sessions, Open(k, s, FreshHistory)
  PROVE  /\ \A t \in Sessions \ {s} : messages'[t] = messages[t] /\ state'[t] = state[t]
         /\ messages'[s] = <<>> /\ DOMAIN messages'[s] = {}
         /\ state[s] = "unused" /\ state'[s] = "active"
BY DEF Open, TypeOK, FreshHistory

-----------------------------------------------------------------------------
(* The agent's steps are the manager's.                                     *)

\* Every step of the agent is a step of the session manager with some client,
\* or changes nothing of it.
LEMMA LoopStep ==
  ASSUME LoopTypeOK, HandlersHold, [LoopNext]_loopVars
  PROVE  [Next]_vars
<1>1. ASSUME NEW m \in Msgs, Dispatch(m) PROVE UNCHANGED vars
  BY <1>1 DEF Dispatch
<1>2. ASSUME NEW m \in Msgs, Handler(m) PROVE [Next]_vars
  <2>1. CASE Find(m) \/ Clone(m) \/ Chain(m) \/ Send(m) \/ Fail(m)
    BY <2>1 DEF Find, Clone, Chain, Send, Fail
  <2>2. CASE Create(m)
    <3>1. UserOf[m] \in Keys /\ FreshHistory \in Histories
      BY DEF FreshHistory
    <3>2. QED
      BY <2>2, <3>1 DEF Create, Next, Client
  <2>3. CASE Ask(m)
    <3>1. sess[m] \in Sessions
      BY <2>3 DEF Ask, HandlersHold, Holding
    <3>2. QED
      BY <2>3, <3>1, MessageTypes DEF Ask, Next, Client, ClientAdd
  <2>4. CASE EndRefusing(m) \/ PostRefusing(m)
    <3>1. sess[m] \in Sessions
      BY <2>4 DEF EndRefusing, PostRefusing, HandlersHold, Holding
    <3>2. QED
      BY <2>4, <3>1 DEF EndRefusing, PostRefusing, Next, Client
  <2>5. CASE Record(m)
    <3>1. sess[m] \in Sessions
      BY <2>5 DEF Record, HandlersHold, Holding
    <3>2. QED
      BY <2>5, <3>1, MessageTypes DEF Record, Next, Client, ClientAdd
  <2>6. QED
    BY <1>2, <2>1, <2>2, <2>3, <2>4, <2>5 DEF Handler
<1>3. CASE (Background \/ Cancel) /\ UNCHANGED <<handlerVars, loop>>
  BY <1>3 DEF Next
<1>4. CASE LoopExit
  BY <1>4 DEF LoopExit
<1>5. CASE AgentStop
  BY <1>5 DEF AgentStop, Next
<1>6. CASE UNCHANGED loopVars
  BY <1>6 DEF loopVars
<1>7. QED
  BY <1>1, <1>2, <1>3, <1>4, <1>5, <1>6 DEF LoopNext

\* The handlers' variables keep their types.
LEMMA LoopTypeInductive ==
  ASSUME LoopTypeOK, HandlersHold, [LoopNext]_loopVars
  PROVE  LoopTypeOK'
<1>1. TypeOK'
  BY LoopStep, TypeInductive DEF LoopTypeOK
<1> USE DEF LoopTypeOK
<1>2. ASSUME NEW m \in Msgs, Dispatch(m) PROVE LoopTypeOK'
  BY <1>1, <1>2 DEF Dispatch, Goto, Labels
<1>3. ASSUME NEW m \in Msgs, Find(m) PROVE LoopTypeOK'
  BY <1>1, <1>3 DEF Find, Goto, Keep, Labels, CurrentActive, TypeOK
<1>4. ASSUME NEW m \in Msgs, Create(m) PROVE LoopTypeOK'
  BY <1>1, <1>4 DEF Create, Goto, Keep, Labels, CurrentActive, TypeOK
<1>5. ASSUME NEW m \in Msgs, Ask(m) \/ Chain(m) \/ Record(m) PROVE LoopTypeOK'
  BY <1>1, <1>5 DEF Ask, Chain, Record, Goto, Keep, Labels
<1>6. ASSUME NEW m \in Msgs, EndRefusing(m) PROVE LoopTypeOK'
  BY <1>1, <1>6 DEF EndRefusing, Goto, Keep, Labels, HandlersHold
<1>7. ASSUME NEW m \in Msgs, PostRefusing(m) PROVE LoopTypeOK'
  BY <1>1, <1>7 DEF PostRefusing, Goto, Keep, Labels, HandlersHold
<1>8. ASSUME NEW m \in Msgs, Clone(m) PROVE LoopTypeOK'
  <2>1. sess[m] \in Sessions /\ messages[sess[m]] \in Seq(Message)
    BY <1>8 DEF Clone, HandlersHold, Holding, TypeOK
  <2>2. PriorHistory(messages[sess[m]]) \in Seq(Message)
    BY <2>1 DEF PriorHistory
  <2>3. QED
    BY <1>1, <1>8, <2>2 DEF Clone, Goto, Labels
<1>9. ASSUME NEW m \in Msgs, Send(m) \/ Fail(m) PROVE LoopTypeOK'
  BY <1>1, <1>9 DEF Send, Fail, Goto, Labels
<1>10. CASE LoopExit
  BY <1>1, <1>10 DEF LoopExit, handlerVars
<1>11. CASE UNCHANGED <<handlerVars, loop>>
  BY <1>1, <1>11 DEF handlerVars
<1>12. QED
  BY <1>2, <1>3, <1>4, <1>5, <1>6, <1>7, <1>8, <1>9, <1>10, <1>11
     DEF LoopNext, Handler, AgentStop, loopVars

-----------------------------------------------------------------------------
(* Handlers and the sessions they hold.                                     *)

\* No manager step makes an allocated session an unused one.
LEMMA StaysAllocated ==
  ASSUME TypeOK, [Next]_vars, NEW s \in Sessions, state[s] # "unused"
  PROVE  state'[s] # "unused"
<1>1. ASSUME NEW t \in Sessions, MarkEnding(t) PROVE state'[s] # "unused"
  BY <1>1 DEF MarkEnding, TypeOK
<1>2. CASE UNCHANGED state
  BY <1>2
<1>3. ASSUME NEW k \in Keys, NEW t \in Sessions, NEW h \in Histories, Open(k, t, h)
      PROVE state'[s] # "unused"
  BY <1>3 DEF Open, TypeOK
<1>4. CASE CloseState
  BY <1>4 DEF CloseState, TypeOK
<1>5. CASE Stop
  BY <1>5 DEF Stop
<1>6. CASE ScanEnd
  BY <1>1, <1>2, <1>6 DEF ScanEnd, TypeOK, sessionVars
<1>7. CASE Client
  BY <1>1, <1>2, <1>3, <1>7
     DEF Client, ClientAdd, ClientEnd, ClientPost, AddMessage, PostEnd, sessionVars
<1>8. CASE Receive \/ Sediment \/ Unmap \/ ConsumerExit \/ ScanStart \/ ScanCheck
           \/ ScanDone \/ ScanPost \/ ScanExit \/ Cancel \/ UNCHANGED vars
  BY <1>2, <1>8
     DEF Receive, Sediment, Unmap, ConsumerExit, ScanStart, ScanCheck, ScanDone,
         ScanPost, ScanExit, PostEnd, Cancel, vars, sessionVars
<1>9. CASE \E t \in Sessions : OverflowSend(t) \/ GoIdle(t)
  BY <1>2, <1>9 DEF OverflowSend, GoIdle, sessionVars
<1>10. QED
  BY <1>3, <1>4, <1>5, <1>6, <1>7, <1>8, <1>9
     DEF Next, Background, Consumer, Scanner

\* A handler keeps the session it looked up; a second refusal ends it.
LEMMA HandlersHoldInductive ==
  ASSUME LoopTypeOK, HandlersHold, [LoopNext]_loopVars
  PROVE  HandlersHold'
<1>1. \A s \in Sessions : state[s] # "unused" => state'[s] # "unused"
  BY LoopStep, StaysAllocated DEF LoopTypeOK
<1> USE DEF LoopTypeOK, HandlersHold, Holding
<1>2. ASSUME NEW m \in Msgs, Dispatch(m) PROVE HandlersHold'
  BY <1>1, <1>2 DEF Dispatch, Goto
<1>3. ASSUME NEW m \in Msgs, Find(m) PROVE HandlersHold'
  BY <1>1, <1>3 DEF Find, Goto, Keep, CurrentActive, TypeOK, vars, sessionVars
<1>4. ASSUME NEW m \in Msgs, Create(m) PROVE HandlersHold'
  <2>1. CASE CurrentActive(UserOf[m]) /\ sess' = [sess EXCEPT ![m] = current[UserOf[m]]]
    BY <1>1, <1>4, <2>1 DEF Create, Goto, Keep, CurrentActive, TypeOK
  <2>2. ASSUME NEW s \in Sessions, Open(UserOf[m], s, FreshHistory),
               sess' = [sess EXCEPT ![m] = s]
        PROVE  HandlersHold'
    <3>1. state'[s] = "active"
      BY <2>2, OpenedFresh
    <3>2. QED
      BY <1>1, <1>4, <2>2, <3>1 DEF Create, Goto, Keep
  <2>3. CASE pc' \in {[pc EXCEPT ![m] = "done"], [pc EXCEPT ![m] = "fail"]}
             /\ UNCHANGED <<vars, sess, attempt>>
    BY <1>1, <2>3
  <2>4. QED
    BY <1>4, <2>1, <2>2, <2>3 DEF Create, Goto
<1>5. ASSUME NEW m \in Msgs, Ask(m) PROVE HandlersHold'
  BY <1>1, <1>5 DEF Ask, Goto, Keep
<1>6. ASSUME NEW m \in Msgs, EndRefusing(m) \/ PostRefusing(m) PROVE HandlersHold'
  BY <1>1, <1>6 DEF EndRefusing, PostRefusing, Goto, Keep
<1>7. ASSUME NEW m \in Msgs, Clone(m) \/ Chain(m) \/ Send(m) \/ Record(m) \/ Fail(m)
      PROVE HandlersHold'
  BY <1>1, <1>7 DEF Clone, Chain, Send, Record, Fail, Goto, Keep
<1>8. CASE UNCHANGED handlerVars
  BY <1>1, <1>8 DEF handlerVars
<1>9. QED
  BY <1>2, <1>3, <1>4, <1>5, <1>6, <1>7, <1>8
     DEF LoopNext, Handler, AgentStop, LoopExit, loopVars

-----------------------------------------------------------------------------
(* Where questions and answers stand.                                       *)

\* The parts of LoopInv about recorded messages.
MessagesInv ==
  /\ NotAskedYet
  /\ QuestionStands
  /\ AnswersFollowQuestions
  /\ QuestionRecordedOnce

\* A step that records nothing, and takes no handler back before its question
\* or past it.
LEMMA NothingRecorded ==
  ASSUME LoopTypeOK, MessagesInv, UNCHANGED messages,
         \A m \in Msgs :
           /\ pc'[m] \in Unasked => pc[m] \in Unasked
           /\ pc'[m] \in Holding \ Unasked =>
                pc[m] \in Holding \ Unasked /\ sess'[m] = sess[m]
  PROVE  MessagesInv'
<1>1. NotAskedYet'
  BY DEF MessagesInv, NotAskedYet
<1>2. QuestionStands'
  BY DEF MessagesInv, QuestionStands
<1>3. AnswersFollowQuestions'
  BY DEF MessagesInv, AnswersFollowQuestions
<1>4. QuestionRecordedOnce'
  BY DEF MessagesInv, QuestionRecordedOnce
<1>5. QED
  BY <1>1, <1>2, <1>3, <1>4 DEF MessagesInv

\* The goroutines of the manager record nothing.
LEMMA BackgroundRecordsNothing ==
  ASSUME Background \/ Cancel \/ Stop
  PROVE  UNCHANGED messages
BY DEF Background, Consumer, Receive, Sediment, CloseState, Unmap, ConsumerExit,
       Scanner, ScanStart, ScanCheck, ScanDone, ScanEnd, ScanPost, ScanExit,
       MarkEnding, PostEnd, OverflowSend, GoIdle, Cancel, Stop, sessionVars

\* A new session holds nothing, and no handler past its question holds it.
LEMMA OpenKeepsMessages ==
  ASSUME LoopTypeOK, HandlersHold, MessagesInv, NEW m \in Msgs, NEW s \in Sessions,
         pc[m] = "create", Open(UserOf[m], s, FreshHistory),
         sess' = [sess EXCEPT ![m] = s], Goto(m, "ask")
  PROVE  MessagesInv'
<1>1. /\ \A t \in Sessions \ {s} : messages'[t] = messages[t]
      /\ DOMAIN messages'[s] = {} /\ state[s] = "unused"
  <2>1. TypeOK
    BY DEF LoopTypeOK
  <2>2. UserOf[m] \in Keys
    BY LoopAssumption
  <2>3. QED
    BY <2>1, <2>2, OpenedFresh
<1>2. \A n \in Msgs : pc'[n] \in Unasked => pc[n] \in Unasked
  BY DEF Goto, Unasked, LoopTypeOK
<1>3. \A n \in Msgs : pc'[n] \in Holding \ Unasked =>
        /\ pc[n] \in Holding \ Unasked /\ sess'[n] = sess[n]
        /\ sess[n] \in Sessions \ {s}
  BY <1>1 DEF Goto, Unasked, Holding, HandlersHold, LoopTypeOK
<1>4. NotAskedYet'
  BY <1>1, <1>2 DEF MessagesInv, NotAskedYet
<1>5. QuestionStands'
  <2> SUFFICES ASSUME NEW n \in Msgs, pc'[n] \in Holding \ Unasked
               PROVE  \E i \in DOMAIN messages'[sess'[n]] :
                        messages'[sess'[n]][i] = Question(n)
    BY DEF QuestionStands
  <2>1. messages'[sess'[n]] = messages[sess[n]]
    BY <1>1, <1>3
  <2>2. \E i \in DOMAIN messages[sess[n]] : messages[sess[n]][i] = Question(n)
    BY <1>3 DEF MessagesInv, QuestionStands
  <2>3. QED
    BY <2>1, <2>2
<1>6. AnswersFollowQuestions'
  BY <1>1 DEF MessagesInv, AnswersFollowQuestions
<1>7. QuestionRecordedOnce'
  BY <1>1 DEF MessagesInv, QuestionRecordedOnce
<1>8. QED
  BY <1>4, <1>5, <1>6, <1>7 DEF MessagesInv

\* The question goes behind what is there, and stood nowhere before.
LEMMA AskKeepsMessages ==
  ASSUME LoopTypeOK, HandlersHold, MessagesInv, NEW m \in Msgs,
         pc[m] = "ask", AddMessage(sess[m], Question(m)),
         Goto(m, "clone"), UNCHANGED sess
  PROVE  MessagesInv'
<1> DEFINE s == sess[m]
           last == Len(messages[s]) + 1
<1>1. s \in Sessions /\ Question(m) \in Message
  BY MessageTypes DEF HandlersHold, Holding
<1>2. /\ \A t \in Sessions \ {s} : messages'[t] = messages[t]
      /\ DOMAIN messages'[s] = DOMAIN messages[s] \cup {last}
      /\ \A i \in DOMAIN messages[s] : messages'[s][i] = messages[s][i]
      /\ messages'[s][last] = Question(m)
  BY <1>1, Added DEF LoopTypeOK
<1>3. /\ pc'[m] = "clone" /\ \A n \in Msgs \ {m} : pc'[n] = pc[n]
      /\ "clone" \notin Unasked /\ "ask" \in Unasked
  BY DEF Goto, LoopTypeOK, Unasked
<1>4. \A n \in Msgs \ {m} : Question(n) # Question(m)
  BY DEF Question
<1>5. \A t \in Sessions : \A i \in DOMAIN messages[t] : messages[t][i] # Question(m)
  BY <1>3 DEF MessagesInv, NotAskedYet
<1>6. NotAskedYet'
  BY <1>1, <1>2, <1>3, <1>4 DEF MessagesInv, NotAskedYet
<1>7. QuestionStands'
  <2>1. \E i \in DOMAIN messages'[s] : messages'[s][i] = Question(m)
    BY <1>2
  <2>2. ASSUME NEW n \in Msgs \ {m}, pc'[n] \in Holding \ Unasked
        PROVE  \E i \in DOMAIN messages'[sess[n]] : messages'[sess[n]][i] = Question(n)
    <3>1. sess[n] \in Sessions /\ pc[n] \in Holding \ Unasked
      BY <1>3, <2>2 DEF HandlersHold
    <3>2. PICK i \in DOMAIN messages[sess[n]] : messages[sess[n]][i] = Question(n)
      BY <3>1 DEF MessagesInv, QuestionStands
    <3>3. i \in DOMAIN messages'[sess[n]] /\ messages'[sess[n]][i] = Question(n)
      BY <1>2, <3>1, <3>2
    <3>4. QED
      BY <3>3
  <2>3. QED
    BY <2>1, <2>2 DEF QuestionStands
<1>8. AnswersFollowQuestions'
  <2> SUFFICES ASSUME NEW t \in Sessions, NEW j \in DOMAIN messages'[t],
                      messages'[t][j].role = "assistant"
               PROVE  \E i \in 1 .. j - 1 :
                        messages'[t][i] = Question(messages'[t][j].text)
    BY DEF AnswersFollowQuestions
  <2>1. j \in DOMAIN messages[t] /\ messages'[t][j] = messages[t][j]
    BY <1>2 DEF Question
  <2>2. PICK i \in 1 .. j - 1 : messages[t][i] = Question(messages[t][j].text)
    BY <2>1 DEF MessagesInv, AnswersFollowQuestions
  <2>3. i \in DOMAIN messages[t]
    BY <2>1, <2>2 DEF LoopTypeOK, TypeOK
  <2>4. messages'[t][i] = messages[t][i]
    BY <1>2, <2>3
  <2>5. QED
    BY <2>1, <2>2, <2>4
<1>9. QuestionRecordedOnce'
  BY <1>2, <1>5 DEF MessagesInv, QuestionRecordedOnce
<1>10. QED
  BY <1>6, <1>7, <1>8, <1>9 DEF MessagesInv

\* The answer goes behind its question, into the same session.
LEMMA RecordKeepsMessages ==
  ASSUME LoopTypeOK, HandlersHold, MessagesInv, NEW m \in Msgs,
         pc[m] = "record", AddMessage(sess[m], Answer(m)),
         Goto(m, "done"), UNCHANGED sess
  PROVE  MessagesInv'
<1> DEFINE s == sess[m]
           last == Len(messages[s]) + 1
<1>1. s \in Sessions /\ Answer(m) \in Message
  BY MessageTypes DEF HandlersHold, Holding
<1>2. /\ \A t \in Sessions \ {s} : messages'[t] = messages[t]
      /\ DOMAIN messages'[s] = DOMAIN messages[s] \cup {last}
      /\ \A i \in DOMAIN messages[s] : i < last /\ messages'[s][i] = messages[s][i]
      /\ messages'[s][last] = Answer(m)
  BY <1>1, Added DEF LoopTypeOK
<1>3. /\ pc'[m] = "done" /\ \A n \in Msgs \ {m} : pc'[n] = pc[n]
      /\ "done" \notin Unasked \cup Holding
  BY DEF Goto, LoopTypeOK, Unasked, Holding
<1>4. \A n \in Msgs : Question(n) # Answer(m)
  BY DEF Question, Answer
<1>5. PICK q \in DOMAIN messages[s] : messages[s][q] = Question(m)
  BY DEF MessagesInv, QuestionStands, Holding, Unasked
<1>6. NotAskedYet'
  BY <1>1, <1>2, <1>3, <1>4 DEF MessagesInv, NotAskedYet
<1>7. QuestionStands'
  <2> SUFFICES ASSUME NEW n \in Msgs, pc'[n] \in Holding \ Unasked
               PROVE  \E i \in DOMAIN messages'[sess[n]] :
                        messages'[sess[n]][i] = Question(n)
    BY DEF QuestionStands
  <2>1. sess[n] \in Sessions /\ pc[n] \in Holding \ Unasked
    BY <1>3 DEF HandlersHold
  <2>2. PICK i \in DOMAIN messages[sess[n]] : messages[sess[n]][i] = Question(n)
    BY <2>1 DEF MessagesInv, QuestionStands
  <2>3. i \in DOMAIN messages'[sess[n]] /\ messages'[sess[n]][i] = Question(n)
    BY <1>2, <2>1, <2>2
  <2>4. QED
    BY <2>3
<1>8. AnswersFollowQuestions'
  <2> SUFFICES ASSUME NEW t \in Sessions, NEW j \in DOMAIN messages'[t],
                      messages'[t][j].role = "assistant"
               PROVE  \E i \in 1 .. j - 1 :
                        messages'[t][i] = Question(messages'[t][j].text)
    BY DEF AnswersFollowQuestions
  <2>1. CASE t = s /\ j = last
    <3>1. messages'[t][j].text = m /\ messages'[t][q] = Question(m)
      BY <1>2, <1>5, <2>1 DEF Answer
    <3>2. q \in 1 .. j - 1
      BY <1>1, <1>2, <1>5, <2>1 DEF LoopTypeOK, TypeOK
    <3>3. QED
      BY <3>1, <3>2
  <2>2. CASE ~(t = s /\ j = last)
    <3>1. j \in DOMAIN messages[t] /\ messages'[t][j] = messages[t][j]
      BY <1>2, <2>2
    <3>2. PICK i \in 1 .. j - 1 : messages[t][i] = Question(messages[t][j].text)
      BY <3>1 DEF MessagesInv, AnswersFollowQuestions
    <3>3. i \in DOMAIN messages[t]
      BY <3>1, <3>2 DEF LoopTypeOK, TypeOK
    <3>4. messages'[t][i] = messages[t][i]
      BY <1>2, <3>3
    <3>5. QED
      BY <3>1, <3>2, <3>4
  <2>3. QED
    BY <2>1, <2>2
<1>9. QuestionRecordedOnce'
  <2> SUFFICES ASSUME NEW t \in Sessions, NEW u \in Sessions,
                      NEW i \in DOMAIN messages'[t], NEW j \in DOMAIN messages'[u],
                      messages'[t][i].role = "user", messages'[t][i] = messages'[u][j]
               PROVE  t = u /\ i = j
    BY DEF QuestionRecordedOnce
  <2>1. /\ i \in DOMAIN messages[t] /\ messages'[t][i] = messages[t][i]
        /\ j \in DOMAIN messages[u] /\ messages'[u][j] = messages[u][j]
    BY <1>2 DEF Answer
  <2>2. messages[t][i].role = "user" /\ messages[t][i] = messages[u][j]
    BY <2>1
  <2>3. QED
    BY <2>1, <2>2 DEF MessagesInv, QuestionRecordedOnce
<1>10. QED
  BY <1>6, <1>7, <1>8, <1>9 DEF MessagesInv

\* Every step keeps questions and answers where they belong.
LEMMA MessagesInductive ==
  ASSUME LoopTypeOK, HandlersHold, MessagesInv, [LoopNext]_loopVars
  PROVE  MessagesInv'
<1> USE DEF Goto, Unasked, Holding
<1>1. ASSUME NEW m \in Msgs, Dispatch(m) PROVE MessagesInv'
  BY <1>1, NothingRecorded DEF Dispatch, LoopTypeOK, vars, sessionVars
<1>2. ASSUME NEW m \in Msgs, Find(m) PROVE MessagesInv'
  BY <1>2, NothingRecorded DEF Find, LoopTypeOK, vars, sessionVars
<1>3. ASSUME NEW m \in Msgs, Create(m) PROVE MessagesInv'
  <2>1. ASSUME NEW s \in Sessions, Open(UserOf[m], s, FreshHistory),
               sess' = [sess EXCEPT ![m] = s], Goto(m, "ask")
        PROVE  MessagesInv'
    BY <1>3, <2>1, OpenKeepsMessages DEF Create
  <2>2. CASE UNCHANGED vars /\ \E label \in {"ask", "done", "fail"} : Goto(m, label)
             /\ \A n \in Msgs \ {m} : sess'[n] = sess[n]
    BY <1>3, <2>2, NothingRecorded DEF Create, LoopTypeOK, vars, sessionVars
  <2>3. QED
    BY <1>3, <2>1, <2>2 DEF Create, LoopTypeOK
<1>4. ASSUME NEW m \in Msgs, Ask(m) PROVE MessagesInv'
  <2>1. CASE AddMessage(sess[m], Question(m)) /\ Goto(m, "clone")
    BY <1>4, <2>1, AskKeepsMessages DEF Ask
  <2>2. CASE UNCHANGED vars /\ \E label \in {"end", "fail"} : Goto(m, label)
    BY <1>4, <2>2, NothingRecorded DEF Ask, LoopTypeOK, vars, sessionVars
  <2>3. QED
    BY <1>4, <2>1, <2>2 DEF Ask
<1>5. ASSUME NEW m \in Msgs, EndRefusing(m) \/ PostRefusing(m) PROVE MessagesInv'
  BY <1>5, NothingRecorded
     DEF EndRefusing, PostRefusing, ClientEnd, ClientPost, MarkEnding, PostEnd,
         LoopTypeOK, vars, sessionVars
<1>6. ASSUME NEW m \in Msgs, Clone(m) \/ Chain(m) \/ Send(m) \/ Fail(m)
      PROVE MessagesInv'
  BY <1>6, NothingRecorded DEF Clone, Chain, Send, Fail, LoopTypeOK, vars, sessionVars
<1>7. ASSUME NEW m \in Msgs, Record(m) PROVE MessagesInv'
  <2>1. CASE AddMessage(sess[m], Answer(m))
    BY <1>7, <2>1, RecordKeepsMessages DEF Record
  <2>2. CASE UNCHANGED vars
    BY <1>7, <2>2, NothingRecorded DEF Record, LoopTypeOK, vars, sessionVars
  <2>3. QED
    BY <1>7, <2>1, <2>2 DEF Record
<1>8. CASE (Background \/ Cancel \/ Stop) /\ UNCHANGED handlerVars
  BY <1>8, BackgroundRecordsNothing, NothingRecorded DEF handlerVars
<1>9. CASE LoopExit \/ UNCHANGED loopVars
  BY <1>9, NothingRecorded DEF LoopExit, loopVars, handlerVars, vars, sessionVars
<1>10. QED
  BY <1>1, <1>2, <1>3, <1>4, <1>5, <1>6, <1>7, <1>8, <1>9
     DEF LoopNext, Handler, AgentStop

-----------------------------------------------------------------------------
(* After Stop.                                                              *)

\* Once stopped the agent starts nothing: no handler is left that could.
LEMMA StoppedInductive ==
  ASSUME LoopTypeOK, SafetyInv, HandlersHold, StoppedInv, [LoopNext]_loopVars
  PROVE  StoppedInv'
<1> USE DEF StoppedInv, NothingActiveAfterStop
<1>1. CASE AgentStop
  <2>1. HandlersGone'
    BY <1>1 DEF AgentStop, HandlersGone, handlerVars
  <2>2. \A k \in Keys : current'[k] = None
    BY <1>1 DEF AgentStop, Stop
  <2>3. ASSUME NEW s \in Sessions PROVE state'[s] # "active"
    <3>1. state[s] = "active" => \E k \in Keys : current[k] = s
      BY ManagerAssumption DEF SafetyInv, ActiveIsCurrent
    <3>2. state'[s] = IF \E k \in Keys : current[k] = s THEN "closed" ELSE state[s]
      BY <1>1 DEF AgentStop, Stop
    <3>3. QED
      BY <3>1, <3>2
  <2>4. QED
    BY <2>1, <2>2, <2>3 DEF Active
<1>2. ASSUME phase = "stopped", ~AgentStop
      PROVE  StoppedInv'
  <2>1. /\ loop = "exited" /\ \A m \in Msgs : pc[m] \in {"inbound", "done"}
        /\ Active = {} /\ \A k \in Keys : current[k] = None
        /\ consumerPc = "exited"
    BY <1>2 DEF HandlersGone, SafetyInv, EndedInv
  <2>2. ASSUME NEW m \in Msgs PROVE ~Dispatch(m) /\ ~Handler(m)
    BY <2>1
       DEF Dispatch, Handler, Find, Create, Ask, EndRefusing, PostRefusing, Clone,
           Chain, Send, Record, Fail
  <2>3. CASE UNCHANGED <<vars, handlerVars, loop>>
    BY <2>1, <2>3
       DEF vars, sessionVars, handlerVars, Active, HandlersGone
  <2>4. CASE Background /\ UNCHANGED <<handlerVars, loop>>
    <3>1. Active' = {}
      BY <2>1, <2>4, BackgroundStartsNothing DEF LoopTypeOK
    <3>2. UNCHANGED current
      BY <2>1, <2>4
         DEF Background, Consumer, Receive, Sediment, CloseState, Unmap, ConsumerExit,
             Scanner, ScanStart, ScanCheck, ScanDone, ScanEnd, ScanPost, ScanExit,
             MarkEnding, PostEnd, OverflowSend, GoIdle, sessionVars
    <3>3. HandlersGone'
      BY <2>1, <2>4 DEF HandlersGone, handlerVars
    <3>4. \A k \in Keys : current'[k] = None
      BY <2>1, <3>2
    <3>5. QED
      BY <3>1, <3>3, <3>4
  <2>5. QED
    BY <1>2, <2>1, <2>2, <2>3, <2>4 DEF LoopNext, LoopExit, loopVars, Cancel
<1>3. ASSUME phase # "stopped", ~AgentStop
      PROVE  phase' # "stopped"
  <2>1. ASSUME NEW m \in Msgs, Handler(m) PROVE UNCHANGED phase
    BY <2>1
       DEF Handler, Find, Create, Ask, EndRefusing, PostRefusing, Clone, Chain, Send,
           Record, Fail, Open, AddMessage, ClientEnd, ClientPost, vars
  <2>2. Background => UNCHANGED phase
    BY DEF Background, Consumer, Receive, Sediment, CloseState, Unmap, ConsumerExit,
           Scanner, ScanStart, ScanCheck, ScanDone, ScanEnd, ScanPost, ScanExit,
           OverflowSend, GoIdle
  <2>3. QED
    BY <1>3, <2>1, <2>2 DEF LoopNext, Dispatch, LoopExit, Cancel, loopVars, vars
<1>4. QED
  BY <1>1, <1>2, <1>3

-----------------------------------------------------------------------------
(* Users who wait for each reply.                                           *)

\* A patient user's earlier messages are done with when a later one comes.
InTurn ==
  \A m, n \in Msgs :
    n < m /\ UserOf[n] = UserOf[m] /\ UserOf[m] \in Patient /\ pc[m] # "inbound" => pc[n] = "done"

\* Only sessions that may time out are found idle.
IdleInv ==
  /\ \A s \in Sessions : idle[s] => s \in MayIdle
  /\ doomed # None => doomed \in MayIdle

\* A handler holds a session of its user.
OwnKey == \A m \in Msgs : pc[m] \in Holding => KeyOf[sess[m]] = UserOf[m]

Busy == Holding \ Unasked

\* The session of a patient user's answer is active until it has it.
PatientHeld ==
  \A m \in Msgs : UserOf[m] \in Patient /\ pc[m] \in Busy => state[sess[m]] = "active"

\* The question a patient user waits for is the last of its session.
PatientAsked ==
  \A m \in Msgs : UserOf[m] \in Patient /\ pc[m] = "clone" =>
    /\ Len(messages[sess[m]]) > 0
    /\ messages[sess[m]][Len(messages[sess[m]])] = Question(m)

\* An answer that was sent is about to be recorded, or stands.
AnswerStands ==
  \A m \in Msgs : outcome[m] = "answered" =>
    /\ pc[m] \in {"record", "done"}
    /\ UserOf[m] \in Patient /\ pc[m] = "done" =>
         /\ sess[m] \in Sessions /\ state[sess[m]] # "unused"
         /\ \E i \in DOMAIN messages[sess[m]] : messages[sess[m]][i] = Answer(m)

\* What makes the answers of such users stay, in parts.
PatientInv ==
  InTurn /\ IdleInv /\ OwnKey /\ PatientHeld /\ PatientAsked /\ AnswerStands /\ QuestionAskedOnce

\* A handler moves only itself.
LEMMA OtherHandlers ==
  ASSUME LoopTypeOK, NEW m \in Msgs, Dispatch(m) \/ Handler(m), NEW n \in Msgs, n # m
  PROVE  UNCHANGED <<pc[n], sess[n], context[n], outcome[n]>>
<1> USE DEF LoopTypeOK, Goto
<1>1. CASE Dispatch(m) \/ Find(m) \/ Ask(m)
  BY <1>1 DEF Dispatch, Find, Ask, Keep
<1>2. CASE Create(m)
  BY <1>2 DEF Create, Keep
<1>3. CASE EndRefusing(m) \/ PostRefusing(m)
  BY <1>3 DEF EndRefusing, PostRefusing, Keep
<1>4. CASE Clone(m) \/ Chain(m) \/ Send(m) \/ Record(m) \/ Fail(m)
  BY <1>4 DEF Clone, Chain, Send, Record, Fail, Keep
<1>5. QED
  BY <1>1, <1>2, <1>3, <1>4 DEF Handler

\* A patient user's handler shares its session with no other.
LEMMA NobodyElseHolds ==
  ASSUME LoopTypeOK, PatientInv, NEW m \in Msgs, UserOf[m] \in Patient, pc[m] \in Holding,
         NEW n \in Msgs, n # m, pc[n] \in Holding
  PROVE  sess[n] # sess[m]
<1> SUFFICES ASSUME sess[n] = sess[m] PROVE FALSE
  OBVIOUS
<1>1. UserOf[n] = UserOf[m]
  BY DEF PatientInv, OwnKey
<1>2. m < n \/ n < m
  BY LoopAssumption
<1>3. QED
  BY <1>1, <1>2 DEF PatientInv, InTurn, Holding

\* A handler leaves the sessions it does not hold alone.
LEMMA HandlerLeaves ==
  ASSUME LoopTypeOK, HandlersHold, NEW n \in Msgs, Handler(n), NEW s \in Sessions,
         state[s] # "unused", ~(pc[n] \in Holding /\ sess[n] = s)
  PROVE  messages'[s] = messages[s] /\ state'[s] = state[s]
<1>0. TypeOK
  BY DEF LoopTypeOK
<1>1. ASSUME NEW e \in Message, AddMessage(sess[n], e), pc[n] \in Holding
      PROVE  messages'[s] = messages[s] /\ state'[s] = state[s]
  <2>1. sess[n] \in Sessions /\ s # sess[n]
    BY <1>1 DEF HandlersHold
  <2>2. QED
    BY <1>0, <1>1, <2>1, Added
<1>2. CASE Find(n) \/ Clone(n) \/ Chain(n) \/ Send(n) \/ Fail(n)
  BY <1>2 DEF Find, Clone, Chain, Send, Fail, vars, sessionVars
<1>3. CASE Create(n)
  <2>1. UserOf[n] \in Keys
    BY LoopAssumption
  <2>2. ASSUME NEW t \in Sessions, Open(UserOf[n], t, FreshHistory)
        PROVE  messages'[s] = messages[s] /\ state'[s] = state[s]
    BY <1>0, <2>1, <2>2, OpenedFresh
  <2>3. QED
    BY <1>3, <2>2 DEF Create, vars, sessionVars
<1>4. CASE Ask(n) \/ Record(n)
  BY <1>1, <1>4, MessageTypes DEF Ask, Record, Holding, vars, sessionVars
<1>5. CASE EndRefusing(n)
  BY <1>0, <1>5 DEF EndRefusing, ClientEnd, MarkEnding, Holding, HandlersHold, TypeOK, vars,
                    sessionVars
<1>6. CASE PostRefusing(n)
  BY <1>6 DEF PostRefusing, ClientPost, PostEnd, sessionVars
<1>7. QED
  BY <1>2, <1>3, <1>4, <1>5, <1>6 DEF Handler

\* The manager's goroutines end no session that does not time out.
LEMMA BackgroundEndsIdle ==
  ASSUME SafetyInv, IdleInv, Background, NEW s \in Sessions, state[s] = "active", s \notin MayIdle
  PROVE  state'[s] = "active"
<1>0. TypeOK /\ EndedInv
  BY DEF SafetyInv
<1>1. CASE CloseState
  <2>1. consuming \in Waiting
    BY <1>0, <1>1 DEF CloseState, Waiting, InHand, TypeOK
  <2>2. QED
    BY <1>0, <1>1, <2>1 DEF CloseState, EndedInv, TypeOK
<1>2. CASE ScanEnd
  BY <1>0, <1>2 DEF ScanEnd, MarkEnding, IdleInv, TypeOK, sessionVars
<1>3. CASE Receive \/ Sediment \/ Unmap \/ ConsumerExit \/ ScanStart \/ ScanCheck
           \/ ScanDone \/ ScanPost \/ ScanExit \/ \E t \in Sessions : OverflowSend(t) \/ GoIdle(t)
  BY <1>3 DEF Receive, Sediment, Unmap, ConsumerExit, ScanStart, ScanCheck, ScanDone, ScanPost,
              ScanExit, PostEnd, OverflowSend, GoIdle, sessionVars
<1>4. QED
  BY <1>1, <1>2, <1>3 DEF Background, Consumer, Scanner

\* Idleness is found only where time may pass.
LEMMA IdleSteps ==
  ASSUME LoopTypeOK, HandlersHold, IdleInv, [LoopNext]_loopVars
  PROVE  IdleInv'
<1>0. TypeOK
  BY DEF LoopTypeOK
<1>1. ASSUME NEW k \in Keys, NEW s \in Sessions, NEW h \in Histories, Open(k, s, h) PROVE IdleInv'
  BY <1>0, <1>1 DEF Open, IdleInv, TypeOK, scanVars
<1>2. ASSUME NEW s \in Sessions, ClientAdd(s) \/ ClientEnd(s) \/ ClientPost(s) PROVE IdleInv'
  BY <1>0, <1>2 DEF ClientAdd, AddMessage, ClientEnd, MarkEnding, ClientPost, PostEnd, IdleInv,
                    TypeOK, scanVars, sessionVars
<1>3. CASE Consumer \/ Cancel \/ Stop \/ UNCHANGED vars
  BY <1>3 DEF Consumer, Receive, Sediment, CloseState, Unmap, ConsumerExit, Cancel, Stop, IdleInv,
              scanVars, sessionVars, vars
<1>4. CASE Scanner
  BY <1>0, <1>4 DEF Scanner, ScanStart, ScanCheck, ScanDone, ScanEnd, ScanPost, ScanExit,
                    MarkEnding, PostEnd, IdleInv, TypeOK, sessionVars
<1>5. ASSUME NEW s \in Sessions, OverflowSend(s) \/ GoIdle(s) PROVE IdleInv'
  BY <1>0, <1>5 DEF OverflowSend, GoIdle, IdleInv, TypeOK, scanVars, sessionVars
<1>6. QED
  BY <1>1, <1>2, <1>3, <1>4, <1>5, LoopStep DEF Next, Client, Background

\* A handler gets a session of its user, a patient user's in turn.
LEMMA TurnSteps ==
  ASSUME LoopTypeOK, HandlersHold, SafetyInv, InTurn, OwnKey, [LoopNext]_loopVars
  PROVE  InTurn' /\ OwnKey'
<1> USE DEF LoopTypeOK, Goto
<1>1. ASSUME NEW m \in Msgs, Dispatch(m) PROVE InTurn' /\ OwnKey'
  BY <1>1 DEF Dispatch, InTurn, OwnKey, Holding
<1>2. ASSUME NEW m \in Msgs, Handler(m) PROVE InTurn' /\ OwnKey'
  <2>1. \A n \in Msgs : n # m => pc'[n] = pc[n] /\ sess'[n] = sess[n]
    BY <1>2, OtherHandlers
  <2>2. pc[m] \notin {"inbound", "done"}
    BY <1>2 DEF Handler, Find, Create, Ask, EndRefusing, PostRefusing, Clone, Chain, Send, Record,
                Fail
  <2>3. InTurn'
    BY <2>1, <2>2 DEF InTurn
  <2>4. pc'[m] \in Holding => KeyOf[sess'[m]] = UserOf[m]
    <3>1. CASE Find(m)
      BY <3>1, LoopAssumption DEF Find, Holding, SafetyInv, MappedByKey, CurrentActive
    <3>2. CASE Create(m)
      BY <3>2, LoopAssumption DEF Create, Open, Holding, SafetyInv, MappedByKey, CurrentActive
    <3>3. CASE ~Find(m) /\ ~Create(m)
      <4>1. sess'[m] = sess[m] /\ (pc'[m] \in Holding => pc[m] \in Holding)
        BY <1>2, <3>3 DEF Handler, Ask, EndRefusing, PostRefusing, Clone, Chain, Send, Record, Fail,
                          Holding
      <4>2. QED
        BY <4>1 DEF OwnKey
    <3>4. QED
      BY <3>1, <3>2, <3>3
  <2>5. QED
    BY <2>1, <2>3, <2>4 DEF OwnKey
<1>3. CASE UNCHANGED <<pc, sess>>
  BY <1>3 DEF InTurn, OwnKey
<1>4. QED
  BY <1>1, <1>2, <1>3 DEF LoopNext, LoopExit, AgentStop, loopVars, handlerVars

\* What a patient user's handler holds, no other handler changes.
LEMMA OthersLeave ==
  ASSUME LoopTypeOK, HandlersHold, PatientInv, NEW n \in Msgs, Dispatch(n) \/ Handler(n),
         NEW m \in Msgs, m # n, UserOf[m] \in Patient, pc[m] \in Holding
  PROVE  /\ pc'[m] = pc[m] /\ sess'[m] = sess[m]
         /\ messages'[sess[m]] = messages[sess[m]] /\ state'[sess[m]] = state[sess[m]]
<1>1. sess[m] \in Sessions /\ state[sess[m]] # "unused"
  BY DEF HandlersHold
<1>2. ~(pc[n] \in Holding /\ sess[n] = sess[m])
  BY NobodyElseHolds
<1>3. CASE Dispatch(n)
  BY <1>3, OtherHandlers DEF Dispatch, vars, sessionVars
<1>4. CASE Handler(n)
  BY <1>1, <1>2, <1>4, OtherHandlers, HandlerLeaves
<1>5. QED
  BY <1>3, <1>4

\* What an allocated session holds stays where it is.
LEMMA MessagesGrow ==
  ASSUME LoopTypeOK, HandlersHold, [LoopNext]_loopVars, NEW s \in Sessions, state[s] # "unused",
         NEW i \in DOMAIN messages[s]
  PROVE  i \in DOMAIN messages'[s] /\ messages'[s][i] = messages[s][i]
<1>0. TypeOK
  BY DEF LoopTypeOK
<1>1. ASSUME NEW n \in Msgs, Handler(n), pc[n] \in Holding, sess[n] = s
      PROVE  i \in DOMAIN messages'[s] /\ messages'[s][i] = messages[s][i]
  <2>1. CASE Ask(n) \/ Record(n)
    BY <1>0, <1>1, <2>1, Added, MessageTypes DEF Ask, Record, vars, sessionVars
  <2>2. CASE ~Ask(n) /\ ~Record(n)
    BY <1>1, <2>2
       DEF Handler, Find, Create, EndRefusing, ClientEnd, MarkEnding, PostRefusing, ClientPost,
           PostEnd, Clone, Chain, Send, Fail, Holding, vars, sessionVars
  <2>3. QED
    BY <2>1, <2>2
<1>2. ASSUME NEW n \in Msgs, Handler(n), ~(pc[n] \in Holding /\ sess[n] = s)
      PROVE  messages'[s] = messages[s]
  BY <1>2, HandlerLeaves
<1>3. CASE UNCHANGED messages
  BY <1>3
<1>4. QED
  BY <1>1, <1>2, <1>3, BackgroundRecordsNothing
     DEF LoopNext, Dispatch, LoopExit, AgentStop, loopVars, vars, sessionVars

\* A patient user's session is active from the question to the answer, and the
\* question is its last message until it is cloned.
LEMMA HeldSteps ==
  ASSUME LoopTypeOK, HandlersHold, SafetyInv, StoppedInv, PatientInv, [LoopNext]_loopVars
  PROVE  PatientHeld' /\ PatientAsked'
<1>0. TypeOK
  BY DEF LoopTypeOK
<1>1. ASSUME NEW n \in Msgs, Dispatch(n) \/ Handler(n) PROVE PatientHeld' /\ PatientAsked'
  <2>1. ASSUME NEW m \in Msgs, m # n, UserOf[m] \in Patient, pc'[m] \in Busy
        PROVE  /\ state'[sess'[m]] = "active"
               /\ pc'[m] = "clone" =>
                    /\ Len(messages'[sess'[m]]) > 0
                    /\ messages'[sess'[m]][Len(messages'[sess'[m]])] = Question(m)
    <3>1. pc[m] \in Busy /\ pc[m] \in Holding
      BY <1>1, <2>1, OtherHandlers DEF Busy
    <3>2. /\ pc'[m] = pc[m] /\ sess'[m] = sess[m]
          /\ messages'[sess[m]] = messages[sess[m]] /\ state'[sess[m]] = state[sess[m]]
      BY <1>1, <2>1, <3>1, OthersLeave
    <3>3. /\ state[sess[m]] = "active"
          /\ pc[m] = "clone" => /\ Len(messages[sess[m]]) > 0
                                /\ messages[sess[m]][Len(messages[sess[m]])] = Question(m)
      BY <2>1, <3>1 DEF PatientInv, PatientHeld, PatientAsked
    <3>4. QED
      BY <3>2, <3>3
  <2>2. ASSUME UserOf[n] \in Patient, pc'[n] \in Busy
        PROVE  /\ state'[sess'[n]] = "active"
               /\ pc'[n] = "clone" =>
                    /\ Len(messages'[sess'[n]]) > 0
                    /\ messages'[sess'[n]][Len(messages'[sess'[n]])] = Question(n)
    <3>1. CASE Ask(n)
      <4>1. AddMessage(sess[n], Question(n)) /\ sess'[n] = sess[n]
        BY <2>2, <3>1 DEF Ask, Goto, Busy, Holding, Unasked, LoopTypeOK
      <4>2. sess[n] \in Sessions /\ Question(n) \in Message
        BY <3>1, MessageTypes DEF Ask, HandlersHold, Holding
      <4>3. messages[sess[n]] \in Seq(Message)
            /\ messages'[sess[n]] = Append(messages[sess[n]], Question(n))
        BY <1>0, <4>1, <4>2 DEF AddMessage, TypeOK
      <4>4. state'[sess[n]] = "active"
        BY <4>1 DEF AddMessage, Accepts
      <4>5. QED
        BY <4>1, <4>2, <4>3, <4>4
    <3>2. CASE ~Ask(n)
      <4>1. pc[n] \in Busy /\ pc'[n] # "clone" /\ sess'[n] = sess[n] /\ state' = state
        BY <1>1, <2>2, <3>2
           DEF Dispatch, Handler, Find, Create, EndRefusing, PostRefusing, Clone, Chain, Send,
               Record, Fail, Goto, Keep, Busy, Holding, Unasked, LoopTypeOK, vars, sessionVars
      <4>2. QED
        BY <2>2, <4>1 DEF PatientInv, PatientHeld
    <3>3. QED
      BY <3>1, <3>2
  <2>3. \A m \in Msgs : pc'[m] = "clone" => pc'[m] \in Busy
    BY DEF Busy, Holding, Unasked
  <2>4. QED
    BY <2>1, <2>2, <2>3 DEF PatientHeld, PatientAsked
<1>2. CASE (Background \/ Cancel) /\ UNCHANGED handlerVars
  <2>1. PatientAsked'
    BY <1>2, BackgroundRecordsNothing DEF handlerVars, PatientInv, PatientAsked
  <2>2. ASSUME NEW m \in Msgs, UserOf[m] \in Patient, pc[m] \in Busy
        PROVE  state'[sess[m]] = "active"
    <3>1. /\ sess[m] \in Sessions /\ KeyOf[sess[m]] = UserOf[m]
          /\ state[sess[m]] = "active"
      BY <2>2 DEF HandlersHold, PatientInv, OwnKey, PatientHeld, Busy
    <3>2. sess[m] \notin MayIdle
      BY <2>2, <3>1, PatientAssumption
    <3>3. CASE Background
      BY <3>1, <3>2, <3>3, BackgroundEndsIdle DEF PatientInv
    <3>4. CASE Cancel
      BY <3>1, <3>4 DEF Cancel, sessionVars
    <3>5. QED
      BY <1>2, <3>3, <3>4
  <2>3. QED
    BY <1>2, <2>1, <2>2 DEF PatientHeld, handlerVars
<1>3. CASE AgentStop
  <2>1. \A m \in Msgs : pc'[m] \notin Busy /\ pc'[m] # "clone"
    BY <1>3 DEF AgentStop, HandlersGone, handlerVars, Busy, Holding
  <2>2. QED
    BY <2>1 DEF PatientHeld, PatientAsked
<1>4. CASE LoopExit \/ UNCHANGED loopVars
  BY <1>4 DEF LoopExit, loopVars, handlerVars, vars, sessionVars, PatientInv, PatientHeld,
              PatientAsked
<1>5. QED
  BY <1>1, <1>2, <1>3, <1>4 DEF LoopNext, loopVars

\* The clone's last message is the question, which stands nowhere else.
LEMMA ContextSteps ==
  ASSUME LoopTypeOK, HandlersHold, QuestionRecordedOnce, PatientInv, [LoopNext]_loopVars
  PROVE  QuestionAskedOnce'
<1>1. ASSUME NEW n \in Msgs, Clone(n) PROVE QuestionAskedOnce'
  <2> DEFINE h == messages[sess[n]]
  <2>1. context' = [context EXCEPT ![n] = SubSeq(h, 1, Len(h) - 1)]
    BY <1>1 DEF Clone, PriorHistory
  <2>2. sess[n] \in Sessions /\ h \in Seq(Message)
    BY <1>1 DEF Clone, Holding, HandlersHold, LoopTypeOK, TypeOK
  <2>3. ASSUME UserOf[n] \in Patient, NEW i \in DOMAIN context'[n]
        PROVE  context'[n][i] # Question(n)
    <3>1. Len(h) > 0 /\ h[Len(h)] = Question(n)
      BY <1>1, <2>3 DEF Clone, PatientInv, PatientAsked
    <3>2. context'[n] = SubSeq(h, 1, Len(h) - 1)
      BY <2>1 DEF LoopTypeOK
    <3>3. i \in 1 .. Len(h) - 1 /\ context'[n][i] = h[i]
      BY <2>2, <2>3, <3>1, <3>2
    <3>4. i \in DOMAIN h /\ Len(h) \in DOMAIN h /\ i # Len(h)
      BY <2>2, <3>1, <3>3
    <3>5. h[i].role = "user" => h[i] # h[Len(h)]
      BY <2>2, <3>4 DEF QuestionRecordedOnce
    <3>6. Question(n).role = "user"
      BY DEF Question
    <3>7. QED
      BY <3>1, <3>3, <3>5, <3>6
  <2>4. \A m \in Msgs \ {n} : context'[m] = context[m]
    BY <2>1 DEF LoopTypeOK
  <2>5. QED
    BY <2>3, <2>4 DEF PatientInv, QuestionAskedOnce
<1>2. ASSUME NEW n \in Msgs, Handler(n), ~Clone(n) PROVE UNCHANGED context
  BY <1>2
     DEF Handler, Find, Create, Ask, EndRefusing, PostRefusing, Chain, Send, Record, Fail, Keep
<1>3. CASE UNCHANGED context
  BY <1>3 DEF PatientInv, QuestionAskedOnce
<1>4. QED
  BY <1>1, <1>2, <1>3 DEF LoopNext, Dispatch, LoopExit, AgentStop, loopVars, handlerVars

\* A sent answer is recorded by the next step of its handler, in a session that
\* is still active, and stays there.
LEMMA AnswerSteps ==
  ASSUME LoopTypeOK, HandlersHold, PatientInv, [LoopNext]_loopVars
  PROVE  AnswerStands'
<1>0. TypeOK
  BY DEF LoopTypeOK
<1>1. ASSUME NEW m \in Msgs, UNCHANGED <<pc[m], sess[m], outcome[m]>>, outcome[m] = "answered"
      PROVE  /\ pc'[m] \in {"record", "done"}
             /\ UserOf[m] \in Patient /\ pc'[m] = "done" =>
                  /\ sess'[m] \in Sessions /\ state'[sess'[m]] # "unused"
                  /\ \E i \in DOMAIN messages'[sess'[m]] :
                       messages'[sess'[m]][i] = Answer(m)
  <2>1. pc'[m] \in {"record", "done"}
    BY <1>1 DEF PatientInv, AnswerStands
  <2>2. ASSUME UserOf[m] \in Patient, pc'[m] = "done"
        PROVE  /\ sess[m] \in Sessions /\ state'[sess[m]] # "unused"
               /\ \E i \in DOMAIN messages'[sess[m]] : messages'[sess[m]][i] = Answer(m)
    <3>1. /\ sess[m] \in Sessions /\ state[sess[m]] # "unused"
          /\ \E i \in DOMAIN messages[sess[m]] : messages[sess[m]][i] = Answer(m)
      BY <1>1, <2>2 DEF PatientInv, AnswerStands
    <3>2. state'[sess[m]] # "unused"
      BY <1>0, <3>1, LoopStep, StaysAllocated
    <3>3. PICK i \in DOMAIN messages[sess[m]] : messages[sess[m]][i] = Answer(m)
      BY <3>1
    <3>4. i \in DOMAIN messages'[sess[m]] /\ messages'[sess[m]][i] = Answer(m)
      BY <3>1, <3>3, MessagesGrow
    <3>5. QED
      BY <3>1, <3>2, <3>4
  <2>3. QED
    BY <1>1, <2>1, <2>2
<1>2. ASSUME NEW n \in Msgs, Dispatch(n) \/ Handler(n) PROVE AnswerStands'
  <2>1. ASSUME outcome'[n] = "answered"
        PROVE  /\ pc'[n] \in {"record", "done"}
               /\ UserOf[n] \in Patient /\ pc'[n] = "done" =>
                    /\ sess'[n] \in Sessions /\ state'[sess'[n]] # "unused"
                    /\ \E i \in DOMAIN messages'[sess'[n]] :
                         messages'[sess'[n]][i] = Answer(n)
    <3>1. CASE Send(n)
      BY <2>1, <3>1 DEF Send, Goto, LoopTypeOK
    <3>2. CASE Record(n)
      <4>1. pc'[n] = "done" /\ sess'[n] = sess[n] /\ pc[n] = "record"
        BY <3>2 DEF Record, Goto, LoopTypeOK
      <4>2. ASSUME UserOf[n] \in Patient
            PROVE  /\ sess[n] \in Sessions /\ state'[sess[n]] # "unused"
                   /\ \E i \in DOMAIN messages'[sess[n]] : messages'[sess[n]][i] = Answer(n)
        <5>1. sess[n] \in Sessions /\ Answer(n) \in Message
          BY <4>1, MessageTypes DEF HandlersHold, Holding
        <5>2. state[sess[n]] = "active"
          BY <4>1, <4>2 DEF PatientInv, PatientHeld, Busy, Holding, Unasked
        <5>3. AddMessage(sess[n], Answer(n))
          BY <3>2, <5>2 DEF Record, Accepts
        <5>4. QED
          BY <1>0, <5>1, <5>2, <5>3, Added
      <4>3. QED
        BY <4>1, <4>2
    <3>3. CASE ~Send(n) /\ ~Record(n)
      <4>1. outcome[n] = "answered"
        BY <1>2, <2>1, <3>3
           DEF Dispatch, Handler, Find, Create, Ask, EndRefusing, PostRefusing, Clone, Chain,
               Fail, Keep, LoopTypeOK
      <4>2. pc[n] \in {"record", "done"}
        BY <4>1 DEF PatientInv, AnswerStands
      <4>3. FALSE
        BY <1>2, <3>3, <4>2
           DEF Dispatch, Handler, Find, Create, Ask, EndRefusing, PostRefusing, Clone, Chain,
               Fail
      <4>4. QED
        BY <4>3
    <3>4. QED
      BY <3>1, <3>2, <3>3
  <2>2. \A m \in Msgs : m # n => UNCHANGED <<pc[m], sess[m], outcome[m]>>
    BY <1>2, OtherHandlers
  <2>3. QED
    BY <1>1, <2>1, <2>2 DEF AnswerStands
<1>3. CASE UNCHANGED handlerVars
  BY <1>1, <1>3 DEF handlerVars, AnswerStands
<1>4. QED
  BY <1>2, <1>3 DEF LoopNext, LoopExit, AgentStop, loopVars

-----------------------------------------------------------------------------
(* The theorems.                                                            *)

\* The invariant of the agent with everything it rests on.
THEOREM LoopSafety == LoopSpec => [](SafetyInv /\ LoopInv)
<1>1. LoopInit => SafetyInv /\ LoopInv
  <2> SUFFICES ASSUME LoopInit PROVE SafetyInv /\ LoopInv
    OBVIOUS
  <2>1. Init
    BY DEF LoopInit
  <2>2. SafetyInv
    BY <2>1, InitSafety
  <2>3. LoopTypeOK
    BY <2>2 DEF SafetyInv, LoopInit, LoopTypeOK, Labels
  <2>4. /\ HandlersHold /\ NotAskedYet /\ QuestionStands
        /\ AnswersFollowQuestions /\ QuestionRecordedOnce
    BY <2>1
       DEF LoopInit, Init, HandlersHold, NotAskedYet, QuestionStands,
           AnswersFollowQuestions, QuestionRecordedOnce, Holding, Unasked
  <2>5. StoppedInv
    BY <2>1 DEF Init, StoppedInv, NothingActiveAfterStop
  <2>6. QED
    BY <2>2, <2>3, <2>4, <2>5 DEF LoopInv
<1>2. SafetyInv /\ LoopInv /\ [LoopNext]_loopVars => SafetyInv' /\ LoopInv'
  <2> SUFFICES ASSUME SafetyInv, LoopInv, [LoopNext]_loopVars
               PROVE  SafetyInv' /\ LoopInv'
    OBVIOUS
  <2>1. SafetyInv'
    BY LoopStep, StepSafety DEF LoopInv
  <2>2. LoopTypeOK' /\ HandlersHold'
    BY LoopTypeInductive, HandlersHoldInductive DEF LoopInv
  <2>3. MessagesInv'
    BY MessagesInductive DEF LoopInv, MessagesInv
  <2>4. StoppedInv'
    BY StoppedInductive DEF LoopInv
  <2>5. QED
    BY <2>1, <2>2, <2>3, <2>4 DEF LoopInv, MessagesInv
<1>3. QED
  BY <1>1, <1>2, PTL DEF LoopSpec

\* The agent implements the session manager: its handlers are clients the
\* manager allows, so every theorem about the manager is one about the agent.
THEOREM LoopImplementsManager == LoopSpec => Spec
<1>1. LoopInit => Init
  BY DEF LoopInit
<1>2. LoopInv /\ [LoopNext]_loopVars => [Next]_vars
  BY LoopStep DEF LoopInv
<1>3. QED
  BY <1>1, <1>2, LoopSafety, PTL DEF LoopSpec, Spec

\* The handlers' variables have their types.
THEOREM LoopTypeCorrect == LoopSpec => []LoopTypeOK
<1>1. LoopInv => LoopTypeOK
  BY DEF LoopInv
<1>2. QED
  BY <1>1, LoopSafety, PTL

\* An answer stands behind its own question, in the same session, however the
\* handlers of one user interleave (agent.go:93-169).
THEOREM AnswersBelong == LoopSpec => []AnswersFollowQuestions
<1>1. LoopInv => AnswersFollowQuestions
  BY DEF LoopInv
<1>2. QED
  BY <1>1, LoopSafety, PTL

\* The second lookup after a refused question never records it twice
\* (agent.go:99-111).
THEOREM QuestionsOnce == LoopSpec => []QuestionRecordedOnce
<1>1. LoopInv => QuestionRecordedOnce
  BY DEF LoopInv
<1>2. QED
  BY <1>1, LoopSafety, PTL

\* Once Agent.Run has stopped the manager nothing is active or mapped again
\* (agent.go:69-74, channel/manager.go:82-85).
THEOREM StoppedStaysQuiet == LoopSpec => []NothingActiveAfterStop
<1>1. LoopInv => NothingActiveAfterStop
  BY DEF LoopInv, StoppedInv
<1>2. QED
  BY <1>1, LoopSafety, PTL

\* The history of a sedimented conversation is final in the agent too.
THEOREM LoopSedimentsWhole == LoopSpec => []SedimentedIsFinal
BY LoopImplementsManager, SedimentsWhole

\* The invariant about the users who wait for each reply.
THEOREM PatientSafety == LoopSpec => []PatientInv
<1>1. LoopInit => PatientInv
  BY DEF LoopInit, Init, PatientInv, InTurn, IdleInv, OwnKey, Busy, PatientHeld, PatientAsked,
         AnswerStands, QuestionAskedOnce, Holding, Unasked
<1>2. SafetyInv /\ LoopInv /\ PatientInv /\ [LoopNext]_loopVars => PatientInv'
  <2> SUFFICES ASSUME SafetyInv, LoopInv, PatientInv, [LoopNext]_loopVars PROVE PatientInv'
    OBVIOUS
  <2>1. LoopTypeOK /\ HandlersHold /\ QuestionRecordedOnce /\ StoppedInv
    BY DEF LoopInv
  <2>2. InTurn' /\ OwnKey' /\ IdleInv'
    BY <2>1, TurnSteps, IdleSteps DEF PatientInv
  <2>3. PatientHeld' /\ PatientAsked' /\ QuestionAskedOnce' /\ AnswerStands'
    BY <2>1, HeldSteps, ContextSteps, AnswerSteps
  <2>4. QED
    BY <2>2, <2>3 DEF PatientInv
<1>3. QED
  BY <1>1, <1>2, LoopSafety, PTL DEF LoopSpec

\* A user who waits for each reply, and whose session does not time out, finds
\* every answer kept behind its question (agent.go:159-169, session.go:223).
THEOREM PatientAnswers == LoopSpec => []PatientAnswersKept
<1>1. PatientInv => PatientAnswersKept
  BY DEF PatientInv, AnswerStands, PatientAnswersKept, AnswerKept
<1>2. QED
  BY <1>1, PatientSafety, PTL

\* The history the chain of such a user is given never holds the question it is
\* asked (agent.go:126).
THEOREM ContextLacksQuestion == LoopSpec => []QuestionAskedOnce
<1>1. PatientInv => QuestionAskedOnce
  BY DEF PatientInv
<1>2. QED
  BY <1>1, PatientSafety, PTL

================================================================================
