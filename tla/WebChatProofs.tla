------------------------------ MODULE WebChatProofs ------------------------------
(***************************************************************************)
(* Theorems about WebChat, for every number of sockets, conversations and  *)
(* restarts.                                                               *)
(***************************************************************************)
EXTENDS WebChat, SessionManagerProofs

USE WebAssumption, FileAssumption

-----------------------------------------------------------------------------
(* Types.                                                                   *)

\* Where handleChat holds a session.
Working(w) ==
  wpc[w] \in {"ask", "end", "post", "rotate", "reask", "chain", "record", "save",
              "truncate", "write", "reply"}

\* What a socket holds where it is.
Holds(w) ==
  /\ wpc[w] # "read" => asked[w] \in Questions
  /\ wpc[w] = "chat" \/ Working(w) => conv[w] \in Keys
  /\ Working(w) => session[w] \in Sessions
  /\ wpc[w] \in {"truncate", "write"} => snapshot[w] \in History

SocketTypes ==
  /\ wpc \in [Sockets -> {"read", "open", "chat", "ask", "end", "post", "rotate",
                          "reask", "chain", "record", "save", "truncate", "write",
                          "reply"}]
  /\ conv \in [Sockets -> Keys \cup {None}]
  /\ asked \in [Sockets -> Questions \cup {None}]
  /\ session \in [Sockets -> Sessions \cup {None}]
  /\ snapshot \in [Sockets -> History \cup {None}]
  /\ \A w \in Sockets : Holds(w)

FileTypes ==
  /\ disk \in [Keys -> History \cup {None, Torn}]
  /\ issued \in SUBSET Keys
  /\ kept \in [Keys -> SUBSET Message]
  /\ delivered \in SUBSET (Keys \X Questions)
  /\ crashes \in 0 .. MaxCrashes

WebTypes == TypeOK /\ SocketTypes /\ FileTypes

-----------------------------------------------------------------------------
(* Histories.                                                               *)

\* A session object that was not opened holds nothing.
UnusedIsEmpty == \A s \in Sessions : state[s] = "unused" => messages[s] = <<>>

\* What is about to be written was in its session at one instant.
SnapshotIsOneInstant ==
  \A w \in Sockets : wpc[w] \in {"truncate", "write"} =>
    /\ snapshot[w].rounds = QuestionCount(snapshot[w].messages)
    /\ IsPrefix(snapshot[w].messages, messages[session[w]])

Instants == UnusedIsEmpty /\ RoundsAreQuestions /\ SnapshotIsOneInstant /\ FilesAreClones

-----------------------------------------------------------------------------
(* Conversations in one socket.                                             *)

MapIsByKey == \A k \in Keys : current[k] # None => KeyOf[current[k]] = k

\* A socket works on a session of its conversation.
OwnSession(w) ==
  /\ conv[w] # None => conv[w] \in issued
  /\ Working(w) => KeyOf[session[w]] = conv[w] /\ state[session[w]] # "unused"

\* Nobody else has its conversation or puts another session there.
Alone ==
  \A w \in Sockets : conv[w] \in OneTab =>
    /\ \A v \in Sockets : conv[v] = conv[w] => v = w
    /\ Working(w) /\ CurrentActive(conv[w]) => current[conv[w]] = session[w]

Issuing ==
  \A k \in Keys : k \notin issued => kept[k] = {} /\ \A m \in Questions : <<k, m>> \notin delivered

OneSocket == MapIsByKey /\ (\A w \in Sockets : OwnSession(w)) /\ Alone /\ Issuing

-----------------------------------------------------------------------------
(* Questions and answers.                                                   *)

\* No two sockets work on the same question.
Distinct ==
  \A v, w \in Sockets : wpc[v] # "read" /\ asked[v] = asked[w] => v = w

\* The session that is to take the answer has the question, or takes no more.
Recorded(w) ==
  wpc[w] \in {"chain", "record"} /\ conv[w] \in OneTab =>
    Question(asked[w]) \in Range(messages[session[w]]) \/ state[session[w]] # "active"

\* The session of a new conversation is as it was opened.
Unasked(w) == wpc[w] = "reask" /\ conv[w] \in OneTab => rounds[session[w]] = 0

\* Nobody has the answer yet.
Unanswered(w) ==
  wpc[w] \in {"open", "chat", "ask", "end", "post", "rotate", "reask", "chain", "record"} =>
    \A s \in Sessions : KeyOf[s] \in OneTab => Answer(asked[w]) \notin Range(messages[s])

Undelivered(w) == wpc[w] # "read" => \A k \in Keys : <<k, asked[w]>> \notin delivered

Asking(w) == Recorded(w) /\ Unasked(w) /\ Unanswered(w) /\ Undelivered(w)

Answers == AnswersBehindQuestions /\ Distinct /\ \A w \in Sockets : Asking(w)

-----------------------------------------------------------------------------
(* What was saved stays.                                                    *)

Due(k, m) == <<k, m>> \in delivered /\ Present(k, m)

\* A history that lacks nothing a file of its conversation once had.
Safe(k, seq) ==
  /\ kept[k] \subseteq Range(seq)
  /\ \A m \in Questions : Due(k, m) => Ordered(m, seq)

Nothing(k) == kept[k] = {} /\ \A m \in Questions : <<k, m>> \notin delivered

OnDisk(k) == ~Writing(k) => Nothing(k) \/ (Readable(k) /\ Safe(k, disk[k].messages))

InSession(w) ==
  Working(w) /\ conv[w] \in Sheltered => Safe(conv[w], messages[session[w]])

InSnapshot(w) ==
  /\ wpc[w] \in {"truncate", "write"} /\ conv[w] \in Sheltered =>
       Safe(conv[w], snapshot[w].messages)
  /\ wpc[w] = "write" /\ conv[w] \in Sheltered => disk[conv[w]] = Torn

\* The answer that is about to be sent, if its session took it.
Answered(w) ==
  conv[w] \in Sheltered =>
    /\ wpc[w] = "reply" => Readable(conv[w])
    /\ Present(conv[w], asked[w]) =>
         /\ wpc[w] \in {"save", "truncate", "write", "reply"} =>
              Ordered(asked[w], messages[session[w]])
         /\ wpc[w] \in {"truncate", "write"} => Ordered(asked[w], snapshot[w].messages)
         /\ wpc[w] = "reply" => Ordered(asked[w], disk[conv[w]].messages)

Saved ==
  /\ \A k \in Sheltered : OnDisk(k)
  /\ \A k \in Sheltered : CurrentActive(k) => Safe(k, messages[current[k]])
  /\ \A w \in Sockets : InSession(w) /\ InSnapshot(w) /\ Answered(w)


-----------------------------------------------------------------------------
(* What a step does to the sessions: it opens one, adds to one, or ends some. *)

Receding ==
  /\ UNCHANGED <<messages, rounds>>
  /\ \A s \in Sessions : /\ state'[s] = "active" => state[s] = "active"
                         /\ state'[s] = "unused" => state[s] = "unused"
  /\ \A k \in Keys : current'[k] \in {current[k], None}

Adding(w, e) ==
  /\ AddMessage(session[w], e)
  /\ \/ wpc[w] \in {"ask", "reask"} /\ e = Question(asked[w])
     \/ wpc[w] = "record" /\ e = Answer(asked[w])

Opening(w, k, s, h) ==
  /\ Open(k, s, h)
  /\ \/ wpc[w] \in {"open", "rotate"} /\ k \notin issued /\ h = NoHistory
     \/ /\ current[k] = None /\ Readable(k) /\ h = disk[k]
        /\ \/ wpc[w] = "chat" /\ k = conv[w]
           \/ /\ wpc[w] = "open" /\ k \in issued
              /\ k \in OneTab => \A v \in Sockets : conv[v] # k

LEMMA MarkingRecedes ==
  ASSUME TypeOK, NEW s \in Sessions, MarkEnding(s)
  PROVE  Receding
BY DEF MarkEnding, Receding, TypeOK

LEMMA UnchangedRecedes ==
  ASSUME UNCHANGED sessionVars
  PROVE  Receding
BY DEF sessionVars, Receding

LEMMA BackgroundRecedes ==
  ASSUME TypeOK, Background
  PROVE  Receding /\ TypeOK'
<1>1. TypeOK'
  BY TypeInductive DEF Next
<1>2. CASE Receive \/ Sediment \/ ConsumerExit \/ ScanStart \/ ScanCheck \/ ScanDone \/ ScanExit
  <2>1. UNCHANGED sessionVars
    BY <1>2
       DEF Receive, Sediment, ConsumerExit, ScanStart, ScanCheck, ScanDone, ScanExit
  <2>2. QED
    BY <1>1, <2>1, UnchangedRecedes
<1>3. CASE CloseState
  <2>1. consuming \in Sessions
    BY <1>3 DEF CloseState, TypeOK
  <2>2. UNCHANGED <<messages, rounds, current>>
        /\ state' = [state EXCEPT ![consuming] = "closed"]
    BY <1>3 DEF CloseState
  <2>3. QED
    BY <1>1, <2>1, <2>2 DEF Receding, TypeOK
<1>4. CASE Unmap
  <2>1. UNCHANGED <<messages, rounds, state>> /\ current' = Unmapped(consuming)
    BY <1>4 DEF Unmap
  <2>2. \A k \in Keys : current'[k] \in {current[k], None}
    BY <1>4, <2>1 DEF Unmapped, TypeOK
  <2>3. QED
    BY <1>1, <2>1, <2>2 DEF Receding
<1>5. CASE ScanEnd
  <2>1. doomed \in Sessions
    BY <1>5 DEF ScanEnd, TypeOK
  <2>2. QED
    BY <1>1, <1>5, <2>1, MarkingRecedes, UnchangedRecedes DEF ScanEnd
<1>6. CASE ScanPost
  BY <1>1, <1>6, UnchangedRecedes DEF ScanPost, PostEnd
<1>7. ASSUME NEW s \in Sessions, OverflowSend(s) PROVE Receding
  BY <1>7, UnchangedRecedes DEF OverflowSend
<1>8. ASSUME NEW s \in Sessions, GoIdle(s) PROVE Receding
  BY <1>8 DEF GoIdle, Receding
<1>9. QED
  BY <1>1, <1>2, <1>3, <1>4, <1>5, <1>6, <1>7, <1>8 DEF Background, Consumer, Scanner

\* A restart ends every session and forgets the map (Crash).
LEMMA CrashRecedes ==
  ASSUME WebTypes, Crash
  PROVE  Receding /\ TypeOK'
<1>1. Receding
  BY DEF Crash, Receding, WebTypes, TypeOK
<1>2. TypeOK'
  BY DEF Crash, WebTypes, TypeOK
<1>3. QED
  BY <1>1, <1>2

LEMMA Asked ==
  ASSUME NEW m \in Questions
  PROVE  /\ Question(m) \in Message /\ Answer(m) \in Message
         /\ Question(m).role = "user" /\ Answer(m).role = "assistant"
BY DEF Questions, Question, Answer, Message, Roles

LEMMA EmptyIsHistory ==
  /\ NoHistory \in History /\ NoHistory.messages = <<>> /\ NoHistory.rounds = 0
BY DEF NoHistory, History

LEMMA OpenTypes ==
  ASSUME TypeOK, NEW k \in Keys, NEW s \in Sessions, NEW h \in History, Open(k, s, h)
  PROVE  TypeOK'
BY DEF Open, History, TypeOK, endVars, consumerVars, scanVars

\* Any step of a socket, seen from the sessions (websocket.go:111-255).
LEMMA SocketEffect ==
  ASSUME WebTypes, NEW w \in Sockets, Socket(w)
  PROVE  /\ TypeOK'
         /\ \/ Receding
            \/ \E e \in Message : Adding(w, e)
            \/ \E k \in Keys, s \in Sessions, h \in History : Opening(w, k, s, h)
<1> DEFINE Effect == \/ Receding
                     \/ \E e \in Message : Adding(w, e)
                     \/ \E k \in Keys, s \in Sessions, h \in History : Opening(w, k, s, h)
<1>0. TypeOK /\ SocketTypes /\ FileTypes
  BY DEF WebTypes
<1>1. ASSUME UNCHANGED vars PROVE TypeOK' /\ Effect
  <2>1. Receding
    BY <1>1, UnchangedRecedes DEF vars
  <2>2. QED
    BY <1>0, <1>1, <2>1, TypeInductive
<1>2. ASSUME NEW e \in Message, Adding(w, e), session[w] \in Sessions PROVE TypeOK' /\ Effect
  <2>1. [Next]_vars
    BY <1>2 DEF Adding, Next, Client, ClientAdd
  <2>2. QED
    BY <1>0, <1>2, <2>1, TypeInductive
<1>3. ASSUME NEW k \in Keys, NEW s \in Sessions, NEW h \in History, Opening(w, k, s, h)
      PROVE TypeOK' /\ Effect
  BY <1>0, <1>3, OpenTypes DEF Opening
<1>4. CASE Read(w) \/ Disconnect(w) \/ Chain(w) \/ Save(w) \/ Truncate(w) \/ Write(w) \/ Reply(w)
  <2>1. UNCHANGED vars
    BY <1>4 DEF Read, Disconnect, Chain, Save, Truncate, Write, Reply
  <2>2. QED
    BY <1>1, <2>1
<1>5. CASE OpenNew(w)
  <2>1. CASE \E k \in Keys, s \in Sessions : BrowserCreate(w, k) /\ Open(k, s, NoHistory)
    <3>1. PICK k \in Keys, s \in Sessions : BrowserCreate(w, k) /\ Open(k, s, NoHistory)
      BY <2>1
    <3>2. Opening(w, k, s, NoHistory)
      BY <1>5, <3>1 DEF Opening, OpenNew, BrowserCreate
    <3>3. QED
      BY <1>3, <3>2, EmptyIsHistory
  <2>2. QED
    BY <1>1, <1>5, <2>1 DEF OpenNew
<1>6. CASE OpenKnown(w)
  <2>1. PICK k \in issued :
          /\ k \in OneTab => \A v \in Sockets : conv[v] # k
          /\ (\E s \in Sessions : Resume(k, s)) \/ UNCHANGED vars
    BY <1>6 DEF OpenKnown
  <2>2. k \in Keys
    BY <1>0 DEF FileTypes
  <2>3. CASE UNCHANGED vars
    BY <1>1, <2>3
  <2>4. ASSUME NEW s \in Sessions, Open(k, s, Restored(k)), current[k] = None, Readable(k)
        PROVE  TypeOK' /\ Effect
    <3>1. Restored(k) \in History /\ Restored(k) = disk[k]
      BY <1>0, <2>2, <2>4 DEF Restored, Readable, FileTypes
    <3>2. Opening(w, k, s, Restored(k))
      BY <1>6, <2>1, <2>4, <3>1 DEF Opening, OpenKnown
    <3>3. QED
      BY <1>3, <2>2, <3>1, <3>2
  <2>5. QED
    BY <2>1, <2>3, <2>4 DEF Resume
<1>7. CASE Chat(w)
  <2>1. /\ wpc[w] = "chat" /\ conv[w] \in Keys
        /\ (\E s \in Sessions : Resume(conv[w], s)) \/ UNCHANGED vars
    BY <1>0, <1>7 DEF Chat, SocketTypes, Holds
  <2>2. CASE UNCHANGED vars
    BY <1>1, <2>2
  <2>3. ASSUME NEW s \in Sessions, Open(conv[w], s, Restored(conv[w])), current[conv[w]] = None,
               Readable(conv[w])
        PROVE  TypeOK' /\ Effect
    <3>1. Restored(conv[w]) \in History /\ Restored(conv[w]) = disk[conv[w]]
      BY <1>0, <2>1, <2>3 DEF Restored, Readable, FileTypes
    <3>2. Opening(w, conv[w], s, Restored(conv[w]))
      BY <2>1, <2>3, <3>1 DEF Opening
    <3>3. QED
      BY <1>3, <2>1, <3>1, <3>2
  <2>4. QED
    BY <2>1, <2>2, <2>3 DEF Resume
<1>8. CASE Ask(w) \/ AskAgain(w)
  <2>1. /\ wpc[w] \in {"ask", "reask"} /\ session[w] \in Sessions /\ asked[w] \in Questions
        /\ AddMessage(session[w], Question(asked[w])) \/ UNCHANGED vars
    BY <1>0, <1>8 DEF Ask, AskAgain, SocketTypes, Holds, Working
  <2>2. CASE UNCHANGED vars
    BY <1>1, <2>2
  <2>3. CASE AddMessage(session[w], Question(asked[w]))
    <3>1. Adding(w, Question(asked[w])) /\ Question(asked[w]) \in Message
      BY <2>1, <2>3, Asked DEF Adding
    <3>2. QED
      BY <1>2, <2>1, <3>1
  <2>4. QED
    BY <2>1, <2>2, <2>3
<1>9. CASE Record(w)
  <2>1. /\ wpc[w] = "record" /\ session[w] \in Sessions /\ asked[w] \in Questions
        /\ AddMessage(session[w], Answer(asked[w])) \/ UNCHANGED vars
    BY <1>0, <1>9 DEF Record, SocketTypes, Holds, Working
  <2>2. CASE UNCHANGED vars
    BY <1>1, <2>2
  <2>3. CASE AddMessage(session[w], Answer(asked[w]))
    <3>1. Adding(w, Answer(asked[w])) /\ Answer(asked[w]) \in Message
      BY <2>1, <2>3, Asked DEF Adding
    <3>2. QED
      BY <1>2, <2>1, <3>1
  <2>4. QED
    BY <2>1, <2>2, <2>3
<1>10. CASE EndRefusing(w)
  <2>1. session[w] \in Sessions /\ (ClientEnd(session[w]) \/ UNCHANGED vars)
    BY <1>0, <1>10 DEF EndRefusing, SocketTypes, Holds, Working
  <2>2. CASE UNCHANGED vars
    BY <1>1, <2>2
  <2>3. CASE ClientEnd(session[w])
    <3>1. [Next]_vars
      BY <2>1, <2>3 DEF Next, Client
    <3>2. Receding
      BY <1>0, <2>1, <2>3, MarkingRecedes DEF ClientEnd
    <3>3. QED
      BY <1>0, <3>1, <3>2, TypeInductive
  <2>4. QED
    BY <2>1, <2>2, <2>3
<1>11. CASE PostRefusing(w)
  <2>1. session[w] \in Sessions /\ ClientPost(session[w])
    BY <1>0, <1>11 DEF PostRefusing, SocketTypes, Holds, Working
  <2>2. [Next]_vars
    BY <2>1 DEF Next, Client
  <2>3. UNCHANGED sessionVars
    BY <2>1 DEF ClientPost, PostEnd
  <2>4. QED
    BY <1>0, <2>2, <2>3, TypeInductive, UnchangedRecedes
<1>12. CASE Rotate(w)
  <2>1. PICK k \in Keys :
          /\ BrowserCreate(w, k)
          /\ (\E s \in Sessions : Open(k, s, NoHistory)) \/ UNCHANGED vars
    BY <1>12 DEF Rotate
  <2>2. CASE UNCHANGED vars
    BY <1>1, <2>2
  <2>3. ASSUME NEW s \in Sessions, Open(k, s, NoHistory) PROVE TypeOK' /\ Effect
    <3>1. Opening(w, k, s, NoHistory)
      BY <1>12, <2>1, <2>3 DEF Opening, Rotate, BrowserCreate
    <3>2. QED
      BY <1>3, <3>1, EmptyIsHistory
  <2>4. QED
    BY <2>1, <2>2, <2>3
<1>13. QED
  BY <1>4, <1>5, <1>6, <1>7, <1>8, <1>9, <1>10, <1>11, <1>12 DEF Socket

\* A socket's goroutine moves no other one.
LEMMA Others ==
  ASSUME SocketTypes, NEW w \in Sockets, Socket(w), NEW v \in Sockets, v # w
  PROVE  /\ wpc'[v] = wpc[v] /\ conv'[v] = conv[v] /\ asked'[v] = asked[v]
         /\ session'[v] = session[v] /\ snapshot'[v] = snapshot[v]
<1> USE DEF SocketTypes, Goto
<1>1. CASE Read(w) \/ Disconnect(w)
  BY <1>1 DEF Read, Disconnect
<1>2. CASE OpenNew(w)
  BY <1>2 DEF OpenNew, BrowserCreate
<1>3. CASE OpenKnown(w)
  BY <1>3 DEF OpenKnown
<1>4. CASE Chat(w)
  BY <1>4 DEF Chat
<1>5. CASE Ask(w) \/ AskAgain(w) \/ Record(w)
  BY <1>5 DEF Ask, AskAgain, Record
<1>6. CASE EndRefusing(w) \/ PostRefusing(w)
  BY <1>6 DEF EndRefusing, PostRefusing
<1>7. CASE Rotate(w)
  BY <1>7 DEF Rotate, BrowserCreate
<1>8. CASE Chain(w)
  BY <1>8 DEF Chain
<1>9. CASE Save(w) \/ Truncate(w) \/ Write(w)
  BY <1>9 DEF Save, Truncate, Write
<1>10. CASE Reply(w)
  BY <1>10 DEF Reply
<1>11. QED
  BY <1>1, <1>2, <1>3, <1>4, <1>5, <1>6, <1>7, <1>8, <1>9, <1>10 DEF Socket

-----------------------------------------------------------------------------
(* Every variable keeps its type.                                           *)

\* What the others hold is theirs.
LEMMA OthersHold ==
  ASSUME SocketTypes, NEW w \in Sockets, Socket(w), Holds(w)'
  PROVE  \A v \in Sockets : Holds(v)'
<1> SUFFICES ASSUME NEW v \in Sockets, v # w PROVE Holds(v)'
  OBVIOUS
<1>1. Holds(v)
  BY DEF SocketTypes
<1>2. QED
  BY <1>1, Others DEF Holds, Working

LEMMA SocketTypesSteps ==
  ASSUME WebTypes, NEW w \in Sockets, Socket(w)
  PROVE  SocketTypes' /\ FileTypes'
<1>0. /\ SocketTypes /\ FileTypes /\ Holds(w)
      /\ wpc[w] = "chat" \/ Working(w) => conv[w] \in Keys
  BY DEF WebTypes, SocketTypes, Holds
<1> DEFINE Own == /\ wpc' \in [Sockets -> {"read", "open", "chat", "ask", "end", "post",
                                           "rotate", "reask", "chain", "record", "save",
                                           "truncate", "write", "reply"}]
                  /\ conv' \in [Sockets -> Keys \cup {None}]
                  /\ asked' \in [Sockets -> Questions \cup {None}]
                  /\ session' \in [Sockets -> Sessions \cup {None}]
                  /\ snapshot' \in [Sockets -> History \cup {None}]
                  /\ Holds(w)'
<1>1. ASSUME Own PROVE SocketTypes'
  BY <1>0, <1>1, OthersHold DEF SocketTypes
<1> HIDE DEF Own
<1> USE DEF Goto, fileVars
<1>2. CASE Read(w)
  <2>1. Own
    BY <1>0, <1>2 DEF Own, Read, SocketTypes, Holds, Working
  <2>2. QED
    BY <1>0, <1>1, <1>2, <2>1 DEF Read, FileTypes
<1>3. CASE Disconnect(w) \/ Chain(w)
  <2>1. Own
    BY <1>0, <1>3 DEF Own, Disconnect, Chain, SocketTypes, Holds, Working
  <2>2. QED
    BY <1>0, <1>1, <1>3, <2>1 DEF Disconnect, Chain, FileTypes
<1>4. CASE OpenNew(w)
  <2>1. /\ UNCHANGED <<asked, session, snapshot, disk, kept, delivered, crashes>>
        /\ \/ \E k \in Keys : /\ issued' = issued \cup {k} /\ conv' = [conv EXCEPT ![w] = k]
                              /\ wpc' = [wpc EXCEPT ![w] = "chat"]
           \/ UNCHANGED <<conv, issued>> /\ wpc' = [wpc EXCEPT ![w] = "read"]
        /\ wpc[w] = "open"
    BY <1>4 DEF OpenNew, BrowserCreate
  <2>2. Own
    BY <1>0, <2>1 DEF Own, SocketTypes, Holds, Working
  <2>3. QED
    BY <1>0, <1>1, <2>1, <2>2 DEF FileTypes
<1>5. CASE OpenKnown(w)
  <2>1. /\ UNCHANGED <<asked, session, snapshot, fileVars, crashes>>
        /\ \/ \E k \in issued : conv' = [conv EXCEPT ![w] = k] /\ wpc' = [wpc EXCEPT ![w] = "chat"]
           \/ UNCHANGED conv /\ wpc' = [wpc EXCEPT ![w] = "read"]
        /\ wpc[w] = "open" /\ issued \subseteq Keys
    BY <1>0, <1>5 DEF OpenKnown, FileTypes
  <2>2. Own
    BY <1>0, <2>1 DEF Own, SocketTypes, Holds, Working
  <2>3. QED
    BY <1>0, <1>1, <2>1, <2>2 DEF FileTypes
<1>6. CASE Chat(w)
  <2>1. /\ UNCHANGED <<conv, asked, snapshot, fileVars, crashes>>
        /\ \/ \E s \in Sessions : session' = [session EXCEPT ![w] = s]
                                  /\ wpc' = [wpc EXCEPT ![w] = "ask"]
           \/ UNCHANGED session /\ wpc' = [wpc EXCEPT ![w] = "read"]
        /\ wpc[w] = "chat"
    BY <1>6 DEF Chat
  <2>2. Own
    BY <1>0, <2>1 DEF Own, SocketTypes, Holds, Working
  <2>3. QED
    BY <1>0, <1>1, <2>1, <2>2 DEF FileTypes
<1>7. CASE Ask(w) \/ AskAgain(w) \/ EndRefusing(w) \/ PostRefusing(w) \/ Record(w)
  <2>1. /\ UNCHANGED <<conv, asked, session, snapshot, fileVars, crashes>>
        /\ \E label \in {"chain", "end", "post", "rotate", "save"} :
             wpc' = [wpc EXCEPT ![w] = label]
        /\ wpc[w] \in {"ask", "reask", "end", "post", "record"}
    BY <1>7 DEF Ask, AskAgain, EndRefusing, PostRefusing, Record
  <2>2. Own
    BY <1>0, <2>1 DEF Own, SocketTypes, Holds, Working
  <2>3. QED
    BY <1>0, <1>1, <2>1, <2>2 DEF FileTypes
<1>8. CASE Rotate(w)
  <2>1. /\ UNCHANGED <<asked, snapshot, disk, kept, delivered, crashes>>
        /\ \E k \in Keys : issued' = issued \cup {k} /\ conv' = [conv EXCEPT ![w] = k]
        /\ \/ \E s \in Sessions : session' = [session EXCEPT ![w] = s]
                                  /\ wpc' = [wpc EXCEPT ![w] = "reask"]
           \/ UNCHANGED session /\ wpc' = [wpc EXCEPT ![w] = "read"]
        /\ wpc[w] = "rotate"
    BY <1>8 DEF Rotate, BrowserCreate
  <2>2. Own
    BY <1>0, <2>1 DEF Own, SocketTypes, Holds, Working
  <2>3. QED
    BY <1>0, <1>1, <2>1, <2>2 DEF FileTypes
<1>9. CASE Save(w)
  <2>1. /\ UNCHANGED <<conv, asked, session, fileVars, crashes>>
        /\ snapshot' = [snapshot EXCEPT ![w] = [messages |-> messages[session[w]],
                                                rounds |-> rounds[session[w]]]]
        /\ wpc' = [wpc EXCEPT ![w] = "truncate"] /\ wpc[w] = "save"
    BY <1>9 DEF Save
  <2>2. [messages |-> messages[session[w]], rounds |-> rounds[session[w]]] \in History
    BY <1>0, <2>1 DEF WebTypes, TypeOK, History, Holds, Working
  <2>3. Own
    BY <1>0, <2>1, <2>2 DEF Own, SocketTypes, Holds, Working
  <2>4. QED
    BY <1>0, <1>1, <2>1, <2>3 DEF FileTypes
<1>10. CASE Truncate(w)
  <2>1. /\ UNCHANGED <<conv, asked, session, snapshot, issued, kept, delivered, crashes>>
        /\ disk' = [disk EXCEPT ![FileOf(w)] = Torn] \/ UNCHANGED disk
        /\ \E label \in {"write", "read"} : wpc' = [wpc EXCEPT ![w] = label]
        /\ wpc[w] = "truncate"
    BY <1>10 DEF Truncate
  <2>2. Own
    BY <1>0, <2>1 DEF Own, SocketTypes, Holds, Working
  <2>3. QED
    BY <1>0, <1>1, <2>1, <2>2 DEF FileTypes
<1>11. CASE Write(w)
  <2>1. /\ UNCHANGED <<conv, asked, session, issued, delivered, crashes>>
        /\ snapshot' = [snapshot EXCEPT ![w] = None]
        /\ \/ /\ \/ disk' = [disk EXCEPT ![FileOf(w)] = snapshot[w]]
                 \/ disk' = [disk EXCEPT ![FileOf(w)] = Torn]
              /\ kept' = [kept EXCEPT ![FileOf(w)] = @ \cup Range(snapshot[w].messages)]
           \/ UNCHANGED <<disk, kept>>
        /\ \E label \in {"reply", "read"} : wpc' = [wpc EXCEPT ![w] = label]
        /\ wpc[w] = "write"
    BY <1>11 DEF Write
  <2>2. Own
    BY <1>0, <2>1 DEF Own, SocketTypes, Holds, Working
  <2>3. snapshot[w] \in History
    BY <1>0, <2>1 DEF Holds
  <2>4. Range(snapshot[w].messages) \subseteq Message
    BY <2>3 DEF History, Range
  <2>5. disk' \in [Keys -> History \cup {None, Torn}]
    BY <1>0, <2>1, <2>3 DEF FileTypes
  <2>6. kept' \in [Keys -> SUBSET Message]
    BY <1>0, <2>1, <2>4 DEF FileTypes
  <2>7. QED
    BY <1>0, <1>1, <2>1, <2>2, <2>5, <2>6 DEF FileTypes
<1>12. CASE Reply(w)
  <2>1. /\ UNCHANGED <<conv, snapshot, disk, issued, kept, crashes>>
        /\ delivered' = delivered \cup {<<conv[w], asked[w]>>}
        /\ wpc' = [wpc EXCEPT ![w] = "read"] /\ wpc[w] = "reply"
        /\ asked' = [asked EXCEPT ![w] = None] /\ session' = [session EXCEPT ![w] = None]
    BY <1>12 DEF Reply
  <2>2. Own
    BY <1>0, <2>1 DEF Own, SocketTypes, Holds, Working
  <2>3. conv[w] \in Keys /\ asked[w] \in Questions
    BY <1>0, <2>1 DEF Holds, Working
  <2>4. QED
    BY <1>0, <1>1, <2>1, <2>2, <2>3 DEF FileTypes
<1>13. QED
  BY <1>2, <1>3, <1>4, <1>5, <1>6, <1>7, <1>8, <1>9, <1>10, <1>11, <1>12 DEF Socket

LEMMA TypesInitially == WebInit => WebTypes
<1> SUFFICES ASSUME WebInit PROVE WebTypes
  OBVIOUS
<1>1. TypeOK
  BY InitSafety DEF WebInit, SafetyInv
<1>2. SocketTypes /\ FileTypes
  BY DEF WebInit, SocketTypes, FileTypes, Holds, Working
<1>3. QED
  BY <1>1, <1>2 DEF WebTypes

LEMMA TypesSteps == WebTypes /\ [WebNext]_webVars => WebTypes'
<1> SUFFICES ASSUME WebTypes, [WebNext]_webVars PROVE WebTypes'
  OBVIOUS
<1>1. ASSUME NEW w \in Sockets, Socket(w) PROVE WebTypes'
  BY <1>1, SocketEffect, SocketTypesSteps DEF WebTypes
<1>2. ASSUME UNCHANGED <<socketVars, fileVars, crashes>> PROVE SocketTypes' /\ FileTypes'
  BY <1>2 DEF WebTypes, socketVars, fileVars, SocketTypes, Holds, Working, FileTypes
<1>3. CASE Background /\ UNCHANGED <<socketVars, fileVars, crashes>>
  BY <1>2, <1>3, BackgroundRecedes DEF WebTypes
<1>4. CASE Crash
  <2>1. SocketTypes'
    BY <1>4 DEF Crash, SocketTypes, Holds, Working
  <2>2. FileTypes'
    BY <1>4 DEF WebTypes, Crash, FileTypes, fileVars
  <2>3. QED
    BY <1>4, <2>1, <2>2, CrashRecedes DEF WebTypes
<1>5. CASE UNCHANGED webVars
  <2>1. TypeOK'
    BY <1>5, TypeInductive DEF WebTypes, webVars
  <2>2. QED
    BY <1>2, <1>5, <2>1 DEF WebTypes, webVars
<1>6. QED
  BY <1>1, <1>3, <1>4, <1>5 DEF WebNext

-----------------------------------------------------------------------------
(* Histories only grow, and files and snapshots are of one instant.         *)

Effect ==
  \/ Receding
  \/ \E w \in Sockets : \/ \E e \in Message : Adding(w, e)
                        \/ \E k \in Keys, s \in Sessions, h \in History : Opening(w, k, s, h)

LEMMA EffectSteps ==
  ASSUME WebTypes, [WebNext]_webVars
  PROVE  Effect
<1>1. ASSUME NEW w \in Sockets, Socket(w) PROVE Effect
  BY <1>1, SocketEffect DEF Effect
<1>2. CASE Background
  BY <1>2, BackgroundRecedes DEF WebTypes, Effect
<1>3. CASE Crash
  BY <1>3, CrashRecedes DEF Effect
<1>4. CASE UNCHANGED webVars
  BY <1>4, UnchangedRecedes DEF webVars, vars, Effect
<1>5. QED
  BY <1>1, <1>2, <1>3, <1>4 DEF WebNext

LEMMA PrefixMeans ==
  ASSUME NEW S, NEW s \in Seq(S), NEW t \in Seq(S)
  PROVE  IsPrefix(s, t) <=> Len(s) <= Len(t) /\ \A i \in 1 .. Len(s) : s[i] = t[i]
<1>1. CASE Len(s) <= Len(t)
  <2>1. /\ Len(SubSeq(s, 1, Len(s))) = Len(s) /\ Len(SubSeq(t, 1, Len(s))) = Len(s)
        /\ \A i \in 1 .. Len(s) : /\ SubSeq(s, 1, Len(s))[i] = s[i]
                                  /\ SubSeq(t, 1, Len(s))[i] = t[i]
    BY <1>1
  <2>2. SubSeq(s, 1, Len(s)) \in Seq(S) /\ SubSeq(t, 1, Len(s)) \in Seq(S)
    BY <1>1
  <2>3. ASSUME \A i \in 1 .. Len(s) : s[i] = t[i] PROVE IsPrefix(s, t)
    BY <1>1, <2>1, <2>2, <2>3 DEF IsPrefix
  <2>4. ASSUME IsPrefix(s, t) PROVE \A i \in 1 .. Len(s) : s[i] = t[i]
    BY <2>1, <2>4 DEF IsPrefix
  <2>5. QED
    BY <1>1, <2>3, <2>4
<1>2. QED
  BY <1>1 DEF IsPrefix

LEMMA PrefixTransitive ==
  ASSUME NEW S, NEW s \in Seq(S), NEW t \in Seq(S), NEW u \in Seq(S),
         IsPrefix(s, t), IsPrefix(t, u)
  PROVE  IsPrefix(s, u)
BY PrefixMeans

LEMMA CountEmpty == QuestionCount(<<>>) = 0
<1>1. {i \in DOMAIN <<>> : <<>>[i].role = "user"} = {}
  OBVIOUS
<1>2. QED
  BY <1>1, FS_EmptySet DEF QuestionCount

LEMMA CountAdded ==
  ASSUME NEW seq \in Seq(Message), NEW e \in Message
  PROVE  /\ QuestionCount(seq) \in Nat
         /\ QuestionCount(Append(seq, e)) =
              IF e.role = "user" THEN QuestionCount(seq) + 1 ELSE QuestionCount(seq)
<1> DEFINE n == Len(seq)
           more == Append(seq, e)
           before == {i \in DOMAIN seq : seq[i].role = "user"}
           after == {i \in DOMAIN more : more[i].role = "user"}
<1>1. /\ n \in Nat /\ DOMAIN seq = 1 .. n /\ DOMAIN more = 1 .. (n + 1)
      /\ more[n + 1] = e /\ \A i \in 1 .. n : more[i] = seq[i]
  OBVIOUS
<1>2. IsFiniteSet(before) /\ Cardinality(before) \in Nat
  <2>1. IsFiniteSet(1 .. n)
    BY <1>1, FS_Interval
  <2>2. before \subseteq 1 .. n
    BY <1>1
  <2>3. QED
    BY <2>1, <2>2, FS_Subset, FS_CardinalityType
<1>3. CASE e.role = "user"
  <2>1. after = before \cup {n + 1} /\ n + 1 \notin before
    BY <1>1, <1>3
  <2>2. Cardinality(after) = Cardinality(before) + 1
    BY <1>2, <2>1, FS_AddElement
  <2>3. QED
    BY <1>2, <1>3, <2>2 DEF QuestionCount
<1>4. CASE e.role # "user"
  <2>1. after = before
    BY <1>1, <1>4
  <2>2. QED
    BY <1>2, <1>4, <2>1 DEF QuestionCount
<1>5. QED
  BY <1>3, <1>4

LEMMA AddingTypes ==
  ASSUME WebTypes, NEW w \in Sockets, NEW e, Adding(w, e)
  PROVE  /\ session[w] \in Sessions /\ messages[session[w]] \in Seq(Message)
         /\ state[session[w]] = "active" /\ UNCHANGED state /\ UNCHANGED current
         /\ messages' = [messages EXCEPT ![session[w]] = Append(@, e)]
         /\ rounds' = [rounds EXCEPT ![session[w]] = IF e.role = "user" THEN @ + 1 ELSE @]
         /\ e.role = "user" => rounds[session[w]] < MaxRounds
<1>1. session[w] \in Sessions
  BY DEF Adding, WebTypes, SocketTypes, Holds, Working
<1>2. QED
  BY <1>1 DEF Adding, AddMessage, Accepts, WebTypes, TypeOK

LEMMA Growing ==
  ASSUME WebTypes, WebTypes', UnusedIsEmpty, Effect
  PROVE  /\ \A s \in Sessions : IsPrefix(messages[s], messages'[s])
         /\ UnusedIsEmpty'
<1>0. /\ \A s \in Sessions : messages[s] \in Seq(Message) /\ messages'[s] \in Seq(Message)
      /\ messages \in [Sessions -> Seq(Message)] /\ state \in [Sessions -> {"unused", "active", "ending", "closed"}]
  BY DEF WebTypes, TypeOK
<1>1. CASE Receding
  BY <1>0, <1>1, PrefixMeans DEF Receding, UnusedIsEmpty
<1>2. ASSUME NEW w \in Sockets, NEW e \in Message, Adding(w, e)
      PROVE  /\ \A s \in Sessions : IsPrefix(messages[s], messages'[s])
             /\ UnusedIsEmpty'
  <2>1. ASSUME NEW s \in Sessions PROVE IsPrefix(messages[s], messages'[s])
    <3>1. messages'[s] = messages[s] \/ messages'[s] = Append(messages[s], e)
      BY <1>0, <1>2, AddingTypes
    <3>2. CASE messages'[s] = messages[s]
      BY <1>0, <3>2, PrefixMeans
    <3>3. CASE messages'[s] = Append(messages[s], e)
      <4>1. /\ Len(messages[s]) <= Len(messages'[s])
            /\ \A i \in 1 .. Len(messages[s]) : messages[s][i] = messages'[s][i]
        BY <1>0, <3>3
      <4>2. QED
        BY <1>0, <4>1, PrefixMeans
    <3>4. QED
      BY <3>1, <3>2, <3>3
  <2>2. UnusedIsEmpty'
    BY <1>0, <1>2, AddingTypes DEF UnusedIsEmpty
  <2>3. QED
    BY <2>1, <2>2
<1>3. ASSUME NEW w \in Sockets, NEW k \in Keys, NEW s \in Sessions, NEW h \in History,
             Opening(w, k, s, h)
      PROVE  /\ \A t \in Sessions : IsPrefix(messages[t], messages'[t])
             /\ UnusedIsEmpty'
  <2>1. /\ messages[s] = <<>> /\ state' = [state EXCEPT ![s] = "active"]
        /\ messages' = [messages EXCEPT ![s] = h.messages]
    BY <1>3 DEF Opening, Open, UnusedIsEmpty
  <2>2. ASSUME NEW t \in Sessions PROVE IsPrefix(messages[t], messages'[t])
    <3>1. CASE t = s
      <4>1. Len(messages[t]) = 0
        BY <2>1, <3>1
      <4>2. QED
        BY <1>0, <4>1, PrefixMeans
    <3>2. CASE t # s
      BY <1>0, <2>1, <3>2, PrefixMeans
    <3>3. QED
      BY <3>1, <3>2
  <2>3. UnusedIsEmpty'
    BY <1>0, <2>1 DEF UnusedIsEmpty
  <2>4. QED
    BY <2>2, <2>3
<1>4. QED
  BY <1>1, <1>2, <1>3 DEF Effect

\* A history that is resumed was counted when it was written.
LEMMA OpenedHistory ==
  ASSUME WebTypes, FilesAreClones, NEW w \in Sockets, NEW k \in Keys, NEW s \in Sessions,
         NEW h, Opening(w, k, s, h)
  PROVE  /\ h.rounds = QuestionCount(h.messages)
         /\ h \in History
         /\ h.messages = <<>> \/ \E t \in Sessions : KeyOf[t] = k /\ IsPrefix(h.messages, messages[t])
<1>1. CASE h = NoHistory
  BY <1>1, CountEmpty, EmptyIsHistory
<1>2. CASE Readable(k) /\ h = disk[k]
  <2>1. h \in History
    BY <1>2 DEF WebTypes, FileTypes, Readable
  <2>2. QED
    BY <1>2, <2>1 DEF FilesAreClones
<1>3. QED
  BY <1>1, <1>2 DEF Opening

LEMMA CountingSteps ==
  ASSUME WebTypes, RoundsAreQuestions, FilesAreClones, Effect
  PROVE  RoundsAreQuestions'
<1>0. /\ messages \in [Sessions -> Seq(Message)] /\ rounds \in [Sessions -> Nat]
      /\ \A s \in Sessions : messages[s] \in Seq(Message)
  BY DEF WebTypes, TypeOK
<1>1. CASE Receding
  BY <1>1 DEF Receding, RoundsAreQuestions
<1>2. ASSUME NEW w \in Sockets, NEW e \in Message, Adding(w, e) PROVE RoundsAreQuestions'
  <2> SUFFICES ASSUME NEW s \in Sessions PROVE rounds'[s] = QuestionCount(messages'[s])
    BY DEF RoundsAreQuestions
  <2>1. rounds[s] = QuestionCount(messages[s])
    BY DEF RoundsAreQuestions
  <2>2. CASE s = session[w]
    <3>1. /\ messages'[s] = Append(messages[s], e)
          /\ rounds'[s] = IF e.role = "user" THEN rounds[s] + 1 ELSE rounds[s]
      BY <1>0, <1>2, <2>2, AddingTypes
    <3>2. QED
      BY <1>0, <2>1, <3>1, CountAdded
  <2>3. CASE s # session[w]
    BY <1>0, <1>2, <2>1, <2>3, AddingTypes
  <2>4. QED
    BY <2>2, <2>3
<1>3. ASSUME NEW w \in Sockets, NEW k \in Keys, NEW s \in Sessions, NEW h \in History,
             Opening(w, k, s, h)
      PROVE  RoundsAreQuestions'
  <2>1. /\ messages' = [messages EXCEPT ![s] = h.messages]
        /\ rounds' = [rounds EXCEPT ![s] = h.rounds]
    BY <1>3 DEF Opening, Open
  <2>2. h.rounds = QuestionCount(h.messages)
    BY <1>3, OpenedHistory
  <2>3. QED
    BY <1>0, <2>1, <2>2 DEF RoundsAreQuestions
<1>4. QED
  BY <1>1, <1>2, <1>3 DEF Effect

\* The step that brought a socket where it is.
LEMMA Arrives ==
  ASSUME SocketTypes, NEW w \in Sockets, Socket(w)
  PROVE  /\ wpc'[w] = "open" => Read(w)
         /\ wpc'[w] = "chat" => Read(w) \/ OpenNew(w) \/ OpenKnown(w)
         /\ wpc'[w] = "ask" => Chat(w)
         /\ wpc'[w] = "end" => Ask(w)
         /\ wpc'[w] = "post" => EndRefusing(w)
         /\ wpc'[w] = "rotate" => EndRefusing(w) \/ PostRefusing(w)
         /\ wpc'[w] = "reask" => Rotate(w)
         /\ wpc'[w] = "chain" => Ask(w) \/ AskAgain(w)
         /\ wpc'[w] = "record" => Chain(w)
         /\ wpc'[w] = "save" => Record(w)
         /\ wpc'[w] = "truncate" => Save(w)
         /\ wpc'[w] = "write" => Truncate(w)
         /\ wpc'[w] = "reply" => Write(w)
<1> USE DEF SocketTypes, Goto
<1>1. Read(w) => wpc'[w] \in {"open", "chat"}
  BY DEF Read
<1>2. Disconnect(w) => wpc'[w] = "read"
  BY DEF Disconnect
<1>3. OpenNew(w) \/ OpenKnown(w) => wpc'[w] \in {"chat", "read"}
  BY DEF OpenNew, OpenKnown
<1>4. Chat(w) => wpc'[w] \in {"ask", "read"}
  BY DEF Chat
<1>5. Ask(w) => wpc'[w] \in {"chain", "end"}
  BY DEF Ask
<1>6. EndRefusing(w) => wpc'[w] \in {"post", "rotate"}
  BY DEF EndRefusing
<1>7. PostRefusing(w) => wpc'[w] = "rotate"
  BY DEF PostRefusing
<1>8. Rotate(w) => wpc'[w] \in {"reask", "read"}
  BY DEF Rotate
<1>9. AskAgain(w) => wpc'[w] = "chain"
  BY DEF AskAgain
<1>10. Chain(w) => wpc'[w] \in {"record", "read"}
  BY DEF Chain
<1>11. Record(w) => wpc'[w] = "save"
  BY DEF Record
<1>12. Save(w) => wpc'[w] = "truncate"
  BY DEF Save
<1>13. Truncate(w) => wpc'[w] \in {"write", "read"}
  BY DEF Truncate
<1>14. Write(w) => wpc'[w] \in {"reply", "read"}
  BY DEF Write
<1>15. Reply(w) => wpc'[w] = "read"
  BY DEF Reply
<1>16. QED
  BY <1>1, <1>2, <1>3, <1>4, <1>5, <1>6, <1>7, <1>8, <1>9, <1>10, <1>11, <1>12, <1>13, <1>14,
     <1>15 DEF Socket

\* Only the two halves of a write touch the files.
LEMMA FilesSteps ==
  ASSUME [WebNext]_webVars
  PROVE  UNCHANGED <<disk, kept>> \/ \E w \in Sockets : Truncate(w) \/ Write(w)
<1>1. ASSUME NEW w \in Sockets, Socket(w), ~Truncate(w), ~Write(w) PROVE UNCHANGED <<disk, kept>>
  BY <1>1 DEF Socket, Read, Disconnect, OpenNew, OpenKnown, Chat, Ask, EndRefusing, PostRefusing,
              Rotate, AskAgain, Chain, Record, Save, Reply, fileVars
<1>2. CASE Crash \/ (Background /\ UNCHANGED <<socketVars, fileVars, crashes>>) \/ UNCHANGED webVars
  BY <1>2 DEF Crash, fileVars, webVars
<1>3. QED
  BY <1>1, <1>2 DEF WebNext

\* A session grows while its snapshot is being written.
LEMMA SnapshotSteps ==
  ASSUME WebTypes, WebTypes', UnusedIsEmpty, RoundsAreQuestions, SnapshotIsOneInstant,
         [WebNext]_webVars
  PROVE  SnapshotIsOneInstant'
<1>0. \A s \in Sessions : /\ IsPrefix(messages[s], messages'[s])
                          /\ messages[s] \in Seq(Message) /\ messages'[s] \in Seq(Message)
  BY EffectSteps, Growing DEF WebTypes, TypeOK
<1>1. ASSUME NEW v \in Sockets, wpc[v] \in {"truncate", "write"},
             UNCHANGED <<snapshot[v], session[v]>>
      PROVE  /\ snapshot'[v].rounds = QuestionCount(snapshot'[v].messages)
             /\ IsPrefix(snapshot'[v].messages, messages'[session'[v]])
  <2>1. session[v] \in Sessions /\ snapshot[v].messages \in Seq(Message)
    BY <1>1 DEF WebTypes, SocketTypes, Holds, Working, History
  <2>2. IsPrefix(snapshot[v].messages, messages'[session[v]])
    BY <1>0, <1>1, <2>1, PrefixTransitive DEF SnapshotIsOneInstant
  <2>3. QED
    BY <1>1, <2>2 DEF SnapshotIsOneInstant
<1>2. ASSUME NEW w \in Sockets, Socket(w) PROVE SnapshotIsOneInstant'
  <2> SUFFICES ASSUME NEW v \in Sockets, wpc'[v] \in {"truncate", "write"}
               PROVE  /\ snapshot'[v].rounds = QuestionCount(snapshot'[v].messages)
                      /\ IsPrefix(snapshot'[v].messages, messages'[session'[v]])
    BY DEF SnapshotIsOneInstant
  <2>0. SocketTypes
    BY DEF WebTypes
  <2>1. CASE v # w
    BY <1>1, <1>2, <2>0, <2>1, Others
  <2>2. CASE v = w /\ Truncate(w)
    BY <1>1, <2>2 DEF Truncate
  <2>3. CASE v = w /\ Save(w)
    <3>1. /\ snapshot'[w] = [messages |-> messages[session[w]], rounds |-> rounds[session[w]]]
          /\ UNCHANGED <<session, messages>> /\ wpc[w] = "save"
      BY <2>0, <2>3 DEF Save, SocketTypes, vars, sessionVars
    <3>2. session[w] \in Sessions
      BY <2>0, <3>1 DEF SocketTypes, Holds, Working
    <3>3. IsPrefix(messages[session[w]], messages[session[w]])
      BY <1>0, <3>2, PrefixMeans
    <3>4. QED
      BY <2>3, <3>1, <3>2, <3>3 DEF RoundsAreQuestions
  <2>4. QED
    BY <1>2, <2>0, <2>1, <2>2, <2>3, Arrives
<1>3. CASE Crash
  BY <1>3 DEF Crash, SnapshotIsOneInstant
<1>4. CASE UNCHANGED socketVars
  BY <1>1, <1>4 DEF socketVars, SnapshotIsOneInstant
<1>5. QED
  BY <1>2, <1>3, <1>4 DEF WebNext, webVars

\* A file is written from a snapshot, and its session only grows.
LEMMA FileSteps ==
  ASSUME WebTypes, WebTypes', UnusedIsEmpty, SnapshotIsOneInstant, FilesAreClones,
         [WebNext]_webVars
  PROVE  FilesAreClones'
<1>0. \A s \in Sessions : /\ IsPrefix(messages[s], messages'[s])
                          /\ messages[s] \in Seq(Message) /\ messages'[s] \in Seq(Message)
  BY EffectSteps, Growing DEF WebTypes, TypeOK
<1> SUFFICES ASSUME NEW k \in Keys, Readable(k)'
             PROVE  /\ disk'[k].rounds = QuestionCount(disk'[k].messages)
                    /\ \E s \in Sessions : KeyOf[s] = k /\ IsPrefix(disk'[k].messages, messages'[s])
  BY DEF FilesAreClones
<1>1. CASE disk'[k] = disk[k]
  <2>1. Readable(k) /\ disk[k] \in History
    BY <1>1 DEF Readable, WebTypes, FileTypes
  <2>2. PICK s \in Sessions : KeyOf[s] = k /\ IsPrefix(disk[k].messages, messages[s])
    BY <2>1 DEF FilesAreClones
  <2>3. IsPrefix(disk[k].messages, messages'[s])
    BY <1>0, <2>1, <2>2, PrefixTransitive DEF History
  <2>4. QED
    BY <1>1, <2>1, <2>2, <2>3 DEF FilesAreClones
<1>2. ASSUME NEW w \in Sockets, wpc[w] = "write", FileOf(w) = k, disk'[k] = snapshot[w],
             UNCHANGED messages
      PROVE  /\ disk'[k].rounds = QuestionCount(disk'[k].messages)
             /\ \E s \in Sessions : KeyOf[s] = k /\ IsPrefix(disk'[k].messages, messages'[s])
  <2>1. session[w] \in Sessions
    BY <1>2 DEF WebTypes, SocketTypes, Holds, Working
  <2>2. QED
    BY <1>2, <2>1 DEF SnapshotIsOneInstant, FileOf
<1>3. ASSUME NEW w \in Sockets, Truncate(w) PROVE disk'[k] = disk[k]
  BY <1>3 DEF Truncate, WebTypes, FileTypes, Readable
<1>4. ASSUME NEW w \in Sockets, Write(w)
      PROVE  \/ disk'[k] = disk[k]
             \/ wpc[w] = "write" /\ FileOf(w) = k /\ disk'[k] = snapshot[w] /\ UNCHANGED messages
  BY <1>4 DEF Write, WebTypes, FileTypes, Readable, vars, sessionVars
<1>5. QED
  BY <1>1, <1>2, <1>3, <1>4, FilesSteps

LEMMA InstantsInitially == WebInit => Instants
<1> SUFFICES ASSUME WebInit PROVE Instants
  OBVIOUS
<1>1. UnusedIsEmpty /\ RoundsAreQuestions
  BY CountEmpty DEF WebInit, Init, UnusedIsEmpty, RoundsAreQuestions
<1>2. SnapshotIsOneInstant /\ FilesAreClones
  BY DEF WebInit, SnapshotIsOneInstant, FilesAreClones, Readable
<1>3. QED
  BY <1>1, <1>2 DEF Instants

LEMMA InstantsSteps ==
  WebTypes /\ WebTypes' /\ Instants /\ [WebNext]_webVars => Instants'
BY EffectSteps, Growing, CountingSteps, SnapshotSteps, FileSteps DEF Instants

-----------------------------------------------------------------------------
(* A conversation opened in one socket at a time.                           *)

\* How a socket comes to its conversation.
LEMMA ConversationSteps ==
  ASSUME WebTypes, NEW w \in Sockets, Socket(w)
  PROVE  /\ issued \subseteq issued'
         /\ \/ conv'[w] = conv[w]
            \/ conv'[w] = None
            \/ wpc[w] \in {"open", "rotate"} /\ conv'[w] \in issued' \ issued
            \/ /\ wpc[w] = "open" /\ conv'[w] \in issued
               /\ conv'[w] \in OneTab => \A v \in Sockets : conv[v] # conv'[w]
<1> USE DEF WebTypes, SocketTypes, FileTypes, fileVars
<1>1. CASE Read(w) \/ Chat(w) \/ Ask(w) \/ EndRefusing(w) \/ PostRefusing(w) \/ AskAgain(w)
           \/ Chain(w) \/ Record(w) \/ Save(w) \/ Truncate(w) \/ Write(w) \/ Reply(w)
  BY <1>1 DEF Read, Chat, Ask, EndRefusing, PostRefusing, AskAgain, Chain, Record, Save, Truncate,
              Write, Reply
<1>2. CASE Disconnect(w)
  BY <1>2 DEF Disconnect
<1>3. CASE OpenNew(w)
  BY <1>3 DEF OpenNew, BrowserCreate
<1>4. CASE OpenKnown(w)
  BY <1>4 DEF OpenKnown
<1>5. CASE Rotate(w)
  BY <1>5 DEF Rotate, BrowserCreate
<1>6. QED
  BY <1>1, <1>2, <1>3, <1>4, <1>5 DEF Socket

\* How a socket comes to the session it works on, and how it keeps it.
Keeping(w) ==
  /\ Working(w) /\ conv'[w] = conv[w] /\ session'[w] = session[w]
  /\ Receding \/ \E e \in Message : Adding(w, e)

LEMMA WorkingSteps ==
  ASSUME WebTypes, NEW w \in Sockets, Socket(w), Working(w)'
  PROVE  /\ asked'[w] = asked[w]
         /\ \/ Chat(w) /\ Resume(conv[w], session'[w]) /\ conv'[w] = conv[w]
            \/ Rotate(w) /\ Open(conv'[w], session'[w], NoHistory) /\ conv'[w] \notin issued
            \/ Keeping(w)
<1> USE DEF WebTypes, SocketTypes, Holds, Goto
<1>1. wpc'[w] \notin {"read", "open", "chat"}
  BY DEF Working
<1>2. CASE Chat(w)
  BY <1>1, <1>2 DEF Chat
<1>3. CASE Rotate(w)
  <2>1. PICK k \in Keys : BrowserCreate(w, k)
                          /\ \E s \in Sessions : Open(k, s, NoHistory)
                                                 /\ session' = [session EXCEPT ![w] = s]
    BY <1>1, <1>3 DEF Rotate
  <2>2. conv'[w] = k /\ k \notin issued
    BY <2>1 DEF BrowserCreate
  <2>3. QED
    BY <1>3, <2>1, <2>2 DEF Rotate
<1>4. CASE Ask(w) \/ EndRefusing(w) \/ PostRefusing(w) \/ AskAgain(w) \/ Chain(w) \/ Record(w)
           \/ Save(w) \/ Truncate(w) \/ Write(w)
  <2>1. Working(w)
    BY <1>4 DEF Working, Ask, EndRefusing, PostRefusing, AskAgain, Chain, Record, Save, Truncate,
                Write
  <2>2. UNCHANGED <<conv, session, asked>>
    BY <1>4 DEF Ask, EndRefusing, PostRefusing, AskAgain, Chain, Record, Save, Truncate, Write
  <2>3. wpc[w] \notin {"open", "chat", "rotate"}
    BY <1>4 DEF Ask, EndRefusing, PostRefusing, AskAgain, Chain, Record, Save, Truncate, Write
  <2>4. Receding \/ \E e \in Message : Adding(w, e)
    BY <2>3, SocketEffect DEF Opening
  <2>5. QED
    BY <2>1, <2>2, <2>4 DEF Keeping
<1>5. CASE Read(w) \/ Disconnect(w) \/ OpenNew(w) \/ OpenKnown(w) \/ Reply(w)
  <2>1. wpc'[w] \in {"read", "open", "chat"}
    BY <1>5 DEF Read, Disconnect, OpenNew, OpenKnown, Reply
  <2>2. QED
    BY <1>1, <2>1
<1>6. QED
  BY <1>2, <1>3, <1>4, <1>5 DEF Socket

LEMMA MapSteps ==
  ASSUME WebTypes, MapIsByKey, Effect
  PROVE  /\ MapIsByKey'
         /\ \A s \in Sessions : state[s] # "unused" => state'[s] # "unused"
<1> USE DEF WebTypes, TypeOK
<1>1. CASE Receding
  BY <1>1 DEF Receding, MapIsByKey
<1>2. ASSUME NEW w \in Sockets, NEW e \in Message, Adding(w, e)
      PROVE  UNCHANGED <<current, state>>
  BY <1>2 DEF Adding, AddMessage
<1>3. ASSUME NEW w \in Sockets, NEW k \in Keys, NEW s \in Sessions, NEW h \in History,
             Opening(w, k, s, h)
      PROVE  /\ MapIsByKey'
             /\ \A t \in Sessions : state[t] # "unused" => state'[t] # "unused"
  BY <1>3 DEF Opening, Open, MapIsByKey
<1>4. QED
  BY <1>1, <1>2, <1>3 DEF Effect, MapIsByKey

\* The active session of k is the one it was, or was just opened.
LEMMA ActiveSteps ==
  ASSUME WebTypes, MapIsByKey, Effect, NEW k \in Keys, CurrentActive(k)'
  PROVE  \/ CurrentActive(k) /\ current'[k] = current[k]
         \/ \E w \in Sockets, h \in History : /\ current'[k] \in Sessions
                                              /\ Opening(w, k, current'[k], h)
<1> USE DEF WebTypes, TypeOK, CurrentActive
<1>1. CASE Receding
  BY <1>1 DEF Receding
<1>2. ASSUME NEW w \in Sockets, NEW e \in Message, Adding(w, e)
      PROVE  UNCHANGED <<current, state>>
  BY <1>2 DEF Adding, AddMessage
<1>3. ASSUME NEW w \in Sockets, NEW j \in Keys, NEW s \in Sessions, NEW h \in History,
             Opening(w, j, s, h), j # k
      PROVE  CurrentActive(k) /\ current'[k] = current[k]
  <2>1. KeyOf[s] = j /\ current' = [current EXCEPT ![j] = s] /\ state' = [state EXCEPT ![s] = "active"]
    BY <1>3 DEF Opening, Open
  <2>2. current'[k] = current[k] /\ current[k] # s
    BY <1>3, <2>1, ManagerAssumption DEF MapIsByKey
  <2>3. QED
    BY <2>1, <2>2
<1>4. ASSUME NEW w \in Sockets, NEW s \in Sessions, NEW h \in History, Opening(w, k, s, h)
      PROVE  current'[k] = s
  BY <1>4 DEF Opening, Open
<1>5. QED
  BY <1>1, <1>2, <1>3, <1>4 DEF Effect

LEMMA OwnSessionSteps ==
  ASSUME WebTypes, WebTypes', OneSocket, [WebNext]_webVars
  PROVE  MapIsByKey' /\ \A w \in Sockets : OwnSession(w)'
<1>0. /\ MapIsByKey' /\ WebTypes
      /\ \A s \in Sessions : state[s] # "unused" => state'[s] # "unused"
  BY EffectSteps, MapSteps DEF OneSocket
<1>1. ASSUME NEW v \in Sockets, issued \subseteq issued',
             UNCHANGED <<wpc[v], conv[v], session[v]>>
      PROVE  OwnSession(v)'
  <2>1. OwnSession(v) /\ (Working(v) => session[v] \in Sessions)
    BY DEF OneSocket, WebTypes, SocketTypes, Holds
  <2>2. QED
    BY <1>0, <1>1, <2>1 DEF OwnSession, Working
<1>2. ASSUME NEW w \in Sockets, Socket(w) PROVE \A v \in Sockets : OwnSession(v)'
  <2>1. issued \subseteq issued'
    BY <1>2, ConversationSteps
  <2>2. ASSUME NEW v \in Sockets, v # w PROVE OwnSession(v)'
    BY <1>1, <1>2, <2>1, <2>2, Others DEF WebTypes
  <2>3. OwnSession(w)'
    <3>1. conv'[w] # None => conv'[w] \in issued'
      BY <1>2, ConversationSteps DEF OneSocket, OwnSession
    <3>2. ASSUME Working(w)'
          PROVE  KeyOf[session'[w]] = conv'[w] /\ state'[session'[w]] # "unused"
      <4>0. session'[w] \in Sessions /\ session'[w] # None
        BY <3>2, ManagerAssumption DEF WebTypes, SocketTypes, Holds
      <4>1. CASE Chat(w) /\ Resume(conv[w], session'[w]) /\ conv'[w] = conv[w]
        <5>1. conv[w] \in Keys
          BY <4>1 DEF Chat, WebTypes, SocketTypes, Holds
        <5>2. CASE CurrentActive(conv[w]) /\ session'[w] = current[conv[w]] /\ UNCHANGED vars
          BY <4>0, <4>1, <5>1, <5>2 DEF CurrentActive, OneSocket, MapIsByKey, vars, sessionVars
        <5>3. CASE Open(conv[w], session'[w], Restored(conv[w]))
          BY <4>0, <4>1, <5>3 DEF Open, WebTypes, TypeOK
        <5>4. QED
          BY <4>1, <5>2, <5>3 DEF Resume
      <4>2. CASE Open(conv'[w], session'[w], NoHistory)
        BY <4>0, <4>2 DEF Open, WebTypes, TypeOK
      <4>3. CASE Keeping(w)
        BY <1>0, <4>0, <4>3 DEF Keeping, OneSocket, OwnSession
      <4>4. QED
        BY <1>2, <3>2, <4>1, <4>2, <4>3, WorkingSteps
    <3>3. QED
      BY <3>1, <3>2 DEF OwnSession
  <2>4. QED
    BY <2>2, <2>3
<1>3. CASE Crash
  BY <1>0, <1>3 DEF Crash, OwnSession, Working
<1>4. CASE UNCHANGED <<socketVars, fileVars, crashes>>
  BY <1>0, <1>1, <1>4 DEF socketVars, fileVars
<1>5. QED
  BY <1>0, <1>2, <1>3, <1>4 DEF WebNext, webVars

LEMMA AloneSteps ==
  ASSUME WebTypes, WebTypes', OneSocket, [WebNext]_webVars
  PROVE  Alone'
<1>0. /\ Effect /\ MapIsByKey /\ Alone /\ \A v \in Sockets : OwnSession(v)
      /\ OneTab \subseteq Keys /\ None \notin OneTab
  BY EffectSteps DEF OneSocket
\* A socket that goes on with its conversation.
<1>1. ASSUME NEW v \in Sockets, conv'[v] = conv[v], session'[v] = session[v], Working(v),
             conv[v] \in OneTab, CurrentActive(conv[v])', Receding \/ (\E e \in Message, w \in Sockets : Adding(w, e))
      PROVE  current'[conv[v]] = session[v]
  <2>1. CurrentActive(conv[v]) /\ current'[conv[v]] = current[conv[v]]
    BY <1>0, <1>1 DEF CurrentActive, Receding, Adding, AddMessage, WebTypes, TypeOK
  <2>2. QED
    BY <1>0, <1>1, <2>1 DEF Alone
<1>2. ASSUME NEW w \in Sockets, Socket(w) PROVE Alone'
  <2>0. SocketTypes
    BY DEF WebTypes
  <2> SUFFICES ASSUME NEW v \in Sockets, conv'[v] \in OneTab
               PROVE  /\ \A u \in Sockets : conv'[u] = conv'[v] => u = v
                      /\ Working(v)' /\ CurrentActive(conv[v])' => current'[conv'[v]] = session'[v]
    BY DEF Alone, CurrentActive
  <2>1. \A u \in Sockets : conv'[u] = conv'[v] => u = v
    <3>1. \A u \in Sockets : u # w => conv'[u] = conv[u]
      BY <1>2, <2>0, Others
    <3>2. CASE conv'[w] = conv[w]
      BY <1>0, <3>1, <3>2 DEF Alone
    <3>3. CASE conv'[w] = None
      BY <1>0, <3>1, <3>3 DEF Alone
    <3>4. CASE conv'[w] \notin issued
      BY <1>0, <3>1, <3>4 DEF Alone, OwnSession
    <3>5. CASE conv'[w] \in OneTab => \A u \in Sockets : conv[u] # conv'[w]
      BY <1>0, <3>1, <3>5 DEF Alone
    <3>6. QED
      BY <1>2, <3>2, <3>3, <3>4, <3>5, ConversationSteps
  <2>2. ASSUME Working(v)', CurrentActive(conv[v])' PROVE current'[conv'[v]] = session'[v]
    <3>1. CASE v # w
      <4>1. /\ conv'[v] = conv[v] /\ session'[v] = session[v] /\ Working(v)
            /\ conv[v] \in OneTab /\ CurrentActive(conv[v])'
        BY <1>2, <2>0, <2>2, <3>1, Others DEF Working, CurrentActive
      <4>2. CASE Receding \/ \E e \in Message : Adding(w, e)
        BY <1>1, <4>1, <4>2
      <4>3. ASSUME NEW k \in Keys, NEW s \in Sessions, NEW h \in History, Opening(w, k, s, h)
            PROVE  current'[conv[v]] = session[v]
        <5>1. k # conv[v]
          BY <1>0, <3>1, <4>1, <4>3 DEF Opening, Alone, OwnSession
        <5>2. /\ current' = [current EXCEPT ![k] = s] /\ state' = [state EXCEPT ![s] = "active"]
              /\ KeyOf[s] = k
          BY <4>3 DEF Opening, Open
        <5>3. current'[conv[v]] = current[conv[v]] /\ current[conv[v]] # s
          <6>1. conv[v] \in Keys /\ s # None /\ current'[conv[v]] = current[conv[v]]
            BY <1>0, <4>1, <5>1, <5>2, ManagerAssumption DEF WebTypes, TypeOK
          <6>2. QED
            BY <1>0, <5>1, <5>2, <6>1 DEF MapIsByKey
        <5>4. CurrentActive(conv[v])
          BY <4>1, <5>2, <5>3 DEF CurrentActive, WebTypes, TypeOK
        <5>5. QED
          BY <1>0, <4>1, <5>3, <5>4 DEF Alone
      <4>4. QED
        BY <1>2, <4>1, <4>2, <4>3, SocketEffect
    <3>2. CASE v = w
      <4>0. conv'[w] \in Keys /\ session'[w] \in Sessions
        BY <2>2, <3>2 DEF WebTypes, SocketTypes, Holds
      <4>1. CASE Chat(w) /\ Resume(conv[w], session'[w]) /\ conv'[w] = conv[w]
        BY <3>2, <4>0, <4>1 DEF Resume, Open, WebTypes, TypeOK, vars, sessionVars
      <4>2. CASE Open(conv'[w], session'[w], NoHistory)
        BY <3>2, <4>0, <4>2 DEF Open, WebTypes, TypeOK
      <4>3. CASE Keeping(w)
        BY <1>1, <2>2, <3>2, <4>3 DEF Keeping, CurrentActive
      <4>4. QED
        BY <1>2, <2>2, <3>2, <4>1, <4>2, <4>3, WorkingSteps
    <3>3. QED
      BY <3>1, <3>2
  <2>3. QED
    BY <2>1, <2>2
<1>3. CASE Crash
  BY <1>0, <1>3 DEF Crash, Alone
<1>4. CASE UNCHANGED socketVars /\ Receding
  <2> SUFFICES ASSUME NEW v \in Sockets, conv[v] \in OneTab, Working(v), CurrentActive(conv[v])'
               PROVE  current'[conv[v]] = session[v]
    BY <1>0, <1>4 DEF Alone, socketVars, Working, CurrentActive
  <2>1. QED
    BY <1>1, <1>4 DEF socketVars
<1>5. QED
  BY <1>2, <1>3, <1>4, BackgroundRecedes, UnchangedRecedes DEF WebNext, webVars, vars, WebTypes

LEMMA IssuingSteps ==
  ASSUME WebTypes, OneSocket, [WebNext]_webVars
  PROVE  Issuing'
<1>0. Issuing /\ \A w \in Sockets : OwnSession(w)
  BY DEF OneSocket
<1>1. ASSUME NEW w \in Sockets, Socket(w) PROVE Issuing'
  <2>0. issued \subseteq issued'
    BY <1>1, ConversationSteps
  <2>1. CASE Write(w)
    <3>1. FileOf(w) = conv[w] /\ conv[w] \in issued /\ conv[w] \in Keys
      BY <1>0, <2>1 DEF Write, WebTypes, SocketTypes, FileTypes, Holds, Working, FileOf, OwnSession
    <3>2. UNCHANGED delivered /\ (UNCHANGED kept \/ kept' =
            [kept EXCEPT ![conv[w]] = @ \cup Range(snapshot[w].messages)])
      BY <2>1, <3>1 DEF Write
    <3>3. QED
      BY <1>0, <2>0, <3>1, <3>2 DEF Issuing, WebTypes, FileTypes
  <2>2. CASE Reply(w)
    <3>1. conv[w] \in issued /\ conv[w] \in Keys /\ delivered' = delivered \cup {<<conv[w], asked[w]>>}
          /\ UNCHANGED kept
      BY <1>0, <2>2 DEF Reply, WebTypes, SocketTypes, FileTypes, Holds, Working, OwnSession
    <3>2. QED
      BY <1>0, <2>0, <3>1 DEF Issuing
  <2>3. CASE ~Write(w) /\ ~Reply(w)
    <3>1. UNCHANGED <<kept, delivered>>
      BY <1>1, <2>3 DEF Socket, Read, Disconnect, OpenNew, OpenKnown, Chat, Ask, EndRefusing,
                        PostRefusing, Rotate, AskAgain, Chain, Record, Save, Truncate, fileVars
    <3>2. QED
      BY <1>0, <2>0, <3>1 DEF Issuing
  <2>4. QED
    BY <2>1, <2>2, <2>3
<1>2. CASE UNCHANGED fileVars
  BY <1>0, <1>2 DEF Issuing, fileVars
<1>3. QED
  BY <1>1, <1>2 DEF WebNext, Crash, webVars

LEMMA OneSocketInitially == WebInit => OneSocket
BY DEF WebInit, Init, OneSocket, MapIsByKey, OwnSession, Alone, Issuing, Working

LEMMA OneSocketSteps ==
  WebTypes /\ WebTypes' /\ OneSocket /\ [WebNext]_webVars => OneSocket'
BY OwnSessionSteps, AloneSteps, IssuingSteps DEF OneSocket

-----------------------------------------------------------------------------
(* Questions and their answers.                                             *)

LEMMA RangeGrows ==
  ASSUME NEW S, NEW s \in Seq(S), NEW t \in Seq(S), IsPrefix(s, t)
  PROVE  Range(s) \subseteq Range(t)
<1>1. Len(s) <= Len(t) /\ \A i \in 1 .. Len(s) : s[i] = t[i]
  BY PrefixMeans
<1>2. DOMAIN s = 1 .. Len(s) /\ DOMAIN t = 1 .. Len(t) /\ Len(s) \in Nat /\ Len(t) \in Nat
  OBVIOUS
<1>3. QED
  BY <1>1, <1>2 DEF Range

\* What the step of one socket does to the sessions.
EffectOf(w) ==
  \/ Receding
  \/ \E e \in Message : Adding(w, e)
  \/ \E k \in Keys, s \in Sessions, h \in History : Opening(w, k, s, h)

\* A session has what one of its conversation had, or one message more.
LEMMA HistorySteps ==
  ASSUME WebTypes, WebTypes', Instants, NEW w \in Sockets, EffectOf(w), NEW s \in Sessions
  PROVE  \/ \E t \in Sessions : KeyOf[t] = KeyOf[s] /\ IsPrefix(messages'[s], messages[t])
         \/ \E e \in Message : /\ Adding(w, e) /\ session[w] = s
                               /\ messages'[s] = Append(messages[s], e)
<1>0. /\ messages \in [Sessions -> Seq(Message)] /\ messages[s] \in Seq(Message)
      /\ IsPrefix(messages[s], messages[s])
  BY PrefixMeans DEF WebTypes, TypeOK
<1>1. CASE messages'[s] = messages[s]
  BY <1>0, <1>1
<1>2. ASSUME NEW e \in Message, Adding(w, e), session[w] = s
      PROVE  messages'[s] = Append(messages[s], e)
  BY <1>0, <1>2, AddingTypes
<1>3. ASSUME NEW e \in Message, Adding(w, e), session[w] # s
      PROVE  messages'[s] = messages[s]
  BY <1>0, <1>3, AddingTypes
<1>4. ASSUME NEW k \in Keys, NEW r \in Sessions, NEW h \in History, Opening(w, k, r, h)
      PROVE  \/ messages'[s] = messages[s]
             \/ \E t \in Sessions : KeyOf[t] = KeyOf[s] /\ IsPrefix(messages'[s], messages[t])
  <2>1. messages' = [messages EXCEPT ![r] = h.messages] /\ KeyOf[r] = k
    BY <1>4 DEF Opening, Open
  <2>2. CASE r # s
    BY <1>0, <2>1, <2>2
  <2>3. CASE r = s /\ h.messages = <<>>
    <3>1. messages'[s] \in Seq(Message) /\ Len(messages'[s]) = 0
      BY <1>0, <2>1, <2>3
    <3>2. /\ Len(messages'[s]) <= Len(messages[s])
          /\ \A i \in 1 .. Len(messages'[s]) : messages'[s][i] = messages[s][i]
      BY <1>0, <3>1
    <3>3. IsPrefix(messages'[s], messages[s])
      BY <1>0, <3>1, <3>2, PrefixMeans
    <3>4. QED
      BY <3>3
  <2>4. CASE r = s /\ \E t \in Sessions : KeyOf[t] = k /\ IsPrefix(h.messages, messages[t])
    BY <1>0, <2>1, <2>4
  <2>5. QED
    BY <1>4, <2>2, <2>3, <2>4, OpenedHistory DEF Instants
<1>5. CASE Receding
  BY <1>1, <1>5 DEF Receding
<1>6. QED
  BY <1>1, <1>2, <1>3, <1>4, <1>5 DEF EffectOf

\* What is added to a session: a question, or an answer at "record".
LEMMA AddingMeans ==
  ASSUME WebTypes, OneSocket, NEW w \in Sockets, NEW e \in Message, Adding(w, e)
  PROVE  /\ asked[w] \in Questions /\ wpc[w] # "read"
         /\ session[w] \in Sessions /\ KeyOf[session[w]] = conv[w]
         /\ state[session[w]] = "active"
         /\ e.role = "assistant" => wpc[w] = "record" /\ e = Answer(asked[w])
         /\ e.role = "user" => wpc[w] # "record" /\ e = Question(asked[w])
         /\ \A m \in Questions : e = Answer(m) => e.role = "assistant" /\ m = asked[w]
<1>1. wpc[w] \in {"ask", "reask", "record"}
  BY DEF Adding
<1>2. asked[w] \in Questions /\ Working(w) /\ session[w] \in Sessions
  BY <1>1 DEF WebTypes, SocketTypes, Holds, Working
<1>3. Question(asked[w]).role = "user" /\ Answer(asked[w]).role = "assistant"
  BY <1>2, Asked
<1>4. \A m \in Questions : Answer(m) = Answer(asked[w]) => m = asked[w]
  BY DEF Answer
<1>5. \A m \in Questions : Answer(m).role = "assistant"
  BY Asked
<1>6. KeyOf[session[w]] = conv[w]
  BY <1>2 DEF OneSocket, OwnSession
<1>7. QED
  BY <1>1, <1>2, <1>3, <1>4, <1>5, <1>6, AddingTypes DEF Adding

\* An answer is recorded behind its question.
LEMMA BehindSteps ==
  ASSUME WebTypes, WebTypes', Instants, OneSocket, Answers, NEW w \in Sockets, EffectOf(w)
  PROVE  AnswersBehindQuestions'
<1> SUFFICES ASSUME NEW s \in Sessions, KeyOf[s] \in OneTab, NEW j \in DOMAIN messages'[s],
                    messages'[s][j].role = "assistant"
             PROVE  \E i \in 1 .. j - 1 : messages'[s][i] = Question(messages'[s][j].text)
  BY DEF AnswersBehindQuestions
<1>0. \A t \in Sessions : messages[t] \in Seq(Message) /\ messages'[t] \in Seq(Message)
  BY DEF WebTypes, TypeOK
<1>1. ASSUME NEW t \in Sessions, KeyOf[t] = KeyOf[s], IsPrefix(messages'[s], messages[t])
      PROVE  \E i \in 1 .. j - 1 : messages'[s][i] = Question(messages'[s][j].text)
  <2>1. /\ Len(messages'[s]) <= Len(messages[t])
        /\ \A i \in 1 .. Len(messages'[s]) : messages'[s][i] = messages[t][i]
    BY <1>0, <1>1, PrefixMeans
  <2>2. j \in 1 .. Len(messages'[s]) /\ Len(messages'[s]) \in Nat /\ Len(messages[t]) \in Nat
        /\ DOMAIN messages[t] = 1 .. Len(messages[t])
    BY <1>0
  <2>3. j \in DOMAIN messages[t] /\ messages'[s][j] = messages[t][j]
    BY <2>1, <2>2
  <2>4. PICK i \in 1 .. j - 1 : messages[t][i] = Question(messages[t][j].text)
    BY <1>1, <2>3 DEF Answers, AnswersBehindQuestions
  <2>5. messages'[s][i] = messages[t][i]
    BY <2>1, <2>2
  <2>6. QED
    BY <2>3, <2>4, <2>5
<1>2. ASSUME NEW e \in Message, Adding(w, e), session[w] = s,
             messages'[s] = Append(messages[s], e)
      PROVE  \E i \in 1 .. j - 1 : messages'[s][i] = Question(messages'[s][j].text)
  <2> DEFINE n == Len(messages[s])
  <2>1. /\ n \in Nat /\ DOMAIN messages[s] = 1 .. n /\ j \in 1 .. n + 1
        /\ messages'[s][n + 1] = e /\ \A i \in 1 .. n : messages'[s][i] = messages[s][i]
    BY <1>0, <1>2
  <2> HIDE DEF n
  <2>2. CASE j # n + 1
    <3>1. j \in 1 .. n
      BY <2>1, <2>2
    <3>2. PICK i \in 1 .. j - 1 : messages[s][i] = Question(messages[s][j].text)
      BY <2>1, <3>1 DEF Answers, AnswersBehindQuestions
    <3>3. QED
      BY <2>1, <3>1, <3>2
  <2>3. CASE j = n + 1
    <3>1. /\ wpc[w] = "record" /\ e = Answer(asked[w]) /\ state[s] = "active"
          /\ conv[w] \in OneTab
      BY <1>2, <2>1, <2>3, AddingMeans
    <3>2. Question(asked[w]) \in Range(messages[s])
      BY <1>2, <3>1 DEF Answers, Asking, Recorded
    <3>3. PICK i \in 1 .. n : messages[s][i] = Question(asked[w])
      BY <2>1, <3>2 DEF Range
    <3>4. messages'[s][j].text = asked[w]
      BY <2>1, <2>3, <3>1 DEF Answer
    <3>5. QED
      BY <2>1, <2>3, <3>3, <3>4
  <2>4. QED
    BY <2>2, <2>3
<1>3. QED
  BY <1>1, <1>2, HistorySteps

\* Who adds an answer is the one that asked for it.
LEMMA AnswerSteps ==
  ASSUME WebTypes, WebTypes', Instants, OneSocket, NEW w \in Sockets, EffectOf(w),
         NEW s \in Sessions, NEW m \in Questions, Answer(m) \in Range(messages'[s])
  PROVE  \/ \E t \in Sessions : KeyOf[t] = KeyOf[s] /\ Answer(m) \in Range(messages[t])
         \/ Adding(w, Answer(m)) /\ session[w] = s /\ m = asked[w]
<1>0. \A t \in Sessions : messages[t] \in Seq(Message) /\ messages'[t] \in Seq(Message)
  BY DEF WebTypes, TypeOK
<1>1. ASSUME NEW t \in Sessions, KeyOf[t] = KeyOf[s], IsPrefix(messages'[s], messages[t])
      PROVE  Answer(m) \in Range(messages[t])
  BY <1>0, <1>1, RangeGrows
<1>2. ASSUME NEW e \in Message, Adding(w, e), session[w] = s,
             messages'[s] = Append(messages[s], e), Answer(m) \notin Range(messages[s])
      PROVE  e = Answer(m) /\ m = asked[w]
  <2>1. Range(Append(messages[s], e)) = Range(messages[s]) \cup {e}
    BY <1>0, AppendRange
  <2>2. QED
    BY <1>2, <2>1, AddingMeans
<1>3. QED
  BY <1>1, <1>2, HistorySteps

\* The question of a socket stays its own while it works on it.
LEMMA AskedSteps ==
  ASSUME SocketTypes, NEW w \in Sockets, Socket(w)
  PROVE  \/ Read(w)
         \/ asked'[w] = asked[w] /\ (wpc'[w] # "read" => wpc[w] # "read")
         \/ asked'[w] = None /\ wpc'[w] = "read"
<1> USE DEF SocketTypes, Goto
<1>1. CASE Disconnect(w) \/ OpenNew(w) \/ OpenKnown(w)
  BY <1>1 DEF Disconnect, OpenNew, OpenKnown
<1>2. CASE Chat(w) \/ Ask(w) \/ EndRefusing(w) \/ PostRefusing(w) \/ Rotate(w) \/ AskAgain(w)
           \/ Chain(w) \/ Record(w) \/ Save(w) \/ Truncate(w) \/ Write(w)
  BY <1>2 DEF Chat, Ask, EndRefusing, PostRefusing, Rotate, AskAgain, Chain, Record, Save,
              Truncate, Write
<1>3. CASE Reply(w)
  BY <1>3 DEF Reply
<1>4. QED
  BY <1>1, <1>2, <1>3 DEF Socket

LEMMA ReadMeans ==
  ASSUME SocketTypes, NEW w \in Sockets, Read(w)
  PROVE  /\ asked'[w] \in Questions /\ Fresh(asked'[w])
         /\ wpc'[w] \in {"open", "chat"} /\ UNCHANGED <<vars, delivered>>
BY DEF Read, SocketTypes, Goto, fileVars

LEMMA DistinctSteps ==
  ASSUME WebTypes, Distinct, [WebNext]_webVars
  PROVE  Distinct'
<1>1. ASSUME NEW w \in Sockets, Socket(w) PROVE Distinct'
  <2>0. SocketTypes /\ \A v \in Sockets : wpc[v] # "read" => asked[v] # None
    BY DEF WebTypes, SocketTypes, Holds, Questions
  <2>1. \A v \in Sockets : v # w => wpc'[v] = wpc[v] /\ asked'[v] = asked[v]
    BY <1>1, <2>0, Others
  <2>2. CASE Read(w)
    BY <2>0, <2>1, <2>2, ReadMeans DEF Distinct, Fresh
  <2>3. CASE asked'[w] = asked[w] /\ (wpc'[w] # "read" => wpc[w] # "read")
    BY <2>1, <2>3 DEF Distinct
  <2>4. CASE asked'[w] = None /\ wpc'[w] = "read"
    BY <2>0, <2>1, <2>4 DEF Distinct
  <2>5. QED
    BY <1>1, <2>0, <2>2, <2>3, <2>4, AskedSteps
<1>2. CASE Crash
  BY <1>2 DEF Crash, Distinct
<1>3. CASE UNCHANGED socketVars
  BY <1>3 DEF socketVars, Distinct
<1>4. QED
  BY <1>1, <1>2, <1>3 DEF WebNext, webVars

\* What a session did of which a socket holds the question.
LEMMA SessionStays ==
  ASSUME WebTypes, WebTypes', Instants, OneSocket, Effect, NEW v \in Sockets, Working(v)
  PROVE  /\ Range(messages[session[v]]) \subseteq Range(messages'[session[v]])
         /\ state[session[v]] # "active" => state'[session[v]] # "active"
         /\ \/ rounds'[session[v]] = rounds[session[v]]
            \/ \E w \in Sockets, e \in Message : Adding(w, e) /\ session[w] = session[v]
<1>0. session[v] \in Sessions /\ state[session[v]] # "unused"
  BY DEF WebTypes, SocketTypes, Holds, OneSocket, OwnSession
<1>1. Range(messages[session[v]]) \subseteq Range(messages'[session[v]])
  BY <1>0, Growing, RangeGrows DEF Instants, WebTypes, TypeOK
<1>2. CASE Receding
  BY <1>0, <1>1, <1>2 DEF Receding
<1>3. ASSUME NEW w \in Sockets, NEW e \in Message, Adding(w, e)
      PROVE  /\ UNCHANGED state
             /\ session[w] = session[v] \/ rounds'[session[v]] = rounds[session[v]]
  BY <1>0, <1>3, AddingTypes DEF WebTypes, TypeOK
<1>4. ASSUME NEW w \in Sockets, NEW k \in Keys, NEW s \in Sessions, NEW h \in History,
             Opening(w, k, s, h)
      PROVE  /\ state'[session[v]] = state[session[v]]
             /\ rounds'[session[v]] = rounds[session[v]]
  BY <1>0, <1>4 DEF Opening, Open, WebTypes, TypeOK
<1>5. QED
  BY <1>1, <1>2, <1>3, <1>4 DEF Effect

\* A refused question is refused because the session ended, unless another
\* socket used up its rounds.
LEMMA RecordedSteps ==
  ASSUME WebTypes, WebTypes', Instants, OneSocket, Answers, [WebNext]_webVars
  PROVE  \A v \in Sockets : Recorded(v)'
<1> SUFFICES ASSUME NEW v \in Sockets, wpc'[v] \in {"chain", "record"}, conv'[v] \in OneTab
             PROVE  \/ Question(asked'[v]) \in Range(messages'[session'[v]])
                    \/ state'[session'[v]] # "active"
  BY DEF Recorded
<1>1. ASSUME wpc[v] \in {"chain", "record"}, UNCHANGED <<conv[v], asked[v], session[v]>>
      PROVE  \/ Question(asked'[v]) \in Range(messages'[session'[v]])
             \/ state'[session'[v]] # "active"
  <2>1. Working(v) /\ Effect
    BY <1>1, EffectSteps DEF Working
  <2>2. \/ Question(asked[v]) \in Range(messages[session[v]])
        \/ state[session[v]] # "active"
    BY <1>1 DEF Answers, Asking, Recorded
  <2>3. QED
    BY <1>1, <2>1, <2>2, SessionStays
<1>2. ASSUME NEW w \in Sockets, Socket(w), v # w
      PROVE  wpc[v] \in {"chain", "record"} /\ UNCHANGED <<conv[v], asked[v], session[v]>>
  BY <1>2, Others DEF WebTypes
<1>3. CASE Chain(v)
  BY <1>1, <1>3 DEF Chain
<1>4. CASE Ask(v) \/ AskAgain(v)
  <2>1. /\ wpc[v] \in {"ask", "reask"} /\ UNCHANGED <<conv, asked, session>>
        /\ wpc[v] = "reask" => AskAgain(v)
        /\ session[v] \in Sessions /\ asked[v] \in Questions /\ wpc'[v] = "chain"
    BY <1>4 DEF Ask, AskAgain, WebTypes, SocketTypes, Holds, Working, Goto
  <2>2. CASE AddMessage(session[v], Question(asked[v]))
    <3>1. /\ messages' = [messages EXCEPT ![session[v]] = Append(@, Question(asked[v]))]
          /\ messages \in [Sessions -> Seq(Message)] /\ messages[session[v]] \in Seq(Message)
          /\ Question(asked[v]) \in Message
      BY <2>1, <2>2, Asked DEF AddMessage, WebTypes, TypeOK
    <3>2. messages'[session[v]] = Append(messages[session[v]], Question(asked[v]))
      BY <2>1, <3>1
    <3>3. Question(asked[v]) \in Range(messages'[session[v]])
      BY <3>1, <3>2, AppendRange
    <3>4. QED
      BY <2>1, <3>3
  <2>3. CASE ~Accepts(session[v], "user") /\ UNCHANGED vars /\ wpc[v] = "reask"
    <3>1. rounds[session[v]] = 0
      BY <2>1, <2>3 DEF Answers, Asking, Unasked
    <3>2. MaxRounds > 0
      BY WebAssumption
    <3>3. state[session[v]] # "active"
      BY <2>3, <3>1, <3>2 DEF Accepts
    <3>4. QED
      BY <2>1, <2>3, <3>3 DEF vars, sessionVars
  <2>4. QED
    BY <1>4, <2>1, <2>2, <2>3 DEF Ask, AskAgain, Goto, WebTypes, SocketTypes
<1>5. ASSUME Socket(v) PROVE Chain(v) \/ Ask(v) \/ AskAgain(v)
  BY <1>5, Arrives DEF WebTypes
<1>6. CASE Crash
  BY <1>6 DEF Crash
<1>7. CASE UNCHANGED socketVars
  BY <1>1, <1>7 DEF socketVars
<1>8. QED
  BY <1>1, <1>2, <1>3, <1>4, <1>5, <1>6, <1>7 DEF WebNext, webVars

\* Nobody else adds to the session of a conversation in one socket.
LEMMA NobodyElseAdds ==
  ASSUME WebTypes, OneSocket, NEW w \in Sockets, Socket(w), NEW v \in Sockets, v # w,
         Working(v), conv[v] \in OneTab
  PROVE  messages'[session[v]] = messages[session[v]] /\ rounds'[session[v]] = rounds[session[v]]
<1>0. /\ session[v] \in Sessions /\ state[session[v]] # "unused" /\ KeyOf[session[v]] = conv[v]
      /\ conv[w] # conv[v]
  BY DEF WebTypes, SocketTypes, Holds, OneSocket, OwnSession, Alone
<1>1. CASE Receding
  BY <1>1 DEF Receding
<1>2. ASSUME NEW e \in Message, Adding(w, e)
      PROVE  messages'[session[v]] = messages[session[v]] /\ rounds'[session[v]] = rounds[session[v]]
  <2>1. session[w] # session[v]
    BY <1>0, <1>2, AddingMeans
  <2>2. QED
    BY <1>0, <1>2, <2>1, AddingTypes DEF WebTypes, TypeOK
<1>3. ASSUME NEW k \in Keys, NEW s \in Sessions, NEW h \in History, Opening(w, k, s, h)
      PROVE  messages'[session[v]] = messages[session[v]] /\ rounds'[session[v]] = rounds[session[v]]
  BY <1>0, <1>3 DEF Opening, Open, WebTypes, TypeOK
<1>4. QED
  BY <1>1, <1>2, <1>3, SocketEffect

\* A new conversation is empty until its socket asks.
LEMMA UnaskedSteps ==
  ASSUME WebTypes, WebTypes', OneSocket, Answers, [WebNext]_webVars
  PROVE  \A v \in Sockets : Unasked(v)'
<1> SUFFICES ASSUME NEW v \in Sockets, wpc'[v] = "reask", conv'[v] \in OneTab
             PROVE  rounds'[session'[v]] = 0
  BY DEF Unasked
<1>1. ASSUME wpc[v] = "reask", conv[v] \in OneTab
      PROVE  Working(v) /\ rounds[session[v]] = 0
  BY <1>1 DEF Working, Answers, Asking, Unasked
<1>2. ASSUME NEW w \in Sockets, Socket(w), v # w PROVE rounds'[session'[v]] = 0
  BY <1>1, <1>2, Others, NobodyElseAdds DEF WebTypes
<1>3. CASE Rotate(v)
  <2>1. PICK k \in Keys, s \in Sessions : Open(k, s, NoHistory) /\ session'[v] = s
    BY <1>3 DEF Rotate, Goto, WebTypes, SocketTypes
  <2>2. QED
    BY <2>1 DEF Open, NoHistory, WebTypes, TypeOK
<1>4. ASSUME Socket(v) PROVE Rotate(v)
  BY <1>4, Arrives DEF WebTypes
<1>5. CASE Crash
  BY <1>5 DEF Crash
<1>6. CASE UNCHANGED socketVars /\ Receding
  BY <1>1, <1>6 DEF socketVars, Receding
<1>7. QED
  BY <1>2, <1>3, <1>4, <1>5, <1>6, BackgroundRecedes, UnchangedRecedes
     DEF WebNext, webVars, vars, WebTypes

\* Nobody else answers a question, and its own socket does so once.
LEMMA UnansweredSteps ==
  ASSUME WebTypes, WebTypes', Instants, OneSocket, Answers, [WebNext]_webVars
  PROVE  \A v \in Sockets : Unanswered(v)'
<1> SUFFICES ASSUME NEW v \in Sockets, NEW s \in Sessions, KeyOf[s] \in OneTab,
                    wpc'[v] \in {"open", "chat", "ask", "end", "post", "rotate", "reask", "chain",
                                 "record"},
                    Answer(asked'[v]) \in Range(messages'[s])
             PROVE  FALSE
  BY DEF Unanswered
<1>0. /\ \A t \in Sessions : messages[t] \in Seq(Message)
      /\ asked'[v] \in Questions
  BY DEF WebTypes, SocketTypes, Holds, TypeOK
<1>1. ASSUME wpc[v] \in {"open", "chat", "ask", "end", "post", "rotate", "reask", "chain", "record"},
             UNCHANGED asked[v], NEW w \in Sockets, EffectOf(w),
             ~Adding(w, Answer(asked'[v])) \/ asked'[v] # asked[w]
      PROVE  FALSE
  BY <1>0, <1>1, AnswerSteps DEF Answers, Asking, Unanswered
<1>2. ASSUME NEW w \in Sockets, Socket(w), w # v PROVE FALSE
  <2>1. UNCHANGED <<wpc[v], asked[v]>>
    BY <1>2, Others DEF WebTypes
  <2>2. asked[v] # asked[w] \/ wpc[w] = "read"
    BY <1>2, <2>1 DEF Answers, Distinct
  <2>3. Adding(w, Answer(asked'[v])) => wpc[w] # "read"
    BY <1>0, Asked, AddingMeans
  <2>4. QED
    BY <1>1, <1>2, <2>1, <2>2, <2>3, SocketEffect DEF EffectOf
<1>3. CASE Read(v)
  <2>1. Fresh(asked'[v]) /\ UNCHANGED messages
    BY <1>3, ReadMeans DEF WebTypes, vars, sessionVars
  <2>2. PICK j \in DOMAIN messages[s] : messages[s][j] = Answer(asked'[v])
    BY <2>1 DEF Range
  <2>3. messages[s][j].role = "assistant" /\ messages[s][j].text = asked'[v]
    BY <2>2 DEF Answer
  <2>4. PICK i \in 1 .. j - 1 : messages[s][i] = Question(asked'[v])
    BY <2>3 DEF Answers, AnswersBehindQuestions
  <2>5. i \in DOMAIN messages[s]
    BY <1>0
  <2>6. Question(asked'[v]) \in Range(messages[s])
    BY <2>4, <2>5 DEF Range
  <2>7. QED
    BY <2>1, <2>6 DEF Fresh
<1>4. ASSUME Socket(v), ~Read(v) PROVE FALSE
  <2>1. /\ asked'[v] = asked[v]
        /\ wpc[v] \in {"open", "chat", "ask", "end", "post", "rotate", "reask", "chain"}
    BY <1>4, AskedSteps, Arrives DEF WebTypes, OpenNew, OpenKnown, Chat, Ask, EndRefusing,
       PostRefusing, Rotate, AskAgain, Chain
  <2>2. ~Adding(v, Answer(asked'[v]))
    BY <1>0, <2>1, Asked, AddingMeans
  <2>3. QED
    BY <1>1, <1>4, <2>1, <2>2, SocketEffect DEF EffectOf
<1>5. CASE Crash
  BY <1>5 DEF Crash
<1>6. CASE UNCHANGED socketVars /\ Receding
  BY <1>6 DEF socketVars, Receding, Answers, Asking, Unanswered
<1>7. QED
  BY <1>2, <1>3, <1>4, <1>5, <1>6, BackgroundRecedes, UnchangedRecedes
     DEF WebNext, webVars, vars, WebTypes

\* Who is sent an answer is the one that asked.
LEMMA UndeliveredSteps ==
  ASSUME WebTypes, WebTypes', OneSocket, Answers, [WebNext]_webVars
  PROVE  \A v \in Sockets : Undelivered(v)'
<1> SUFFICES ASSUME NEW v \in Sockets, NEW k \in Keys, wpc'[v] # "read",
                    <<k, asked'[v]>> \in delivered'
             PROVE  FALSE
  BY DEF Undelivered
<1>1. ASSUME wpc[v] # "read", UNCHANGED asked[v], UNCHANGED delivered PROVE FALSE
  BY <1>1 DEF Answers, Asking, Undelivered
<1>2. CASE Read(v)
  BY <1>2, ReadMeans DEF WebTypes, Fresh
<1>3. ASSUME NEW w \in Sockets, Reply(w) PROVE FALSE
  <2>1. /\ wpc[w] = "reply" /\ wpc'[w] = "read"
        /\ delivered' = delivered \cup {<<conv[w], asked[w]>>}
    BY <1>3 DEF Reply, Goto, WebTypes, SocketTypes
  <2>2. w # v /\ wpc[v] # "read" /\ UNCHANGED asked[v]
    BY <1>3, <2>1, Others DEF WebTypes, Socket
  <2>3. asked[v] # asked[w]
    BY <2>1, <2>2 DEF Answers, Distinct
  <2>4. QED
    BY <2>1, <2>2, <2>3 DEF Answers, Asking, Undelivered
<1>4. ASSUME NEW w \in Sockets, Socket(w), ~Reply(w) PROVE FALSE
  <2>1. UNCHANGED delivered
    BY <1>4 DEF Socket, Read, Disconnect, OpenNew, OpenKnown, Chat, Ask, EndRefusing,
                PostRefusing, Rotate, AskAgain, Chain, Record, Save, Truncate, Write, fileVars
  <2>2. Read(v) \/ (wpc[v] # "read" /\ UNCHANGED asked[v])
    BY <1>4, Others, AskedSteps DEF WebTypes
  <2>3. QED
    BY <1>1, <1>2, <2>1, <2>2
<1>5. CASE Crash
  BY <1>5 DEF Crash
<1>6. CASE UNCHANGED <<socketVars, fileVars>>
  BY <1>1, <1>6 DEF socketVars, fileVars
<1>7. QED
  BY <1>3, <1>4, <1>5, <1>6 DEF WebNext, webVars

LEMMA AnswersInitially == WebInit => Answers
BY DEF WebInit, Init, Answers, AnswersBehindQuestions, Distinct, Asking, Recorded, Unasked,
       Unanswered, Undelivered

LEMMA AnswersSteps ==
  WebTypes /\ WebTypes' /\ Instants /\ OneSocket /\ Answers /\ [WebNext]_webVars => Answers'
<1> SUFFICES ASSUME WebTypes, WebTypes', Instants, OneSocket, Answers, [WebNext]_webVars
             PROVE  Answers'
  OBVIOUS
<1>1. AnswersBehindQuestions'
  <2>1. ASSUME NEW w \in Sockets, Socket(w) PROVE AnswersBehindQuestions'
    BY <2>1, SocketEffect, BehindSteps DEF EffectOf
  <2>2. CASE Receding
    BY <2>2 DEF Receding, Answers, AnswersBehindQuestions
  <2>3. QED
    BY <2>1, <2>2, BackgroundRecedes, CrashRecedes, UnchangedRecedes
       DEF WebNext, webVars, vars, WebTypes
<1>2. QED
  BY <1>1, DistinctSteps, RecordedSteps, UnaskedSteps, UnansweredSteps, UndeliveredSteps
     DEF Answers, Asking

-----------------------------------------------------------------------------
(* What a file once had stays, and what was delivered is in it.             *)

\* The step a socket takes from where it is.
LEMMA Leaves ==
  ASSUME NEW w \in Sockets, Socket(w)
  PROVE  /\ wpc[w] = "record" => Record(w)
         /\ wpc[w] = "save" => Save(w)
         /\ wpc[w] = "truncate" => Truncate(w)
         /\ wpc[w] = "write" => Write(w)
         /\ wpc[w] = "reply" => Reply(w)
BY DEF Socket, Read, Disconnect, OpenNew, OpenKnown, Chat, Ask, EndRefusing, PostRefusing, Rotate,
       AskAgain, Chain, Record, Save, Truncate, Write, Reply

WebInv == WebTypes /\ Instants /\ OneSocket /\ Answers

\* An answer comes to a conversation when its socket records it.
LEMMA PresentSteps ==
  ASSUME WebInv, WebTypes', NEW w \in Sockets, Socket(w), NEW k \in OneTab, NEW m \in Questions,
         Present(k, m)'
  PROVE  \/ Present(k, m)
         \/ /\ Record(w) /\ conv[w] = k /\ asked[w] = m
            /\ AddMessage(session[w], Answer(m))
<1>1. PICK s \in Sessions : KeyOf[s] = k /\ Answer(m) \in Range(messages'[s])
  BY DEF Present
<1>2. EffectOf(w)
  BY SocketEffect DEF EffectOf, WebInv
<1>3. CASE \E t \in Sessions : KeyOf[t] = KeyOf[s] /\ Answer(m) \in Range(messages[t])
  BY <1>1, <1>3 DEF Present
<1>4. CASE Adding(w, Answer(m)) /\ session[w] = s /\ m = asked[w]
  <2>1. wpc[w] = "record" /\ KeyOf[session[w]] = conv[w]
    BY <1>4, Asked, AddingMeans DEF WebInv
  <2>2. QED
    BY <1>1, <1>4, <2>1, Leaves DEF Adding
<1>5. QED
  BY <1>1, <1>2, <1>3, <1>4, AnswerSteps DEF WebInv

LEMMA PresentRecedes ==
  ASSUME Receding, NEW k, NEW m, Present(k, m)'
  PROVE  Present(k, m)
BY DEF Receding, Present

\* A step that asks no more of the conversation k.
Calm(k) ==
  /\ kept'[k] = kept[k]
  /\ \A m \in Questions : <<k, m>> \in delivered' => <<k, m>> \in delivered
  /\ \A m \in Questions : Due(k, m)' => Due(k, m)

LEMMA CalmSteps ==
  ASSUME WebInv, WebTypes', NEW w \in Sockets, Socket(w), NEW k \in OneTab,
         ~(Write(w) /\ conv[w] = k), ~(Reply(w) /\ conv[w] = k)
  PROVE  Calm(k)
<1>0. k \in Keys
  OBVIOUS
<1>1. UNCHANGED kept[k]
  <2>1. CASE Write(w)
    <3>1. FileOf(w) = conv[w]
      BY <2>1 DEF Write, FileOf, WebInv, OneSocket, OwnSession, Working
    <3>2. QED
      BY <1>0, <2>1, <3>1 DEF Write, WebInv, WebTypes, FileTypes
  <2>2. CASE ~Write(w)
    BY <2>2 DEF Socket, Read, Disconnect, OpenNew, OpenKnown, Chat, Ask, EndRefusing, PostRefusing,
                Rotate, AskAgain, Chain, Record, Save, Truncate, Reply, fileVars
  <2>3. QED
    BY <2>1, <2>2
<1>2. ASSUME NEW m \in Questions, <<k, m>> \in delivered' PROVE <<k, m>> \in delivered
  <2>1. CASE Reply(w)
    BY <1>2, <2>1 DEF Reply
  <2>2. CASE ~Reply(w)
    BY <1>2, <2>2 DEF Socket, Read, Disconnect, OpenNew, OpenKnown, Chat, Ask, EndRefusing,
       PostRefusing, Rotate, AskAgain, Chain, Record, Save, Truncate, Write, fileVars
  <2>3. QED
    BY <2>1, <2>2
<1>3. ASSUME NEW m \in Questions, Due(k, m)' PROVE Due(k, m)
  <2>1. <<k, m>> \in delivered /\ Present(k, m)'
    BY <1>2, <1>3 DEF Due
  <2>2. CASE Record(w) /\ asked[w] = m
    BY <1>0, <2>1, <2>2 DEF Record, WebInv, Answers, Asking, Undelivered
  <2>3. QED
    BY <2>1, <2>2, PresentSteps DEF Due
<1>4. QED
  BY <1>1, <1>2, <1>3 DEF Calm

LEMMA CalmOtherwise ==
  ASSUME Receding, UNCHANGED <<kept, delivered>>, NEW k
  PROVE  Calm(k)
BY PresentRecedes DEF Calm, Due

\* Safe of the next state.
SafeNext(k, seq) ==
  /\ kept'[k] \subseteq Range(seq)
  /\ \A m \in Questions : Due(k, m)' => Ordered(m, seq)

LEMMA SafeCalm ==
  ASSUME NEW k, Calm(k), NEW seq, Safe(k, seq)
  PROVE  SafeNext(k, seq)
BY DEF Calm, Safe, SafeNext

LEMMA NothingCalm ==
  ASSUME NEW k, Calm(k), Nothing(k)
  PROVE  Nothing(k)'
BY DEF Calm, Nothing

LEMMA NothingIsSafe ==
  ASSUME NEW k, Nothing(k), NEW seq
  PROVE  Safe(k, seq)
BY DEF Nothing, Safe, Due

LEMMA OrderedGrows ==
  ASSUME NEW s \in Seq(Message), NEW t \in Seq(Message), IsPrefix(s, t), NEW m, Ordered(m, s)
  PROVE  Ordered(m, t)
<1>1. /\ Len(s) <= Len(t) /\ \A i \in 1 .. Len(s) : s[i] = t[i]
      /\ DOMAIN s = 1 .. Len(s) /\ DOMAIN t = 1 .. Len(t) /\ Len(s) \in Nat /\ Len(t) \in Nat
  BY PrefixMeans
<1>2. PICK i \in DOMAIN s, j \in DOMAIN s : i < j /\ s[i] = Question(m) /\ s[j] = Answer(m)
  BY DEF Ordered
<1>3. i \in DOMAIN t /\ j \in DOMAIN t /\ t[i] = Question(m) /\ t[j] = Answer(m)
  BY <1>1, <1>2
<1>4. QED
  BY <1>2, <1>3 DEF Ordered

LEMMA SafeGrows ==
  ASSUME NEW k, NEW s \in Seq(Message), NEW t \in Seq(Message), IsPrefix(s, t), Safe(k, s)
  PROVE  Safe(k, t)
BY RangeGrows, OrderedGrows DEF Safe

\* What a socket writes is its session's, of its own conversation.
LEMMA WriteMeans ==
  ASSUME WebInv, Saved, NEW w \in Sockets, Write(w), conv[w] \in Sheltered
  PROVE  /\ FileOf(w) = conv[w] /\ conv[w] \in Keys /\ wpc[w] = "write" /\ wpc'[w] = "reply"
         /\ snapshot[w] \in History
         /\ disk' = [disk EXCEPT ![conv[w]] = snapshot[w]]
         /\ kept' = [kept EXCEPT ![conv[w]] = @ \cup Range(snapshot[w].messages)]
         /\ UNCHANGED <<vars, conv, asked, session, delivered>>
         /\ Range(snapshot[w].messages) \subseteq Range(messages[session[w]])
<1>1. /\ wpc[w] = "write" /\ FileOf(w) = conv[w] /\ conv[w] \in Keys /\ session[w] \in Sessions
      /\ snapshot[w] \in History
  BY DEF Write, FileOf, WebInv, OneSocket, OwnSession, Working, WebTypes, SocketTypes, Holds
<1>2. disk[conv[w]] = Torn /\ conv[w] \in SoundDisk
  BY <1>1 DEF Saved, InSnapshot, Sheltered
<1>3. Range(snapshot[w].messages) \subseteq Range(messages[session[w]])
  <2>1. /\ IsPrefix(snapshot[w].messages, messages[session[w]])
        /\ snapshot[w].messages \in Seq(Message) /\ messages[session[w]] \in Seq(Message)
    BY <1>1 DEF WebInv, Instants, SnapshotIsOneInstant, WebTypes, TypeOK, History
  <2>2. QED
    BY <2>1, RangeGrows
<1>4. QED
  BY <1>1, <1>2, <1>3 DEF Write, Readable, Goto, WebInv, WebTypes, SocketTypes

LEMMA ReplyMeans ==
  ASSUME WebInv, NEW w \in Sockets, Reply(w)
  PROVE  /\ wpc[w] = "reply" /\ wpc'[w] = "read" /\ conv[w] \in Keys /\ session[w] \in Sessions
         /\ delivered' = delivered \cup {<<conv[w], asked[w]>>}
         /\ UNCHANGED <<vars, conv, snapshot, disk, kept>>
BY DEF Reply, Goto, WebInv, WebTypes, SocketTypes, Holds, Working

\* The answer that is sent is asked for from now on.
LEMMA DueReply ==
  ASSUME WebInv, NEW w \in Sockets, Reply(w), NEW k, NEW m \in Questions, Due(k, m)'
  PROVE  Due(k, m) \/ (k = conv[w] /\ m = asked[w] /\ Present(k, m))
BY ReplyMeans DEF Due, Present, vars, sessionVars

\* The file of a sheltered conversation.
LEMMA DiskSteps ==
  ASSUME WebInv, Saved, NEW w \in Sockets, Socket(w), NEW k \in Sheltered
  PROVE  \/ disk'[k] = disk[k]
         \/ Truncate(w) /\ conv[w] = k /\ disk'[k] = Torn /\ wpc'[w] = "write"
         \/ Write(w) /\ conv[w] = k
<1>0. k \in Keys
  BY DEF Sheltered
<1>1. CASE Truncate(w)
  <2>1. FileOf(w) = conv[w]
    BY <1>1 DEF Truncate, FileOf, WebInv, OneSocket, OwnSession, Working
  <2>2. QED
    BY <1>0, <1>1, <2>1 DEF Truncate, Sheltered, Goto, WebInv, WebTypes, SocketTypes, FileTypes
<1>2. CASE Write(w)
  <2>1. FileOf(w) = conv[w]
    BY <1>2 DEF Write, FileOf, WebInv, OneSocket, OwnSession, Working
  <2>2. QED
    BY <1>0, <1>2, <2>1 DEF Write, WebInv, WebTypes, FileTypes
<1>3. CASE ~Truncate(w) /\ ~Write(w)
  BY <1>3 DEF Socket, Read, Disconnect, OpenNew, OpenKnown, Chat, Ask, EndRefusing, PostRefusing,
              Rotate, AskAgain, Chain, Record, Save, Reply, fileVars
<1>4. QED
  BY <1>1, <1>2, <1>3

\* Whether a write is under way changes with the writer's steps only.
LEMMA WritingSteps ==
  ASSUME WebInv, WebTypes', NEW w \in Sockets, Socket(w), NEW k \in Sheltered, ~Writing(k)'
  PROVE  /\ ~Writing(k) \/ (Write(w) /\ conv[w] = k)
         /\ ~(Truncate(w) /\ conv[w] = k)
<1>1. ASSUME NEW v \in Sockets, wpc[v] = "write", FileOf(v) = k, ~(Write(w) /\ conv[w] = k)
      PROVE  FALSE
  <2>1. CASE v # w
    BY <1>1, <2>1, Others DEF WebInv, WebTypes, Writing, FileOf
  <2>2. CASE v = w
    BY <1>1, <2>2, Leaves DEF WebInv, OneSocket, OwnSession, Working, FileOf
  <2>3. QED
    BY <2>1, <2>2
<1>2. ASSUME Truncate(w), conv[w] = k PROVE FALSE
  <2>1. FileOf(w) = conv[w]
    BY <1>2 DEF Truncate, FileOf, WebInv, OneSocket, OwnSession, Working
  <2>2. wpc'[w] = "write" /\ UNCHANGED session
    BY <1>2, <2>1 DEF Truncate, Sheltered, Goto, WebInv, WebTypes, SocketTypes
  <2>3. QED
    BY <1>2, <2>1, <2>2 DEF Writing, FileOf
<1>3. QED
  BY <1>1, <1>2 DEF Writing

LEMMA OnDiskSteps ==
  ASSUME WebInv, WebTypes', Saved, NEW w \in Sockets, Socket(w), NEW k \in Sheltered
  PROVE  OnDisk(k)'
<1> SUFFICES ASSUME ~Writing(k)'
             PROVE  Nothing(k)' \/ (Readable(k)' /\ SafeNext(k, disk'[k].messages))
  BY DEF OnDisk, Safe, SafeNext, Ordered
<1>0. k \in Keys /\ k \in OneTab
  BY DEF Sheltered
<1>1. CASE Write(w) /\ conv[w] = k
  <2>1. /\ disk'[k] = snapshot[w] /\ kept'[k] = kept[k] \cup Range(snapshot[w].messages)
        /\ snapshot[w] \in History /\ wpc[w] = "write" /\ UNCHANGED <<messages, delivered>>
    BY <1>0, <1>1, WriteMeans DEF WebInv, WebTypes, FileTypes, vars, sessionVars
  <2>2. Safe(k, snapshot[w].messages)
    BY <1>1, <2>1 DEF Saved, InSnapshot
  <2>3. SafeNext(k, disk'[k].messages)
    BY <2>1, <2>2 DEF Safe, SafeNext, Due, Present
  <2>4. Readable(k)'
    BY <2>1 DEF Readable
  <2>5. QED
    BY <2>3, <2>4
<1>2. CASE Reply(w) /\ conv[w] = k
  <2>1. /\ wpc[w] = "reply" /\ UNCHANGED <<disk, kept, messages>>
        /\ delivered' = delivered \cup {<<k, asked[w]>>}
    BY <1>2, ReplyMeans DEF vars, sessionVars
  <2>2. ~Writing(k)
    BY <1>2, WritingSteps, <2>1 DEF Write
  <2>3. Readable(k) /\ Safe(k, disk[k].messages)
    BY <1>2, <2>1, <2>2, NothingIsSafe DEF Saved, OnDisk, Answered
  <2>4. Present(k, asked[w]) => Ordered(asked[w], disk[k].messages)
    BY <1>2, <2>1 DEF Saved, Answered
  <2>5. SafeNext(k, disk[k].messages)
    BY <1>2, <2>1, <2>3, <2>4, DueReply DEF Safe, SafeNext
  <2>6. QED
    BY <2>1, <2>3, <2>5 DEF Readable
<1>3. CASE ~(Write(w) /\ conv[w] = k) /\ ~(Reply(w) /\ conv[w] = k)
  <2>1. Calm(k) /\ disk'[k] = disk[k] /\ ~Writing(k)
    BY <1>0, <1>3, CalmSteps, DiskSteps, WritingSteps
  <2>2. CASE Nothing(k)
    BY <2>1, <2>2, NothingCalm
  <2>3. CASE Readable(k) /\ Safe(k, disk[k].messages)
    BY <2>1, <2>3, SafeCalm DEF Readable
  <2>4. QED
    BY <2>1, <2>2, <2>3 DEF Saved, OnDisk
<1>4. QED
  BY <1>1, <1>2, <1>3

\* What is in the session of a write or a reply is asked for next.
LEMMA OwnSafe ==
  ASSUME WebInv, WebTypes', Saved, NEW w \in Sockets, Write(w) \/ Reply(w),
         NEW k \in Sheltered, conv[w] = k
  PROVE  /\ Working(w) /\ session[w] \in Sessions /\ UNCHANGED vars
         /\ SafeNext(k, messages[session[w]])
<1>0. Working(w) /\ session[w] \in Sessions /\ k \in Keys
  BY DEF Write, Reply, Working, Sheltered, WebInv, WebTypes, SocketTypes, Holds
<1>1. Safe(k, messages[session[w]])
  BY <1>0 DEF Saved, InSession
<1>2. CASE Write(w)
  <2>1. /\ kept'[k] = kept[k] \cup Range(snapshot[w].messages)
        /\ Range(snapshot[w].messages) \subseteq Range(messages[session[w]])
        /\ UNCHANGED <<vars, messages, delivered>>
    BY <1>0, <1>2, WriteMeans DEF WebInv, WebTypes, FileTypes, vars, sessionVars
  <2>2. QED
    BY <1>0, <1>1, <2>1 DEF Safe, SafeNext, Due, Present
<1>3. CASE Reply(w)
  <2>1. UNCHANGED <<vars, kept>> /\ wpc[w] = "reply"
    BY <1>3, ReplyMeans
  <2>2. Present(k, asked[w]) => Ordered(asked[w], messages[session[w]])
    BY <2>1 DEF Saved, Answered
  <2>3. QED
    BY <1>0, <1>1, <1>3, <2>1, <2>2, DueReply DEF Safe, SafeNext
<1>4. QED
  BY <1>2, <1>3

LEMMA SessionsGrow ==
  ASSUME WebInv, WebTypes', Effect, NEW s \in Sessions
  PROVE  /\ messages[s] \in Seq(Message) /\ messages'[s] \in Seq(Message)
         /\ IsPrefix(messages[s], messages'[s])
BY Growing DEF WebInv, Instants, WebTypes, TypeOK

\* The session a conversation is resumed with lacks nothing.
LEMMA CurrentSteps ==
  ASSUME WebInv, WebTypes', Saved, NEW w \in Sockets, Socket(w), [WebNext]_webVars,
         NEW k \in Sheltered, CurrentActive(k)'
  PROVE  SafeNext(k, messages'[current'[k]])
<1>0. k \in Keys /\ k \in OneTab /\ WebTypes /\ MapIsByKey /\ Effect
  BY EffectSteps DEF Sheltered, WebInv, OneSocket
<1>1. CASE (Write(w) \/ Reply(w)) /\ conv[w] = k
  <2>1. /\ Working(w) /\ session[w] \in Sessions /\ UNCHANGED <<messages, current, state>>
        /\ SafeNext(k, messages[session[w]])
    BY <1>1, OwnSafe DEF vars, sessionVars
  <2>2. current[k] = session[w]
    BY <1>0, <1>1, <2>1 DEF CurrentActive, WebInv, OneSocket, Alone
  <2>3. QED
    BY <2>1, <2>2
<1>2. CASE ~(Write(w) /\ conv[w] = k) /\ ~(Reply(w) /\ conv[w] = k)
  <2>1. Calm(k)
    BY <1>0, <1>2, CalmSteps
  <2>2. CASE CurrentActive(k) /\ current'[k] = current[k]
    <3>1. Safe(k, messages[current[k]]) /\ current[k] \in Sessions
      BY <1>0, <2>2 DEF Saved, CurrentActive, WebTypes, TypeOK
    <3>2. Safe(k, messages'[current[k]])
      BY <1>0, <3>1, SessionsGrow, SafeGrows
    <3>3. QED
      BY <2>1, <2>2, <3>2, SafeCalm
  <2>3. ASSUME NEW v \in Sockets, NEW h \in History, current'[k] \in Sessions,
               Opening(v, k, current'[k], h)
        PROVE  SafeNext(k, messages'[current'[k]])
    <3>1. messages'[current'[k]] = h.messages
      BY <2>3 DEF Opening, Open, WebInv, WebTypes, TypeOK
    <3>2. CASE k \notin issued
      <4>1. Nothing(k)
        BY <1>0, <3>2 DEF WebInv, OneSocket, Issuing, Nothing
      <4>2. QED
        BY <2>1, <4>1, NothingIsSafe, SafeCalm
    <3>3. CASE Readable(k) /\ h = disk[k]
      <4>1. ~Writing(k)
        BY <3>3 DEF Writing, Saved, InSnapshot, Readable, WebInv, OneSocket, OwnSession, Working,
                    FileOf
      <4>2. Safe(k, h.messages)
        BY <3>3, <4>1, NothingIsSafe DEF Saved, OnDisk
      <4>3. QED
        BY <2>1, <3>1, <4>2, SafeCalm
    <3>4. QED
      BY <2>3, <3>2, <3>3 DEF Opening
  <2>4. QED
    BY <1>0, <2>2, <2>3, ActiveSteps
<1>3. QED
  BY <1>1, <1>2

LEMMA InSessionSteps ==
  ASSUME WebInv, WebTypes', Saved, NEW w \in Sockets, Socket(w), [WebNext]_webVars
  PROVE  \A v \in Sockets : InSession(v)'
<1> SUFFICES ASSUME NEW v \in Sockets, NEW k \in Sheltered, Working(v)', conv'[v] = k
             PROVE  SafeNext(k, messages'[session'[v]])
  BY DEF InSession, Safe, SafeNext, Ordered, Due, Present
<1>0. WebTypes /\ SocketTypes /\ Effect
  BY EffectSteps DEF WebInv, WebTypes
\* A socket that goes on with its session.
<1>1. ASSUME Working(v), conv'[v] = conv[v], session'[v] = session[v]
      PROVE  SafeNext(k, messages'[session'[v]])
  <2>1. Safe(k, messages[session[v]]) /\ session[v] \in Sessions /\ conv[v] = k
    BY <1>0, <1>1 DEF Saved, InSession, SocketTypes, Holds
  <2>2. CASE (Write(w) \/ Reply(w)) /\ conv[w] = k
    <3>1. w = v
      BY <2>1, <2>2 DEF WebInv, OneSocket, Alone, Sheltered
    <3>2. QED
      BY <1>1, <2>1, <2>2, <3>1, OwnSafe DEF vars, sessionVars
  <2>3. CASE ~(Write(w) /\ conv[w] = k) /\ ~(Reply(w) /\ conv[w] = k)
    <3>1. Calm(k)
      BY <2>1, <2>3, CalmSteps DEF Sheltered
    <3>2. Safe(k, messages'[session[v]])
      BY <1>0, <2>1, SessionsGrow, SafeGrows
    <3>3. QED
      BY <1>1, <3>1, <3>2, SafeCalm
  <2>4. QED
    BY <2>2, <2>3
<1>2. CASE v # w
  BY <1>0, <1>1, <1>2, Others DEF Working
<1>3. CASE v = w
  <2>1. conv'[w] \in Keys /\ session'[w] \in Sessions /\ session'[w] # None
    BY <1>3, ManagerAssumption DEF WebTypes, SocketTypes, Holds
  <2>2. CASE Chat(w) /\ Resume(conv[w], session'[w]) /\ conv'[w] = conv[w]
    <3>1. current'[k] = session'[w] /\ state'[session'[w]] = "active"
      BY <1>0, <1>3, <2>1, <2>2 DEF Resume, CurrentActive, Open, vars, sessionVars, WebTypes, TypeOK
    <3>2. QED
      BY <1>3, <2>1, <3>1, CurrentSteps DEF CurrentActive
  <2>3. CASE Open(conv'[w], session'[w], NoHistory)
    <3>1. current'[k] = session'[w] /\ state'[session'[w]] = "active"
      BY <1>0, <1>3, <2>1, <2>3 DEF Open, WebTypes, TypeOK
    <3>2. QED
      BY <1>3, <2>1, <3>1, CurrentSteps DEF CurrentActive
  <2>4. CASE Keeping(w)
    BY <1>1, <1>3, <2>4 DEF Keeping
  <2>5. QED
    BY <1>0, <1>3, <2>2, <2>3, <2>4, WorkingSteps
<1>4. QED
  BY <1>2, <1>3

LEMMA InSnapshotSteps ==
  ASSUME WebInv, WebTypes', Saved, NEW w \in Sockets, Socket(w)
  PROVE  \A v \in Sockets : InSnapshot(v)'
<1>0. WebTypes /\ SocketTypes
  BY DEF WebInv, WebTypes
<1> SUFFICES ASSUME NEW v \in Sockets, NEW k \in Sheltered, conv'[v] = k,
                    wpc'[v] \in {"truncate", "write"}
             PROVE  /\ SafeNext(k, snapshot'[v].messages)
                    /\ wpc'[v] = "write" => disk'[k] = Torn
  BY DEF InSnapshot, Safe, SafeNext, Ordered, Due, Present
<1>1. CASE v # w
  <2>1. /\ conv[v] = k /\ wpc'[v] = wpc[v] /\ snapshot'[v] = snapshot[v] /\ conv[w] # k
        /\ wpc[v] \in {"truncate", "write"}
    BY <1>0, <1>1, Others DEF WebInv, OneSocket, Alone, Sheltered
  <2>2. Calm(k) /\ disk'[k] = disk[k]
    BY <2>1, CalmSteps, DiskSteps DEF Sheltered
  <2>3. Safe(k, snapshot[v].messages) /\ (wpc[v] = "write" => disk[k] = Torn)
    BY <2>1 DEF Saved, InSnapshot
  <2>4. QED
    BY <2>1, <2>2, <2>3, SafeCalm
<1>2. CASE v = w /\ Save(w)
  <2>1. /\ Working(w) /\ conv[w] = k /\ snapshot'[w].messages = messages[session[w]]
        /\ ~Write(w) /\ ~Reply(w) /\ wpc'[w] = "truncate"
    BY <1>0, <1>2 DEF Save, Working, Write, Reply, Goto, SocketTypes
  <2>2. Calm(k) /\ Safe(k, messages[session[w]])
    BY <2>1, CalmSteps DEF Sheltered, Saved, InSession
  <2>3. QED
    BY <1>2, <2>1, <2>2, SafeCalm
<1>3. CASE v = w /\ Truncate(w)
  <2>1. /\ conv[w] = k /\ snapshot'[w] = snapshot[w] /\ wpc[w] = "truncate" /\ wpc'[w] = "write"
        /\ ~Write(w) /\ ~Reply(w) /\ FileOf(w) = conv[w]
    BY <1>0, <1>3 DEF Truncate, Working, Write, Reply, Goto, SocketTypes, FileOf, WebInv, OneSocket,
                      OwnSession, Sheltered
  <2>2. Calm(k) /\ Safe(k, snapshot[w].messages)
    BY <2>1, CalmSteps DEF Sheltered, Saved, InSnapshot
  <2>3. disk'[k] = Torn
    BY <1>0, <1>3, <2>1 DEF Truncate, Sheltered, Goto, WebTypes, FileTypes
  <2>4. QED
    BY <1>3, <2>1, <2>2, <2>3, SafeCalm
<1>4. QED
  BY <1>0, <1>1, <1>2, <1>3, Arrives

\* Answered of the next state, for a socket of conversation k.
AnsweredNext(v, k) ==
  /\ wpc'[v] = "reply" => Readable(k)'
  /\ \A m \in Questions : m = asked'[v] /\ Present(k, m)' =>
       /\ Ordered(m, messages'[session'[v]])
       /\ wpc'[v] \in {"truncate", "write"} => Ordered(m, snapshot'[v].messages)
       /\ wpc'[v] = "reply" => Ordered(m, disk'[k].messages)

\* The answer a session took is in the session, then in what is written, then
\* in the file.
LEMMA AnsweredSteps ==
  ASSUME WebInv, WebTypes', Saved, NEW w \in Sockets, Socket(w), [WebNext]_webVars
  PROVE  \A v \in Sockets : Answered(v)'
<1>0. WebTypes /\ SocketTypes /\ Effect
  BY EffectSteps DEF WebInv, WebTypes
<1> SUFFICES ASSUME NEW v \in Sockets, NEW k \in Sheltered, conv'[v] = k,
                    wpc'[v] \in {"save", "truncate", "write", "reply"}
             PROVE  AnsweredNext(v, k)
  <2>1. \A v \in Sockets : wpc'[v] # "read" => asked'[v] \in Questions
    BY DEF WebTypes, SocketTypes, Holds
  <2>2. QED
    BY <2>1 DEF Answered, AnsweredNext, Ordered, Present, Readable
<1>k. k \in OneTab /\ k \in Keys
  BY DEF Sheltered
<1>1. CASE v # w
  <2>1. /\ conv[v] = k /\ wpc'[v] = wpc[v] /\ asked'[v] = asked[v] /\ session'[v] = session[v]
        /\ snapshot'[v] = snapshot[v] /\ conv[w] # k /\ session[v] \in Sessions
    BY <1>0, <1>1, <1>k, Others DEF WebInv, OneSocket, Alone, SocketTypes, Holds, Working
  <2>2. disk'[k] = disk[k]
    BY <2>1, DiskSteps
  <2>3. ASSUME NEW m \in Questions, m = asked[v], Present(k, m)'
        PROVE  Present(k, m) /\ Ordered(m, messages'[session[v]])
    <3>1. Present(k, m)
      BY <1>k, <2>1, <2>3, PresentSteps
    <3>2. Ordered(m, messages[session[v]])
      BY <2>1, <2>3, <3>1 DEF Saved, Answered
    <3>3. QED
      BY <1>0, <2>1, <3>1, <3>2, SessionsGrow, OrderedGrows
  <2>4. QED
    BY <2>1, <2>2, <2>3 DEF AnsweredNext, Saved, Answered, Readable
<1>2. CASE v = w /\ Record(w)
  <2>1. /\ wpc[w] = "record" /\ wpc'[w] = "save" /\ conv[w] = k /\ Working(w)
        /\ asked'[w] = asked[w] /\ session'[w] = session[w] /\ session[w] \in Sessions
    BY <1>0, <1>2 DEF Record, Goto, Working, SocketTypes, Holds
  <2>2. ASSUME NEW m \in Questions, m = asked[w], Present(k, m)'
        PROVE  Ordered(m, messages'[session[w]])
    <3>1. ~Present(k, m)
      BY <1>k, <2>1, <2>2 DEF WebInv, Answers, Asking, Unanswered, Present
    <3>2. /\ messages' = [messages EXCEPT ![session[w]] = Append(@, Answer(m))]
          /\ state[session[w]] = "active"
      BY <1>k, <2>1, <2>2, <3>1, PresentSteps DEF AddMessage, Accepts
    <3>3. Question(m) \in Range(messages[session[w]])
      BY <1>k, <2>1, <2>2, <3>2 DEF WebInv, Answers, Asking, Recorded
    <3>4. /\ messages[session[w]] \in Seq(Message)
          /\ messages'[session[w]] = Append(messages[session[w]], Answer(m))
      BY <1>0, <2>1, <3>2 DEF WebTypes, TypeOK
    <3> DEFINE n == Len(messages[session[w]])
    <3>5. PICK i \in 1 .. n : messages[session[w]][i] = Question(m)
      BY <3>3, <3>4 DEF Range
    <3>6. /\ n \in Nat /\ DOMAIN messages'[session[w]] = 1 .. n + 1
          /\ messages'[session[w]][i] = Question(m)
          /\ messages'[session[w]][n + 1] = Answer(m)
      BY <3>4, <3>5
    <3>7. i < n + 1 /\ i \in 1 .. n + 1 /\ n + 1 \in 1 .. n + 1
      BY <3>5, <3>6
    <3>8. QED
      BY <3>6, <3>7 DEF Ordered
  <2>3. QED
    BY <1>2, <2>1, <2>2 DEF AnsweredNext
<1>3. CASE v = w /\ (Save(w) \/ Truncate(w))
  <2>1. /\ wpc[w] \in {"save", "truncate"} /\ wpc'[w] \in {"truncate", "write", "read"}
        /\ conv[w] = k /\ asked'[w] = asked[w] /\ session'[w] = session[w]
        /\ UNCHANGED messages
        /\ \/ snapshot'[w].messages = messages[session[w]]
           \/ wpc[w] = "truncate" /\ snapshot'[w] = snapshot[w]
    BY <1>0, <1>3 DEF Save, Truncate, Goto, SocketTypes, vars, sessionVars
  <2>2. QED
    BY <1>3, <2>1 DEF AnsweredNext, Saved, Answered, Present
<1>4. CASE v = w /\ Write(w)
  <2>0. conv[w] = k
    BY <1>4 DEF Write
  <2>1. /\ wpc[w] = "write" /\ wpc'[w] = "reply" /\ snapshot[w] \in History
        /\ disk'[k] = snapshot[w]
        /\ asked'[w] = asked[w] /\ session'[w] = session[w] /\ UNCHANGED messages
    BY <1>0, <1>k, <1>4, <2>0, WriteMeans DEF WebTypes, FileTypes, vars, sessionVars
  <2>2. QED
    BY <1>4, <2>0, <2>1 DEF AnsweredNext, Saved, Answered, Present, Readable
<1>5. QED
  BY <1>0, <1>1, <1>2, <1>3, <1>4, Arrives

LEMMA SavedOtherwise ==
  ASSUME WebInv, Saved, Crash \/ (Receding /\ UNCHANGED <<socketVars, fileVars>>)
  PROVE  Saved'
<1>0. /\ Receding /\ UNCHANGED <<messages, disk, kept, delivered>> /\ WebTypes
      /\ Sheltered \subseteq Keys /\ Sheltered \subseteq SoundDisk
  BY CrashRecedes DEF WebInv, Crash, fileVars, Receding, Sheltered
<1>1. \A k \in Sheltered : Calm(k)
  BY <1>0, CalmOtherwise
<1>2. ASSUME NEW k \in Sheltered PROVE OnDisk(k)'
  <2>1. ~Writing(k)' => ~Writing(k)
    BY <1>0 DEF Crash, socketVars, Writing, FileOf
  <2>2. ASSUME Safe(k, disk[k].messages) PROVE Safe(k, disk[k].messages)'
    BY <1>0, <1>1, <2>2, SafeCalm DEF Safe, SafeNext, Ordered
  <2>3. Nothing(k) => Nothing(k)'
    BY <1>1, NothingCalm
  <2>4. QED
    BY <1>0, <2>1, <2>2, <2>3 DEF Saved, OnDisk, Readable
<1>3. ASSUME NEW k \in Sheltered, CurrentActive(k)' PROVE Safe(k, messages[current[k]])'
  <2>1. CurrentActive(k) /\ UNCHANGED current[k]
    BY <1>0, <1>3 DEF Receding, CurrentActive, WebTypes, TypeOK
  <2>2. SafeNext(k, messages[current[k]])
    BY <1>1, <2>1, SafeCalm DEF Saved
  <2>3. QED
    BY <1>0, <2>1, <2>2 DEF Safe, SafeNext, Ordered
<1>4. CASE Crash
  <2>1. ASSUME NEW v \in Sockets PROVE conv'[v] \notin Sheltered
    BY <1>0, <1>4 DEF Crash
  <2>2. QED
    BY <1>2, <1>3, <2>1 DEF Saved, InSession, InSnapshot, Answered
<1>5. CASE UNCHANGED socketVars
  <2>1. ASSUME NEW v \in Sockets, NEW k \in Sheltered, conv[v] = k
        PROVE  /\ Working(v)' => SafeNext(k, messages'[session'[v]])
               /\ wpc'[v] \in {"truncate", "write"} => SafeNext(k, snapshot'[v].messages)
    BY <1>0, <1>1, <1>5, <2>1, SafeCalm DEF socketVars, Working, Saved, InSession, InSnapshot
  <2>2. ASSUME NEW v \in Sockets PROVE InSession(v)' /\ InSnapshot(v)'
    BY <1>0, <1>5, <2>1 DEF socketVars, Saved, InSession, InSnapshot, Safe, SafeNext, Ordered, Due,
                            Present
  <2>3. ASSUME NEW v \in Sockets PROVE Answered(v)'
    BY <1>0, <1>5 DEF socketVars, Saved, Answered, Present, Readable, Ordered
  <2>4. QED
    BY <1>2, <1>3, <2>2, <2>3 DEF Saved
<1>6. QED
  BY <1>4, <1>5

LEMMA SavedSteps ==
  WebInv /\ WebTypes' /\ Saved /\ [WebNext]_webVars => Saved'
<1> SUFFICES ASSUME WebInv, WebTypes', Saved, [WebNext]_webVars PROVE Saved'
  OBVIOUS
<1>1. ASSUME NEW w \in Sockets, Socket(w) PROVE Saved'
  <2>1. ASSUME NEW k \in Sheltered, CurrentActive(k)' PROVE Safe(k, messages[current[k]])'
    BY <1>1, <2>1, CurrentSteps DEF Safe, SafeNext, Ordered
  <2>2. QED
    BY <1>1, <2>1, OnDiskSteps, InSessionSteps, InSnapshotSteps, AnsweredSteps DEF Saved
<1>2. QED
  BY <1>1, SavedOtherwise, BackgroundRecedes, UnchangedRecedes
     DEF WebNext, webVars, vars, WebInv, WebTypes

LEMMA SavedInitially == WebInit => Saved
BY DEF WebInit, Init, Saved, OnDisk, Nothing, CurrentActive, InSession, InSnapshot, Answered, Working,
       Sheltered

\* The invariant behind all that follows.
THEOREM WebSafety == WebSpec => [](WebInv /\ Saved)
<1>1. WebInit => WebInv /\ Saved
  BY TypesInitially, InstantsInitially, OneSocketInitially, AnswersInitially, SavedInitially
     DEF WebInv
<1>2. WebInv /\ Saved /\ [WebNext]_webVars => (WebInv /\ Saved)'
  BY TypesSteps, InstantsSteps, OneSocketSteps, AnswersSteps, SavedSteps DEF WebInv
<1>3. QED
  BY <1>1, <1>2, PTL DEF WebSpec

\* Every variable keeps its type, through every socket step, every step of
\* the manager's goroutines and every restart (websocket.go:111-255).
THEOREM WebTypeCorrect == WebSpec => []WebTypeOK
<1>1. WebInv => WebTypeOK
  BY DEF WebInv, WebTypes, SocketTypes, FileTypes, WebTypeOK, Readable
<1>2. QED
  BY <1>1, WebSafety, PTL

\* The round count of a session is the number of its questions, through
\* resumption from a file too (session_owner.go:46-50, session.go:239-257).
THEOREM RoundsCounted == WebSpec => []RoundsAreQuestions
<1>1. WebInv => RoundsAreQuestions
  BY DEF WebInv, Instants
<1>2. QED
  BY <1>1, WebSafety, PTL

\* A readable file is what some session of its conversation held at one
\* instant, with its round count (session_store.go:145, CloneSession under
\* Session.mu).
THEOREM FilesAreInstants == WebSpec => []FileIsOneInstant
<1>1. WebInv => FileIsOneInstant
  BY DEF WebInv, Instants, FileIsOneInstant
<1>2. QED
  BY <1>1, WebSafety, PTL

\* In a conversation open in one socket at a time an answer stands behind its
\* question, through rotation and restarts (websocket.go:169-184, 242).
THEOREM QuestionsFirst == WebSpec => []AnswersBehindQuestions
<1>1. WebInv => AnswersBehindQuestions
  BY DEF WebInv, Answers
<1>2. QED
  BY <1>1, WebSafety, PTL

\* What was once in the file of such a conversation stays in it, on a disk
\* whose writes are whole (session_store.go:137-160).
THEOREM SavedStays == WebSpec => []ShelteredStaysSaved
<1>1. Saved => ShelteredStaysSaved
  BY DEF Saved, OnDisk, Nothing, Safe, ShelteredStaysSaved, KeepsSaved
<1>2. QED
  BY <1>1, WebSafety, PTL

\* An answer that was sent and that its session took is in the file, behind its
\* question (websocket.go:242-254), and in the open session of its conversation,
\* after resumption from the file too (session_owner.go:46-50).
THEOREM DeliveredStays == WebSpec => []DeliveredIsKept
<1>1. Saved => DeliveredIsKept
  <2> SUFFICES ASSUME Saved, NEW k \in Sheltered, NEW m \in Questions, <<k, m>> \in delivered,
                      Present(k, m)
               PROVE  /\ ~Writing(k) => Readable(k) /\ Ordered(m, disk[k].messages)
                      /\ CurrentActive(k) => Ordered(m, messages[current[k]])
    BY DEF DeliveredIsKept
  <2>1. ASSUME ~Writing(k) PROVE Readable(k) /\ Ordered(m, disk[k].messages)
    BY <2>1 DEF Present, Ordered, Saved, OnDisk, Nothing, Safe, Due
  <2>2. ASSUME CurrentActive(k) PROVE Ordered(m, messages[current[k]])
    BY <2>2 DEF Saved, Safe, Due
  <2>3. QED
    BY <2>1, <2>2
<1>2. QED
  BY <1>1, WebSafety, PTL

================================================================================
