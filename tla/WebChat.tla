-------------------------------- MODULE WebChat --------------------------------
(***************************************************************************)
(* The web chat: one goroutine per socket, gateway/websocket.go:111-255,   *)
(* on the session manager and the saved conversations of                   *)
(* core/session_owner.go and core/session_store.go.                        *)
(*                                                                         *)
(* A key is a conversation, "webchat:" and a random id.  A conversation    *)
(* outlives its Session objects: once its session was closed, or the       *)
(* program restarted, it is resumed from its file.  All conversations have *)
(* one owner here; the search index and the owner checks are left out.     *)
(***************************************************************************)
EXTENDS SessionManager, SequencesExt

CONSTANTS
  Sockets,       \* the web sockets
  OneTab,        \* the conversations open in one socket at a time
  SoundDisk,     \* those whose file writes neither fail nor are cut short
  MaxCrashes,    \* bound of the model: restarts of the program
  Torn           \* a file that is not a whole JSON document

Questions == Texts

ASSUME WebAssumption ==
  /\ OneTab \subseteq Keys
  /\ SoundDisk \subseteq Keys
  /\ MaxCrashes \in Nat
  /\ MaxRounds > 0 \* the configuration takes 0 for 20 (config.go:141)
  /\ None \notin Keys \cup Sockets \cup Texts

\* What can be read is neither of the two that cannot.
ASSUME FileAssumption == None \notin History /\ Torn \notin History

VARIABLES
  wpc,           \* where the goroutine of each socket is
  conv,          \* wsConn.sessionID, None when it is ""
  asked,         \* the question the socket works on
  session,       \* the local variable session of handleChat
  snapshot,      \* what SaveSession is about to write
  disk,          \* the session files: None (no file), Torn, or a history
  issued,        \* the conversation ids handed out so far
  kept,          \* messages that were once in a file (for properties)
  delivered,     \* answers sent to the browser, with their conversation
  crashes        \* restarts so far

socketVars == <<wpc, conv, asked, session, snapshot>>
fileVars == <<disk, issued, kept, delivered>>
webVars == <<vars, socketVars, fileVars, crashes>>

Question(m) == [role |-> "user", text |-> m]
Answer(m) == [role |-> "assistant", text |-> m]
NoHistory == [messages |-> <<>>, rounds |-> 0]

Readable(k) == disk[k] \notin {None, Torn}

\* The file SaveSession writes is named by the session's own ID, its key.
FileOf(w) == KeyOf[session[w]]
Writing(k) == \E w \in Sockets : wpc[w] = "write" /\ FileOf(w) = k

Goto(w, label) == wpc' = [wpc EXCEPT ![w] = label]

WebInit ==
  /\ Init
  /\ wpc = [w \in Sockets |-> "read"]
  /\ conv = [w \in Sockets |-> None]
  /\ asked = [w \in Sockets |-> None]
  /\ session = [w \in Sockets |-> None]
  /\ snapshot = [w \in Sockets |-> None]
  /\ disk = [k \in Keys |-> None]
  /\ issued = {}
  /\ kept = [k \in Keys |-> {}]
  /\ delivered = {}
  /\ crashes = 0

-----------------------------------------------------------------------------
(* SessionStore.BrowserSession, all of it under SessionManager.mu.          *)

\* With create: a fresh id, so nothing is mapped at k and no file is read.
BrowserCreate(w, k) ==
  /\ k \notin issued
  /\ issued' = issued \cup {k}
  /\ conv' = [conv EXCEPT ![w] = k]

\* A variant of Restored: every Session object starts empty.
RestoredEmpty(k) == NoHistory

\* What a session resumed from its file starts with.
Restored(k) == disk[k]

\* Without create, the session: the mapped one when it is active, an error
\* when it is not, and otherwise a new one from the file.
Resume(k, s) ==
  \/ CurrentActive(k) /\ s = current[k] /\ UNCHANGED vars
  \/ /\ current[k] = None
     /\ Readable(k)
     /\ Open(k, s, Restored(k))

NotResumable(k) ==
  \/ current[k] # None /\ ~CurrentActive(k)
  \/ current[k] = None /\ (~Readable(k) \/ ~SlotFree)

-----------------------------------------------------------------------------
(* wsConn.loop.                                                             *)

\* Distinct questions: a text that was recorded or answered is not asked again.
Fresh(m) ==
  /\ m \notin {asked[w] : w \in Sockets}
  /\ \A s \in Sessions : Question(m) \notin Range(messages[s])
  /\ \A k \in Keys : <<k, m>> \notin delivered

\* ReadMessage.  On a socket without a conversation the message names one, or
\* none to have one created.
Read(w) ==
  /\ wpc[w] = "read"
  /\ \E m \in Questions :
       /\ Fresh(m)
       /\ asked' = [asked EXCEPT ![w] = m]
  /\ Goto(w, IF conv[w] = None THEN "open" ELSE "chat")
  /\ UNCHANGED <<vars, conv, session, snapshot, fileVars, crashes>>

\* The browser goes away between two messages, and may come back.
Disconnect(w) ==
  /\ wpc[w] = "read"
  /\ conv[w] # None
  /\ conv' = [conv EXCEPT ![w] = None]
  /\ UNCHANGED <<vars, wpc, asked, session, snapshot, fileVars, crashes>>

\* The first BrowserSession of a socket; refused, sessionID becomes "" again.
OpenNew(w) ==
  /\ wpc[w] = "open"
  /\ \/ \E k \in Keys, s \in Sessions :
          BrowserCreate(w, k) /\ Open(k, s, NoHistory) /\ Goto(w, "chat")
     \/ ~SlotFree /\ Goto(w, "read") /\ UNCHANGED <<vars, conv, issued>>
  /\ UNCHANGED <<asked, session, snapshot, disk, kept, delivered, crashes>>

OpenKnown(w) ==
  /\ wpc[w] = "open"
  /\ \E k \in issued :
       /\ k \in OneTab => \A v \in Sockets : conv[v] # k
       /\ \/ /\ \E s \in Sessions : Resume(k, s)
             /\ conv' = [conv EXCEPT ![w] = k]
             /\ Goto(w, "chat")
          \/ /\ NotResumable(k)
             /\ Goto(w, "read")
             /\ UNCHANGED <<vars, conv>>
  /\ UNCHANGED <<asked, session, snapshot, fileVars, crashes>>

-----------------------------------------------------------------------------
(* handleChat and handleChatWithChain.                                      *)

\* BrowserSession once more, for every message; refused, the browser is told.
Chat(w) ==
  /\ wpc[w] = "chat"
  /\ \/ /\ \E s \in Sessions : Resume(conv[w], s) /\ session' = [session EXCEPT ![w] = s]
        /\ Goto(w, "ask")
     \/ /\ NotResumable(conv[w])
        /\ Goto(w, "read")
        /\ UNCHANGED <<vars, session>>
  /\ UNCHANGED <<conv, asked, snapshot, fileVars, crashes>>

\* A variant of Ask: what AddMessage returns is ignored.
AskIgnoring(w) ==
  /\ wpc[w] = "ask"
  /\ \/ AddMessage(session[w], Question(asked[w]))
     \/ ~Accepts(session[w], "user") /\ UNCHANGED vars
  /\ Goto(w, "chain")
  /\ UNCHANGED <<conv, asked, session, snapshot, fileVars, crashes>>

\* AddMessage of the question; refused, the session is ended ...
Ask(w) ==
  /\ wpc[w] = "ask"
  /\ \/ AddMessage(session[w], Question(asked[w])) /\ Goto(w, "chain")
     \/ ~Accepts(session[w], "user") /\ Goto(w, "end") /\ UNCHANGED vars
  /\ UNCHANGED <<conv, asked, session, snapshot, fileVars, crashes>>

EndRefusing(w) ==
  /\ wpc[w] = "end"
  /\ \/ ClientEnd(session[w]) /\ Goto(w, "post")
     \/ state[session[w]] # "active" /\ Goto(w, "rotate") /\ UNCHANGED vars
  /\ UNCHANGED <<conv, asked, session, snapshot, fileVars, crashes>>

PostRefusing(w) ==
  /\ wpc[w] = "post"
  /\ ClientPost(session[w])
  /\ Goto(w, "rotate")
  /\ UNCHANGED <<conv, asked, session, snapshot, fileVars, crashes>>

\* ... and a new conversation begins under a new id.  The id is the socket's
\* even when the limit refuses its session, and then nothing is behind it.
Rotate(w) ==
  /\ wpc[w] = "rotate"
  /\ \E k \in Keys :
       /\ BrowserCreate(w, k)
       /\ \/ \E s \in Sessions :
               /\ Open(k, s, NoHistory)
               /\ session' = [session EXCEPT ![w] = s]
               /\ Goto(w, "reask")
          \/ ~SlotFree /\ Goto(w, "read") /\ UNCHANGED <<vars, session>>
  /\ UNCHANGED <<asked, snapshot, disk, kept, delivered, crashes>>

\* The question again; what AddMessage returns is ignored here.
AskAgain(w) ==
  /\ wpc[w] = "reask"
  /\ \/ AddMessage(session[w], Question(asked[w]))
     \/ ~Accepts(session[w], "user") /\ UNCHANGED vars
  /\ Goto(w, "chain")
  /\ UNCHANGED <<conv, asked, session, snapshot, fileVars, crashes>>

\* The chain answers, or fails and the browser is told.
Chain(w) ==
  /\ wpc[w] = "chain"
  /\ \E label \in {"record", "read"} : Goto(w, label)
  /\ UNCHANGED <<vars, conv, asked, session, snapshot, fileVars, crashes>>

\* A variant of Record: the browser is answered before the session is saved.
RecordReplying(w) ==
  /\ wpc[w] = "record"
  /\ \/ AddMessage(session[w], Answer(asked[w]))
     \/ ~Accepts(session[w], "assistant") /\ UNCHANGED vars
  /\ delivered' = delivered \cup {<<conv[w], asked[w]>>}
  /\ Goto(w, "save")
  /\ UNCHANGED <<conv, asked, session, snapshot, disk, issued, kept, crashes>>

\* AddMessage of the answer; what it returns is ignored.
Record(w) ==
  /\ wpc[w] = "record"
  /\ \/ AddMessage(session[w], Answer(asked[w]))
     \/ ~Accepts(session[w], "assistant") /\ UNCHANGED vars
  /\ Goto(w, "save")
  /\ UNCHANGED <<conv, asked, session, snapshot, fileVars, crashes>>

-----------------------------------------------------------------------------
(* SaveSession: clone under Session.mu, then os.WriteFile under no lock.    *)

Save(w) ==
  /\ wpc[w] = "save"
  /\ snapshot' = [snapshot EXCEPT ![w] = [messages |-> messages[session[w]],
                                          rounds |-> rounds[session[w]]]]
  /\ Goto(w, "truncate")
  /\ UNCHANGED <<vars, conv, asked, session, fileVars, crashes>>

\* A variant of Truncate: the round count is read again, after the clone.
TruncateRecounting(w) ==
  /\ wpc[w] = "truncate"
  /\ Goto(w, "write") /\ disk' = [disk EXCEPT ![FileOf(w)] = Torn]
  /\ snapshot' = [snapshot EXCEPT ![w].rounds = rounds[session[w]]]
  /\ UNCHANGED <<vars, conv, asked, session, issued, kept, delivered, crashes>>

\* The file is opened, which empties it, or cannot be.
Truncate(w) ==
  /\ wpc[w] = "truncate"
  /\ \/ Goto(w, "write") /\ disk' = [disk EXCEPT ![FileOf(w)] = Torn]
     \/ FileOf(w) \notin SoundDisk /\ Goto(w, "read") /\ UNCHANGED disk
  /\ UNCHANGED <<vars, conv, asked, session, snapshot, issued, kept, delivered,
                 crashes>>

\* The bytes are written.  Another socket that wrote since the truncation may
\* have left a longer text, whose end then follows this one.
Write(w) ==
  LET k == FileOf(w) IN
  /\ wpc[w] = "write"
  /\ \/ /\ \/ disk' = [disk EXCEPT ![k] = snapshot[w]]
           \/ Readable(k) /\ disk' = [disk EXCEPT ![k] = Torn]
        /\ kept' = [kept EXCEPT ![k] = @ \cup Range(snapshot[w].messages)]
        /\ Goto(w, "reply")
     \/ k \notin SoundDisk /\ Goto(w, "read") /\ UNCHANGED <<disk, kept>>
  /\ snapshot' = [snapshot EXCEPT ![w] = None]
  /\ UNCHANGED <<vars, conv, asked, session, issued, delivered, crashes>>

\* The answer is sent to the browser, once it is saved; the call is over.
Reply(w) ==
  /\ wpc[w] = "reply"
  /\ delivered' = delivered \cup {<<conv[w], asked[w]>>}
  /\ Goto(w, "read")
  /\ asked' = [asked EXCEPT ![w] = None]
  /\ session' = [session EXCEPT ![w] = None]
  /\ UNCHANGED <<vars, conv, snapshot, disk, issued, kept, crashes>>

Socket(w) ==
  \/ Read(w) \/ Disconnect(w) \/ OpenNew(w) \/ OpenKnown(w) \/ Chat(w)
  \/ Ask(w) \/ EndRefusing(w) \/ PostRefusing(w) \/ Rotate(w) \/ AskAgain(w)
  \/ Chain(w) \/ Record(w) \/ Save(w) \/ Truncate(w) \/ Write(w) \/ Reply(w)

(***************************************************************************)
(* The program ends, at any moment, and starts again: the files stay.  A   *)
(* graceful shutdown drops the same memory and closes the same sockets.    *)
(***************************************************************************)
Crash ==
  /\ crashes < MaxCrashes
  /\ \A k \in SoundDisk : ~Writing(k)
  /\ crashes' = crashes + 1
  /\ state' = [s \in Sessions |-> IF state[s] = "unused" THEN "unused" ELSE "closed"]
  /\ current' = [k \in Keys |-> None]
  /\ sending' = {} /\ endCh' = <<>> /\ overflow' = {}
  /\ consumerPc' = "select" /\ consuming' = None
  /\ scanPc' = "wait" /\ expired' = {} /\ doomed' = None
  /\ wpc' = [w \in Sockets |-> "read"]
  /\ conv' = [w \in Sockets |-> None]
  /\ asked' = [w \in Sockets |-> None]
  /\ session' = [w \in Sockets |-> None]
  /\ snapshot' = [w \in Sockets |-> None]
  /\ UNCHANGED <<messages, rounds, idle, sedimented, phase, fileVars>>

WebNext ==
  \/ \E w \in Sockets : Socket(w)
  \/ Background /\ UNCHANGED <<socketVars, fileVars, crashes>>
  \/ Crash

WebSpec == WebInit /\ [][WebNext]_webVars

-----------------------------------------------------------------------------
(* Properties.                                                              *)

\* The type of every variable.
WebTypeOK ==
  /\ TypeOK
  /\ wpc \in [Sockets -> {"read", "open", "chat", "ask", "end", "post", "rotate",
                          "reask", "chain", "record", "save", "truncate", "write",
                          "reply"}]
  /\ conv \in [Sockets -> Keys \cup {None}]
  /\ asked \in [Sockets -> Questions \cup {None}]
  /\ session \in [Sockets -> Sessions \cup {None}]
  /\ \A w \in Sockets : snapshot[w] # None => snapshot[w] \in History
  /\ \A k \in Keys : Readable(k) => disk[k] \in History
  /\ issued \in SUBSET Keys
  /\ kept \in [Keys -> SUBSET Message]
  /\ delivered \in SUBSET (Keys \X Questions)
  /\ crashes \in 0 .. MaxCrashes

\* Nothing that was once in a conversation's file is lost from it again, when
\* no write is under way: "message history is stored to disk" (README.md:146).
KeepsSaved(k) ==
  ~Writing(k) /\ kept[k] # {} =>
    Readable(k) /\ kept[k] \subseteq Range(disk[k].messages)

SavedStaysSaved == \A k \in Keys : KeepsSaved(k)

\* It holds of the conversations open in one socket at a time on a sound disk,
\* through time-outs, resumption and restarts.
Sheltered == OneTab \cap SoundDisk
ShelteredStaysSaved == \A k \in Sheltered : KeepsSaved(k)

\* Some session of the conversation took the answer.
Present(k, m) == \E s \in Sessions : KeyOf[s] = k /\ Answer(m) \in Range(messages[s])

\* A history has the answer behind its question.
Ordered(m, seq) ==
  \E i, j \in DOMAIN seq : i < j /\ seq[i] = Question(m) /\ seq[j] = Answer(m)

\* An answer the browser was sent and its session took stands in the file of
\* its conversation, behind its question (websocket.go:242-254: recorded, then
\* saved, and only then sent), and in the session of the conversation that is
\* open, whichever it is: what the browser was told is known when it asks again,
\* after a time-out or a restart too (session_owner.go:46-50).
DeliveredIsKept ==
  \A k \in Sheltered, m \in Questions : <<k, m>> \in delivered /\ Present(k, m) =>
    /\ ~Writing(k) => Readable(k) /\ Ordered(m, disk[k].messages)
    /\ CurrentActive(k) => Ordered(m, messages[current[k]])

\* The number of questions in a history.
QuestionCount(history) ==
  Cardinality({i \in DOMAIN history : history[i].role = "user"})

\* The round count is the number of questions in the history.
RoundsAreQuestions ==
  \A s \in Sessions : rounds[s] = QuestionCount(messages[s])

\* A file that can be read holds what some session held, and its round count.
FilesAreClones ==
  \A k \in Keys : Readable(k) =>
    /\ disk[k].rounds = QuestionCount(disk[k].messages)
    /\ \E s \in Sessions : KeyOf[s] = k /\ IsPrefix(disk[k].messages, messages[s])

\* A file that can be read holds what some session of its conversation held at
\* one instant, with the round count of that instant, while other sockets add
\* to it (CloneSession under Session.mu, session_store.go:145).  The count goes
\* through the file: it is that of the questions after a resumption too
\* (session_owner.go:46-50), so the limit holds for a conversation and not for
\* each of its sessions.
FileIsOneInstant == RoundsAreQuestions /\ FilesAreClones

\* An answer stands in a session behind its own question, through the rotation
\* to a new conversation too: both go to the session the handler holds then
\* (websocket.go:169-184, 242).  Of conversations open in one socket at a time:
\* AskAgain ignores a refusal, which only another socket can bring about.
AnswersBehindQuestions ==
  \A s \in Sessions : KeyOf[s] \in OneTab => \A j \in DOMAIN messages[s] :
    messages[s][j].role = "assistant" =>
      \E i \in 1 .. j - 1 : messages[s][i] = Question(messages[s][j].text)

===============================================================================
