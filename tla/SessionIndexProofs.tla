--------------------------- MODULE SessionIndexProofs ---------------------------
(***************************************************************************)
(* Theorems about SessionIndex, for every number of sockets, goroutines,   *)
(* conversations and restarts.                                             *)
(***************************************************************************)
EXTENDS SessionIndex, WebChatProofs

USE CacheAssumption

-----------------------------------------------------------------------------
(* The index leaves the web chat as it is.                                  *)

LEMMA IndexStep == [IndexNext]_allVars => [WebNext]_webVars
<1>1. Boot => UNCHANGED webVars
  BY DEF Boot, LoadCache, Rebuild, NoDirectory, BootTruncate, BootWrite
<1>2. ASSUME NEW w \in Sockets, Spawn(w) PROVE UNCHANGED webVars
  BY <1>2 DEF Spawn
<1>3. ASSUME NEW w \in Sockets, Handler(w) PROVE Socket(w)
  BY <1>3 DEF Handler
<1>4. ASSUME NEW n \in Jobs, Job(n) PROVE UNCHANGED webVars
  BY <1>4 DEF Job, EmbedFails, IndexMessage, SaveIndex, TruncateCache, WriteCache
<1>5. QED
  BY <1>1, <1>2, <1>3, <1>4 DEF IndexNext, Serving, IndexCrash, WebNext, allVars

\* The program with its index is the web chat: all that is proved of the one
\* holds of the other (websocket.go:187-201 changes nothing of the session).
THEOREM IndexImplementsWebChat == IndexSpec => WebSpec
<1>1. IndexInit => WebInit
  BY DEF IndexInit
<1>2. QED
  BY <1>1, IndexStep, PTL DEF IndexSpec, WebSpec

LEMMA WebChatHolds == IndexSpec => [](WebInv /\ Saved)
BY IndexImplementsWebChat, WebSafety, PTL

-----------------------------------------------------------------------------
(* Types.                                                                   *)

Work == [step : Steps, data : SUBSET Entry]

IndexTypes ==
  /\ index \in SUBSET Entry
  /\ cache \in {None, Torn} \cup [entries : SUBSET Entry]
  /\ job \in [Jobs -> Work]
  /\ cloned \in [Sockets -> BOOLEAN]
  /\ boot \in {"load", "truncate", "write", "up"}

\* A history of a conversation has its questions at its places.
LEMMA QuestionsAreEntries ==
  ASSUME NEW k \in Keys, NEW history \in Seq(Message)
  PROVE  QuestionsOf(k, history) \in SUBSET Entry
<1> SUFFICES ASSUME NEW i \in DOMAIN history, history[i].role = "user"
             PROVE  [place |-> <<k, i>>, text |-> history[i].text, vector |-> FALSE] \in Entry
  BY DEF QuestionsOf
<1>1. history[i] \in Message /\ i \in Nat \ {0}
  OBVIOUS
<1>2. QED
  BY <1>1 DEF Entry, Place, Message

LEMMA CollectedAreEntries == WebTypes => Collected \in SUBSET Entry
<1> SUFFICES ASSUME WebTypes, NEW k \in Keys, Readable(k)
             PROVE  QuestionsOf(k, disk[k].messages) \in SUBSET Entry
  BY DEF Collected
<1>1. disk[k].messages \in Seq(Message)
  BY DEF WebTypes, FileTypes, Readable, History
<1>2. QED
  BY <1>1, QuestionsAreEntries

\* What the clone's last message is, when it is a question.
LEMMA LastMessageMeans ==
  ASSUME WebTypes, NEW w \in Sockets, wpc[w] = "chain"
  PROVE  /\ session[w] \in Sessions /\ Clone(w) \in Seq(Message)
         /\ LastMessage(w) = IF EndsInQuestion(w) THEN {LastEntry(w)} ELSE {}
         /\ EndsInQuestion(w) =>
              /\ Len(Clone(w)) \in DOMAIN Clone(w)
              /\ Clone(w)[Len(Clone(w))] = Question(LastEntry(w).text)
              /\ LastEntry(w).place = <<KeyOf[session[w]], Len(Clone(w))>>
              /\ LastEntry(w) \in Entry /\ LastEntry(w).vector
<1>1. session[w] \in Sessions /\ Clone(w) \in Seq(Message) /\ KeyOf[session[w]] \in Keys
  BY ManagerAssumption DEF WebTypes, SocketTypes, Holds, Working, TypeOK, Clone
<1>2. ASSUME Clone(w) # <<>>
      PROVE  /\ Len(Clone(w)) \in DOMAIN Clone(w)
             /\ Len(Clone(w)) \in Nat \ {0}
  BY <1>1, <1>2
<1>3. ASSUME EndsInQuestion(w)
      PROVE  /\ Clone(w)[Len(Clone(w))] \in Message /\ Clone(w)[Len(Clone(w))].role = "user"
             /\ LastEntry(w) = [place |-> <<KeyOf[session[w]], Len(Clone(w))>>,
                                text |-> Clone(w)[Len(Clone(w))].text, vector |-> TRUE]
  BY <1>1, <1>2, <1>3 DEF EndsInQuestion, Last, LastEntry
<1>4. ASSUME EndsInQuestion(w)
      PROVE  /\ LastEntry(w) \in Entry /\ LastEntry(w).vector
             /\ Clone(w)[Len(Clone(w))] = Question(LastEntry(w).text)
             /\ LastEntry(w).place = <<KeyOf[session[w]], Len(Clone(w))>>
  <2> DEFINE m == Clone(w)[Len(Clone(w))]
             n == Len(Clone(w))
  <2>1. m \in Message /\ m.role = "user" /\ n \in Nat \ {0} /\ KeyOf[session[w]] \in Keys
    BY <1>1, <1>2, <1>3, <1>4 DEF EndsInQuestion
  <2>2. LastEntry(w) = [place |-> <<KeyOf[session[w]], n>>, text |-> m.text, vector |-> TRUE]
    BY <1>3, <1>4
  <2> HIDE DEF m, n
  <2>3. m = Question(m.text) /\ m.text \in Texts
    BY <2>1 DEF Message, Question
  <2>4. LastEntry(w) \in Entry /\ LastEntry(w).vector /\ LastEntry(w).text = m.text
        /\ LastEntry(w).place = <<KeyOf[session[w]], n>>
    BY <2>1, <2>2, <2>3 DEF Entry, Place
  <2>5. QED
    BY <2>3, <2>4 DEF m, n
<1>5. QED
  BY <1>1, <1>2, <1>4 DEF LastMessage, EndsInQuestion

LEMMA IndexTypesInitially == IndexInit => IndexTypes
BY DEF IndexInit, IndexTypes, Work, Steps, Idle

LEMMA IndexTypesSteps ==
  WebTypes /\ IndexTypes /\ [IndexNext]_allVars => IndexTypes'
<1> SUFFICES ASSUME WebTypes, IndexTypes, [IndexNext]_allVars PROVE IndexTypes'
  OBVIOUS
<1> USE DEF IndexTypes
<1>0. Idle \in Work
  BY DEF Idle, Work, Steps
<1>1. CASE LoadCache
  <2>1. cache \in [entries : SUBSET Entry]
    BY <1>1 DEF LoadCache, CacheServes
  <2>2. QED
    BY <1>1, <2>1 DEF LoadCache
<1>2. CASE Rebuild
  <2>1. PICK failed \in SUBSET Collected :
          index' = failed \cup { [e EXCEPT !.vector = TRUE] : e \in Collected \ failed }
    BY <1>2 DEF Rebuild
  <2>2. \A e \in Entry : [e EXCEPT !.vector = TRUE] \in Entry
    BY DEF Entry
  <2>3. index' \in SUBSET Entry
    BY <2>1, <2>2, CollectedAreEntries
  <2>4. QED
    BY <1>2, <2>3 DEF Rebuild
<1>3. CASE NoDirectory \/ BootTruncate \/ BootWrite
  BY <1>3 DEF NoDirectory, BootTruncate, BootWrite, Document
<1>4. ASSUME NEW w \in Sockets, Spawn(w) PROVE IndexTypes'
  <2>1. CASE LastMessage(w) = {}
    BY <1>4, <2>1 DEF Spawn
  <2>2. CASE LastMessage(w) # {}
    <3>0. wpc[w] = "chain"
      BY <1>4 DEF Spawn
    <3>1. LastMessage(w) \in SUBSET Entry
      BY <3>0, LastMessageMeans
    <3>2. [step |-> "embed", data |-> LastMessage(w)] \in Work
      BY <3>1 DEF Work, Steps
    <3>3. QED
      BY <1>4, <2>2, <3>2 DEF Spawn
  <2>3. QED
    BY <2>1, <2>2
<1>5. ASSUME NEW w \in Sockets, Handler(w) PROVE IndexTypes'
  BY <1>5 DEF Handler
<1>6. ASSUME NEW n \in Jobs, Job(n) PROVE IndexTypes'
  <2>1. job[n].step \in Steps /\ job[n].data \in SUBSET Entry
    BY DEF Work
  <2>2. CASE EmbedFails(n)
    BY <1>0, <2>2 DEF EmbedFails
  <2>3. CASE IndexMessage(n)
    <3>1. index' \in SUBSET Entry
      BY <2>1, <2>3 DEF IndexMessage, Updated
    <3>2. [step |-> "lock", data |-> {}] \in Work
      BY DEF Work, Steps
    <3>3. QED
      BY <2>3, <3>1, <3>2 DEF IndexMessage
  <2>4. CASE SaveIndex(n)
    <3>1. [step |-> "truncate", data |-> index] \in Work
      BY DEF Work, Steps
    <3>2. QED
      BY <2>4, <3>1 DEF SaveIndex
  <2>5. CASE TruncateCache(n)
    <3>1. [job[n] EXCEPT !.step = "write"] \in Work
      BY DEF Work, Steps
    <3>2. QED
      BY <1>0, <2>5, <3>1 DEF TruncateCache
  <2>6. CASE WriteCache(n)
    BY <1>0, <2>1, <2>6 DEF WriteCache, Document
  <2>7. QED
    BY <1>6, <2>2, <2>3, <2>4, <2>5, <2>6 DEF Job
<1>7. CASE IndexCrash
  BY <1>0, <1>7 DEF IndexCrash
<1>8. CASE UNCHANGED indexVars
  BY <1>8 DEF indexVars
<1>9. QED
  BY <1>1, <1>2, <1>3, <1>4, <1>5, <1>6, <1>7, <1>8
     DEF IndexNext, Boot, Serving, allVars

-----------------------------------------------------------------------------
(* What the goroutines hold.                                                *)

Shape(n) ==
  /\ job[n].step = "embed" => \E e \in Entry : job[n].data = {e} /\ e.vector
  /\ Saving(n) => job[n].data = index

JobsHold ==
  /\ \A n \in Jobs : Shape(n)
  /\ boot # "up" => \A n \in Jobs : job[n] = Idle

\* A step of a goroutine changes its own part of job only.
LEMMA OtherJobs ==
  ASSUME IndexTypes, NEW n \in Jobs, Job(n), NEW i \in Jobs, i # n
  PROVE  job'[i] = job[i]
BY DEF IndexTypes, Job, EmbedFails, IndexMessage, SaveIndex, TruncateCache, WriteCache

\* What the goroutine of handleChat starts with.
LEMMA SpawnMeans ==
  ASSUME WebTypes, IndexTypes, NEW w \in Sockets, Spawn(w)
  PROVE  /\ UNCHANGED <<webVars, index, cache, boot>>
         /\ wpc[w] = "chain" /\ cloned' = [cloned EXCEPT ![w] = TRUE]
         /\ \/ ~EndsInQuestion(w) /\ LastMessage(w) = {} /\ UNCHANGED job
            \/ \E n \in Jobs :
                 /\ EndsInQuestion(w) /\ LastMessage(w) = {LastEntry(w)}
                 /\ job[n] = Idle
                 /\ \A i \in Jobs \ {n} : job'[i] = job[i]
                 /\ job'[n] = [step |-> "embed", data |-> {LastEntry(w)}]
<1>1. wpc[w] = "chain"
  BY DEF Spawn
<1>2. CASE EndsInQuestion(w)
  <2>1. LastMessage(w) = {LastEntry(w)}
    BY <1>1, <1>2, LastMessageMeans
  <2>2. PICK n \in Jobs :
          /\ job[n] = Idle
          /\ job' = [job EXCEPT ![n] = [step |-> "embed", data |-> LastMessage(w)]]
    BY <2>1 DEF Spawn
  <2>3. /\ \A i \in Jobs \ {n} : job'[i] = job[i]
        /\ job'[n] = [step |-> "embed", data |-> {LastEntry(w)}]
    BY <2>1, <2>2 DEF IndexTypes
  <2>4. QED
    BY <1>1, <1>2, <2>1, <2>2, <2>3 DEF Spawn
<1>3. CASE ~EndsInQuestion(w)
  <2>1. LastMessage(w) = {}
    BY <1>1, <1>3, LastMessageMeans
  <2>2. QED
    BY <1>1, <1>3, <2>1 DEF Spawn
<1>4. QED
  BY <1>2, <1>3

LEMMA JobsHoldInitially == IndexInit => JobsHold
BY DEF IndexInit, JobsHold, Shape, Saving, Idle

LEMMA JobsHoldSteps ==
  WebTypes /\ IndexTypes /\ JobsHold /\ [IndexNext]_allVars => JobsHold'
<1> SUFFICES ASSUME WebTypes, IndexTypes, JobsHold, [IndexNext]_allVars PROVE JobsHold'
  OBVIOUS
<1>1. CASE Boot
  <2>1. \A n \in Jobs : job'[n] = Idle
    BY <1>1 DEF Boot, LoadCache, Rebuild, NoDirectory, BootTruncate, BootWrite, JobsHold
  <2>2. QED
    BY <2>1 DEF JobsHold, Shape, Saving, Idle
<1>2. ASSUME NEW w \in Sockets, boot = "up", Spawn(w) PROVE JobsHold'
  <2>1. UNCHANGED <<index, boot>> /\ wpc[w] = "chain"
    BY <1>2, SpawnMeans
  <2>2. ASSUME EndsInQuestion(w) PROVE LastEntry(w) \in Entry /\ LastEntry(w).vector
    BY <2>1, <2>2, LastMessageMeans
  <2>3. ASSUME NEW n \in Jobs PROVE Shape(n)'
    <3>1. \/ job'[n] = job[n]
          \/ EndsInQuestion(w) /\ job'[n] = [step |-> "embed", data |-> {LastEntry(w)}]
      BY <1>2, SpawnMeans
    <3>2. CASE job'[n] = job[n]
      BY <2>1, <3>2 DEF JobsHold, Shape, Saving
    <3>3. CASE EndsInQuestion(w) /\ job'[n] = [step |-> "embed", data |-> {LastEntry(w)}]
      <4>1. job'[n].step = "embed" /\ job'[n].data = {LastEntry(w)}
        BY <3>3
      <4>2. QED
        BY <2>2, <3>3, <4>1 DEF Shape, Saving
    <3>4. QED
      BY <3>1, <3>2, <3>3
  <2>4. QED
    BY <1>2, <2>1, <2>3 DEF JobsHold
<1>3. ASSUME NEW n \in Jobs, boot = "up", Job(n) PROVE JobsHold'
  <2>1. boot' = "up"
    BY <1>3 DEF Job, EmbedFails, IndexMessage, SaveIndex, TruncateCache, WriteCache
  <2>2. CASE IndexMessage(n)
    <3>1. ASSUME NEW i \in Jobs PROVE Shape(i)'
      <4>1. ~Saving(i) /\ Shape(i)
        BY <2>2 DEF IndexMessage, ReadLocked, JobsHold
      <4>2. CASE i = n
        <5>1. job'[i] = [step |-> "lock", data |-> {}]
          BY <2>2, <4>2 DEF IndexMessage, IndexTypes
        <5>2. QED
          BY <5>1 DEF Shape, Saving
      <4>3. CASE i # n
        BY <1>3, <4>1, <4>3, OtherJobs DEF Shape, Saving
      <4>4. QED
        BY <4>2, <4>3
    <3>2. QED
      BY <2>1, <3>1 DEF JobsHold
  <2>3. CASE EmbedFails(n) \/ SaveIndex(n) \/ TruncateCache(n) \/ WriteCache(n)
    <3>1. UNCHANGED index
      BY <2>3 DEF EmbedFails, SaveIndex, TruncateCache, WriteCache
    <3>2. \/ job'[n] = Idle
          \/ job'[n] = [step |-> "truncate", data |-> index]
          \/ Saving(n) /\ job'[n] = [job[n] EXCEPT !.step = "write"]
      BY <2>3 DEF EmbedFails, SaveIndex, TruncateCache, WriteCache, IndexTypes, Saving
    <3>3. Shape(n)'
      <4>1. CASE job'[n] = Idle
        BY <4>1 DEF Shape, Saving, Idle
      <4>2. CASE job'[n] = [step |-> "truncate", data |-> index]
        BY <3>1, <4>2 DEF Shape, Saving
      <4>3. CASE Saving(n) /\ job'[n] = [job[n] EXCEPT !.step = "write"]
        <5>1. job'[n].step = "write" /\ job'[n].data = job[n].data
          BY <4>3 DEF IndexTypes, Work
        <5>2. job[n].data = index
          BY <4>3 DEF JobsHold, Shape
        <5>3. QED
          BY <3>1, <5>1, <5>2 DEF Shape, Saving
      <4>4. QED
        BY <3>2, <4>1, <4>2, <4>3
    <3>4. ASSUME NEW i \in Jobs, i # n PROVE Shape(i)'
      BY <1>3, <3>1, <3>4, OtherJobs DEF JobsHold, Shape, Saving
    <3>5. QED
      BY <2>1, <3>3, <3>4 DEF JobsHold
  <2>4. QED
    BY <1>3, <2>2, <2>3 DEF Job
<1>4. CASE IndexCrash
  <2>1. \A n \in Jobs : job'[n] = Idle
    BY <1>4 DEF IndexCrash
  <2>2. QED
    BY <2>1 DEF JobsHold, Shape, Saving, Idle
<1>5. CASE UNCHANGED <<index, job, boot>>
  BY <1>5 DEF JobsHold, Shape, Saving
<1>6. QED
  BY <1>1, <1>2, <1>3, <1>4, <1>5 DEF IndexNext, Serving, Handler, allVars, indexVars

-----------------------------------------------------------------------------
(* A place is in the index once.                                            *)

OnePlace(entries) == \A e, f \in entries : e.place = f.place => e = f

PlacesOnce ==
  /\ OnePlace(index)
  /\ cache \notin {None, Torn} => OnePlace(cache.entries)

\* The questions of a history each have a place of their own.
LEMMA CollectedOnce == OnePlace(Collected)
<1> SUFFICES ASSUME NEW e \in Collected, NEW f \in Collected, e.place = f.place
             PROVE  e = f
  BY DEF OnePlace
<1>1. ASSUME NEW g \in Collected
      PROVE  \E k, i :
               g = [place |-> <<k, i>>, text |-> disk[k].messages[i].text, vector |-> FALSE]
  BY DEF Collected, QuestionsOf
<1>2. PICK k, i :
        e = [place |-> <<k, i>>, text |-> disk[k].messages[i].text, vector |-> FALSE]
  BY <1>1
<1>3. PICK l, j :
        f = [place |-> <<l, j>>, text |-> disk[l].messages[j].text, vector |-> FALSE]
  BY <1>1
<1>4. k = l /\ i = j
  BY <1>2, <1>3
<1>5. QED
  BY <1>2, <1>3, <1>4

\* buildEmbeddings gives each of them at most a vector.
LEMMA RebuiltOnce ==
  ASSUME NEW S \in SUBSET Entry, OnePlace(S), NEW failed \in SUBSET S
  PROVE  OnePlace(failed \cup { [e EXCEPT !.vector = TRUE] : e \in S \ failed })
<1> DEFINE With(e) == [e EXCEPT !.vector = TRUE]
           Built == failed \cup { With(e) : e \in S \ failed }
<1>1. ASSUME NEW e \in S PROVE With(e).place = e.place
  BY DEF Entry
<1> HIDE DEF With
<1>2. ASSUME NEW g \in Built
      PROVE  \E e \in S : g.place = e.place /\ g = IF e \in failed THEN e ELSE With(e)
  BY <1>1
<1>3. ASSUME NEW g \in Built, NEW h \in Built, g.place = h.place PROVE g = h
  BY <1>2, <1>3 DEF OnePlace
<1>4. QED
  BY <1>3 DEF OnePlace, With

LEMMA PlacesOnceInitially == IndexInit => PlacesOnce
BY DEF IndexInit, PlacesOnce, OnePlace

LEMMA PlacesOnceSteps ==
  WebTypes /\ IndexTypes /\ JobsHold /\ PlacesOnce /\ [IndexNext]_allVars => PlacesOnce'
<1> SUFFICES ASSUME WebTypes, IndexTypes, JobsHold, PlacesOnce, [IndexNext]_allVars
             PROVE  PlacesOnce'
  OBVIOUS
<1>1. ASSUME NEW entries, OnePlace(entries), cache' = Document(entries) \/ cache' \in {cache, Torn},
             OnePlace(index)'
      PROVE  PlacesOnce'
  BY <1>1 DEF PlacesOnce, Document
<1>2. ASSUME OnePlace(index)', cache' \in {cache, Torn, None} PROVE PlacesOnce'
  BY <1>2 DEF PlacesOnce
<1>3. CASE LoadCache
  BY <1>2, <1>3 DEF LoadCache, CacheServes, PlacesOnce
<1>4. CASE Rebuild
  <2>1. PICK failed \in SUBSET Collected :
          index' = failed \cup { [e EXCEPT !.vector = TRUE] : e \in Collected \ failed }
    BY <1>4 DEF Rebuild
  <2>2. OnePlace(index)'
    BY <2>1, CollectedAreEntries, CollectedOnce, RebuiltOnce DEF OnePlace
  <2>3. QED
    BY <1>2, <1>4, <2>2 DEF Rebuild
<1>5. CASE NoDirectory \/ BootTruncate \/ BootWrite
  BY <1>1, <1>5 DEF NoDirectory, BootTruncate, BootWrite, PlacesOnce
<1>6. ASSUME NEW n \in Jobs, Job(n) PROVE PlacesOnce'
  <2>1. CASE IndexMessage(n)
    <3>1. PICK new \in Entry : job[n].data = {new}
      BY <2>1 DEF IndexMessage, JobsHold, Shape
    <3>2. index' = { e \in index : e.place # new.place } \cup {new}
      BY <2>1, <3>1 DEF IndexMessage, Updated
    <3>3. OnePlace(index)'
      BY <3>2 DEF PlacesOnce, OnePlace
    <3>4. QED
      BY <1>2, <2>1, <3>3 DEF IndexMessage
  <2>2. CASE WriteCache(n)
    <3>1. job[n].data = index
      BY <2>2 DEF WriteCache, JobsHold, Shape, Saving
    <3>2. QED
      BY <1>1, <2>2, <3>1 DEF WriteCache, PlacesOnce
  <2>3. CASE EmbedFails(n) \/ SaveIndex(n) \/ TruncateCache(n)
    BY <1>2, <2>3 DEF EmbedFails, SaveIndex, TruncateCache, PlacesOnce
  <2>4. QED
    BY <1>6, <2>1, <2>2, <2>3 DEF Job
<1>7. CASE IndexCrash
  BY <1>2, <1>7 DEF IndexCrash, OnePlace
<1>8. CASE UNCHANGED <<index, cache>>
  BY <1>8 DEF PlacesOnce
<1>9. QED
  BY <1>3, <1>4, <1>5, <1>6, <1>7, <1>8
     DEF IndexNext, Boot, Serving, Spawn, Handler, allVars, indexVars

-----------------------------------------------------------------------------
(* The file of the index.                                                   *)

\* Only the end of the program begins another run of it.
LEMMA RunStays == [IndexNext]_allVars => IndexCrash \/ UNCHANGED crashes
<1>1. Boot => UNCHANGED crashes
  BY DEF Boot, LoadCache, Rebuild, NoDirectory, BootTruncate, BootWrite, webVars
<1>2. \A w \in Sockets : Spawn(w) => UNCHANGED crashes
  BY DEF Spawn, webVars
<1>3. \A w \in Sockets : Handler(w) => UNCHANGED crashes
  BY DEF Handler, Socket, Read, Disconnect, OpenNew, OpenKnown, Chat, Ask, EndRefusing, PostRefusing,
         Rotate, AskAgain, Chain, Record, Save, Truncate, Write, Reply
<1>4. \A n \in Jobs : Job(n) => UNCHANGED crashes
  BY DEF Job, EmbedFails, IndexMessage, SaveIndex, TruncateCache, WriteCache, webVars
<1>5. QED
  BY <1>1, <1>2, <1>3, <1>4 DEF IndexNext, Serving, allVars, webVars

LEMMA CacheSteps ==
  WebTypes /\ IndexTypes /\ JobsHold /\ CacheIsIndex /\ [IndexNext]_allVars => CacheIsIndex'
<1> SUFFICES ASSUME WebTypes, IndexTypes, JobsHold, CacheIsIndex, [IndexNext]_allVars,
                    SoundStore', Settled'
             PROVE  cache' = Document(index')
  BY DEF CacheIsIndex
<1>0. SoundStore
  BY RunStays DEF IndexCrash, Settled, SoundStore
<1>1. CASE Boot
  <2>1. CASE LoadCache
    BY <2>1 DEF LoadCache, CacheServes, IndexTypes, Document
  <2>2. CASE BootWrite
    BY <1>0, <2>2 DEF BootWrite
  <2>3. QED
    BY <1>0, <1>1, <2>1, <2>2 DEF Boot, Rebuild, NoDirectory, BootTruncate, Settled
<1>2. ASSUME NEW w \in Sockets, boot = "up", Spawn(w) PROVE cache' = Document(index')
  <2>1. ASSUME NEW n \in Jobs PROVE job[n].step \in {"idle", "embed"}
    <3>1. job'[n] = job[n] \/ job[n] = Idle
      BY <1>2, SpawnMeans
    <3>2. QED
      BY <3>1 DEF Settled, Idle
  <2>2. QED
    BY <1>0, <1>2, <2>1 DEF Spawn, CacheIsIndex, Settled
<1>3. ASSUME NEW n \in Jobs, boot = "up", Job(n) PROVE cache' = Document(index')
  <2>0. ASSUME job[n].step = "embed" PROVE cache = Document(index)
    BY <1>0, <1>3, <2>0, OtherJobs DEF Settled, CacheIsIndex
  <2>1. CASE EmbedFails(n)
    BY <2>0, <2>1 DEF EmbedFails
  <2>2. CASE IndexMessage(n)
    BY <2>2 DEF IndexMessage, Settled, IndexTypes
  <2>3. CASE SaveIndex(n)
    BY <2>3 DEF SaveIndex, Settled, IndexTypes
  <2>4. CASE TruncateCache(n)
    <3>1. job'[n].step = "write"
      BY <1>0, <2>4 DEF TruncateCache, IndexTypes, Work
    <3>2. QED
      BY <3>1 DEF Settled
  <2>5. CASE WriteCache(n)
    BY <1>0, <2>5 DEF WriteCache, JobsHold, Shape, Saving
  <2>6. QED
    BY <1>3, <2>1, <2>2, <2>3, <2>4, <2>5 DEF Job
<1>4. CASE IndexCrash
  BY <1>4 DEF IndexCrash, Settled
<1>5. CASE UNCHANGED <<index, cache, job, boot>>
  BY <1>0, <1>5 DEF CacheIsIndex, Settled
<1>6. QED
  BY <1>1, <1>2, <1>3, <1>4, <1>5 DEF IndexNext, Serving, Handler, allVars, indexVars

-----------------------------------------------------------------------------
(* What is found was asked.                                                 *)

Traceable ==
  /\ HitsWereAsked
  /\ cache \notin {None, Torn} => \A e \in cache.entries : WasAsked(e)
  /\ \A n \in Jobs : job[n].step = "embed" => \A e \in job[n].data : WasAsked(e)

\* A history keeps its messages at their places.
LEMMA PlaceStays ==
  ASSUME NEW s \in Seq(Message), NEW t \in Seq(Message), IsPrefix(s, t), NEW i \in DOMAIN s
  PROVE  i \in DOMAIN t /\ t[i] = s[i] /\ i \in Nat \ {0}
BY PrefixMeans

LEMMA WasAskedStays ==
  ASSUME WebTypes, WebTypes', UnusedIsEmpty, Effect, NEW e, WasAsked(e)
  PROVE  WasAsked(e)'
<1>1. PICK s \in Sessions :
        /\ KeyOf[s] = e.place[1]
        /\ e.place[2] \in DOMAIN messages[s]
        /\ messages[s][e.place[2]] = Question(e.text)
  BY DEF WasAsked
<1>2. messages[s] \in Seq(Message) /\ messages'[s] \in Seq(Message)
  BY DEF WebTypes, TypeOK
<1>3. IsPrefix(messages[s], messages'[s])
  BY Growing
<1>4. e.place[2] \in DOMAIN messages'[s] /\ messages'[s][e.place[2]] = messages[s][e.place[2]]
  BY <1>1, <1>2, <1>3, PlaceStays
<1>5. QED
  BY <1>1, <1>4 DEF WasAsked

\* What buildEmbeddings finds in the files.
LEMMA CollectedWereAsked ==
  ASSUME WebTypes, FilesAreClones, NEW e \in Collected
  PROVE  WasAsked(e)
<1>1. PICK k \in Keys : Readable(k) /\ e \in QuestionsOf(k, disk[k].messages)
  BY DEF Collected
<1>2. PICK i \in DOMAIN disk[k].messages :
        /\ disk[k].messages[i].role = "user"
        /\ e = [place |-> <<k, i>>, text |-> disk[k].messages[i].text, vector |-> FALSE]
  BY <1>1 DEF QuestionsOf
<1>3. PICK s \in Sessions : KeyOf[s] = k /\ IsPrefix(disk[k].messages, messages[s])
  BY <1>1 DEF FilesAreClones
<1>4. disk[k].messages \in Seq(Message) /\ messages[s] \in Seq(Message)
  BY <1>1 DEF WebTypes, TypeOK, FileTypes, Readable, History
<1>5. i \in DOMAIN messages[s] /\ messages[s][i] = disk[k].messages[i]
  BY <1>3, <1>4, PlaceStays
<1>6. disk[k].messages[i] = Question(e.text)
  <2>1. disk[k].messages[i] \in Message
    BY <1>4
  <2>2. e.text = disk[k].messages[i].text
    BY <1>2
  <2>3. QED
    BY <1>2, <2>1, <2>2 DEF Message, Question
<1>7. e.place[1] = k /\ e.place[2] = i
  BY <1>2
<1>8. QED
  BY <1>3, <1>5, <1>6, <1>7 DEF WasAsked

LEMMA VectorAside ==
  ASSUME NEW e \in Entry, WasAsked(e)
  PROVE  WasAsked([e EXCEPT !.vector = TRUE])
<1>1. [e EXCEPT !.vector = TRUE].place = e.place /\ [e EXCEPT !.vector = TRUE].text = e.text
  BY DEF Entry
<1>2. QED
  BY <1>1 DEF WasAsked

\* The clone's last message stands where its position says.
LEMMA LastWasAsked ==
  ASSUME WebTypes, NEW w \in Sockets, wpc[w] = "chain", EndsInQuestion(w)
  PROVE  WasAsked(LastEntry(w))
<1>1. /\ session[w] \in Sessions
      /\ Len(Clone(w)) \in DOMAIN Clone(w)
      /\ Clone(w)[Len(Clone(w))] = Question(LastEntry(w).text)
      /\ LastEntry(w).place = <<KeyOf[session[w]], Len(Clone(w))>>
  BY LastMessageMeans
<1>2. LastEntry(w).place[1] = KeyOf[session[w]] /\ LastEntry(w).place[2] = Len(Clone(w))
  BY <1>1
<1>3. QED
  BY <1>1, <1>2 DEF WasAsked, Clone

LEMMA TraceableInitially == IndexInit => Traceable
BY DEF IndexInit, Traceable, HitsWereAsked, Idle

LEMMA TraceableSteps ==
  WebInv /\ WebTypes' /\ IndexTypes /\ JobsHold /\ Traceable /\ [IndexNext]_allVars => Traceable'
<1> SUFFICES ASSUME WebInv, WebTypes', IndexTypes, JobsHold, Traceable, [IndexNext]_allVars
             PROVE  Traceable'
  OBVIOUS
<1>0. ASSUME NEW e, WasAsked(e) PROVE WasAsked(e)'
  BY <1>0, IndexStep, EffectSteps, WasAskedStays DEF WebInv, Instants
<1>1. WebTypes /\ FilesAreClones
  BY DEF WebInv, Instants
\* What a step may leave in the index, in its file and with a goroutine.
<1>2. ASSUME \A e \in index' : WasAsked(e),
             cache' \in {None, Torn, cache} \/ cache' = Document(index),
             \A n \in Jobs : \/ job'[n].step = "embed" => job'[n] = job[n]
                             \/ \A e \in job'[n].data : WasAsked(e)
      PROVE  Traceable'
  <2>1. cache' \notin {None, Torn} => \A e \in cache'.entries : WasAsked(e)
    BY <1>2 DEF Traceable, HitsWereAsked, Document
  <2>2. \A n \in Jobs : job'[n].step = "embed" => \A e \in job'[n].data : WasAsked(e)
    BY <1>2 DEF Traceable
  <2>3. QED
    BY <1>0, <1>2, <2>1, <2>2 DEF Traceable, HitsWereAsked
<1>3. CASE LoadCache
  <2>1. \A e \in index' : WasAsked(e)
    BY <1>3 DEF LoadCache, CacheServes, Traceable
  <2>2. QED
    BY <1>2, <1>3, <2>1 DEF LoadCache
<1>4. CASE Rebuild
  <2>1. PICK failed \in SUBSET Collected :
          index' = failed \cup { [e EXCEPT !.vector = TRUE] : e \in Collected \ failed }
    BY <1>4 DEF Rebuild
  <2>2. \A e \in Collected : WasAsked(e) /\ WasAsked([e EXCEPT !.vector = TRUE])
    BY <1>1, CollectedAreEntries, CollectedWereAsked, VectorAside
  <2>3. \A e \in index' : WasAsked(e)
    BY <2>1, <2>2
  <2>4. QED
    BY <1>2, <1>4, <2>3 DEF Rebuild
<1>5. CASE NoDirectory \/ BootTruncate \/ BootWrite
  BY <1>2, <1>5 DEF NoDirectory, BootTruncate, BootWrite, Traceable, HitsWereAsked
<1>6. ASSUME NEW w \in Sockets, Spawn(w) PROVE Traceable'
  <2>1. wpc[w] = "chain" /\ UNCHANGED <<index, cache>>
    BY <1>1, <1>6, SpawnMeans
  <2>2. ASSUME NEW n \in Jobs PROVE job'[n] = job[n] \/ \A e \in job'[n].data : WasAsked(e)
    <3>1. \/ job'[n] = job[n]
          \/ EndsInQuestion(w) /\ job'[n] = [step |-> "embed", data |-> {LastEntry(w)}]
      BY <1>1, <1>6, SpawnMeans
    <3>2. CASE EndsInQuestion(w) /\ job'[n] = [step |-> "embed", data |-> {LastEntry(w)}]
      <4>1. job'[n].data = {LastEntry(w)}
        BY <3>2
      <4>2. QED
        BY <1>1, <2>1, <3>2, <4>1, LastWasAsked
    <3>3. QED
      BY <3>1, <3>2
  <2>3. QED
    BY <1>2, <2>1, <2>2 DEF Traceable, HitsWereAsked
<1>7. ASSUME NEW n \in Jobs, Job(n) PROVE Traceable'
  <2>1. \A i \in Jobs : job'[i].step = "embed" => job'[i] = job[i]
    <3>1. job'[n].step # "embed"
      BY <1>7 DEF Job, EmbedFails, IndexMessage, SaveIndex, TruncateCache, WriteCache, IndexTypes,
                  Work, Idle
    <3>2. QED
      BY <1>7, <3>1, OtherJobs
  <2>2. CASE IndexMessage(n)
    <3>1. index' \subseteq index \cup job[n].data /\ job[n].step = "embed" /\ UNCHANGED cache
      BY <2>2 DEF IndexMessage, Updated
    <3>2. \A e \in index' : WasAsked(e)
      BY <3>1 DEF Traceable, HitsWereAsked
    <3>3. QED
      BY <1>2, <2>1, <3>1, <3>2
  <2>3. CASE WriteCache(n)
    <3>1. job[n].data = index
      BY <2>3 DEF WriteCache, JobsHold, Shape, Saving
    <3>2. QED
      BY <1>2, <2>1, <2>3, <3>1 DEF WriteCache, Traceable, HitsWereAsked
  <2>4. CASE EmbedFails(n) \/ SaveIndex(n) \/ TruncateCache(n)
    BY <1>2, <2>1, <2>4 DEF EmbedFails, SaveIndex, TruncateCache, Traceable, HitsWereAsked
  <2>5. QED
    BY <1>7, <2>2, <2>3, <2>4 DEF Job
<1>8. CASE IndexCrash
  BY <1>2, <1>8 DEF IndexCrash, Idle
<1>9. CASE UNCHANGED <<index, cache, job>>
  BY <1>2, <1>9 DEF Traceable, HitsWereAsked
<1>10. QED
  BY <1>3, <1>4, <1>5, <1>6, <1>7, <1>8, <1>9
     DEF IndexNext, Boot, Serving, Handler, allVars, indexVars

-----------------------------------------------------------------------------
(* Every question is indexed: first, its place is.                          *)

ComingFrom(w, place) ==
  /\ wpc[w] = "chain" /\ ~cloned[w]
  /\ \E e \in LastMessage(w) : e.place = place

Embedding(n, place) == job[n].step = "embed" /\ \E e \in job[n].data : e.place = place

Found(place) == \E e \in index : e.place = place /\ e.vector

\* Somebody has, or brings, an entry of the place.
PlaceCovered(place) ==
  \/ \E w \in Sockets : ComingFrom(w, place)
  \/ \E n \in Jobs : Embedding(n, place)
  \/ Found(place)

PlacesCovered(s) == \A e \in QuestionsOf(KeyOf[s], messages[s]) : PlaceCovered(e.place)

AllIndexed ==
  FirstRun =>
    /\ boot # "up" => \A s \in Sessions : messages[s] = <<>>
    /\ \A s \in Sessions : KeyOf[s] \in OneTab => PlacesCovered(s)

\* A handler that does not move still has its question to hand over.
LEMMA ComingStays ==
  ASSUME NEW w \in Sockets, NEW place, ComingFrom(w, place),
         wpc'[w] = wpc[w], cloned'[w] = cloned[w], session'[w] = session[w],
         messages'[session[w]] = messages[session[w]]
  PROVE  ComingFrom(w, place)'
<1>1. LastMessage(w)' = LastMessage(w)
  BY DEF LastMessage, EndsInQuestion, LastEntry, Clone, Last
<1>2. QED
  BY <1>1 DEF ComingFrom

\* The handler's goroutine takes the place over from it.
LEMMA SpawnCovers ==
  ASSUME WebTypes, IndexTypes, NEW w \in Sockets, Spawn(w), NEW place, PlaceCovered(place)
  PROVE  PlaceCovered(place)'
<1>1. /\ UNCHANGED <<webVars, index>> /\ cloned' = [cloned EXCEPT ![w] = TRUE]
  BY SpawnMeans
<1>2. UNCHANGED <<wpc, session, messages>>
  BY <1>1 DEF webVars, socketVars, vars, sessionVars
<1>3. ASSUME NEW n \in Jobs, Embedding(n, place) PROVE Embedding(n, place)'
  <2>1. job[n] # Idle
    BY <1>3 DEF Embedding, Idle
  <2>2. job'[n] = job[n]
    BY <2>1, SpawnMeans
  <2>3. QED
    BY <1>3, <2>2 DEF Embedding
<1>4. ASSUME NEW v \in Sockets, ComingFrom(v, place), v # w PROVE ComingFrom(v, place)'
  BY <1>1, <1>2, <1>4, ComingStays DEF IndexTypes
<1>5. ASSUME ComingFrom(w, place) PROVE \E n \in Jobs : Embedding(n, place)'
  <2>1. EndsInQuestion(w) /\ LastMessage(w) = {LastEntry(w)}
    BY <1>5, SpawnMeans DEF ComingFrom
  <2>2. PICK n \in Jobs : job'[n] = [step |-> "embed", data |-> {LastEntry(w)}]
    BY <2>1, SpawnMeans
  <2>3. job'[n].step = "embed" /\ job'[n].data = {LastEntry(w)} /\ LastEntry(w).place = place
    BY <1>5, <2>1, <2>2 DEF ComingFrom
  <2>4. QED
    BY <2>3 DEF Embedding
<1>6. Found(place) => Found(place)'
  BY <1>1 DEF Found
<1>7. QED
  BY <1>3, <1>4, <1>5, <1>6 DEF PlaceCovered

\* IndexMessage takes it over from the goroutine, and replaces no other place.
LEMMA JobCovers ==
  ASSUME IndexTypes, JobsHold, EmbedderUp, NEW n \in Jobs, Job(n), NEW place, PlaceCovered(place)
  PROVE  PlaceCovered(place)'
<1>1. UNCHANGED <<webVars, cloned>>
  BY DEF Job, EmbedFails, IndexMessage, SaveIndex, TruncateCache, WriteCache
<1>2. UNCHANGED <<wpc, session, messages>>
  BY <1>1 DEF webVars, socketVars, vars, sessionVars
<1>3. ASSUME NEW v \in Sockets, ComingFrom(v, place) PROVE ComingFrom(v, place)'
  BY <1>1, <1>2, <1>3, ComingStays
<1>4. ASSUME NEW i \in Jobs, i # n, Embedding(i, place) PROVE Embedding(i, place)'
  BY <1>4, OtherJobs DEF Embedding
<1>5. CASE IndexMessage(n)
  <2>1. PICK new \in Entry : job[n].data = {new} /\ new.vector
    BY <1>5 DEF IndexMessage, JobsHold, Shape
  <2>2. index' = { e \in index : e.place # new.place } \cup {new}
    BY <1>5, <2>1 DEF IndexMessage, Updated
  <2>3. Found(place) \/ Embedding(n, place) => Found(place)'
    BY <2>1, <2>2 DEF Found, Embedding
  <2>4. QED
    BY <1>3, <1>4, <2>3 DEF PlaceCovered
<1>6. CASE SaveIndex(n) \/ TruncateCache(n) \/ WriteCache(n)
  <2>1. job[n].step # "embed" /\ UNCHANGED index
    BY <1>6 DEF SaveIndex, TruncateCache, WriteCache
  <2>2. ~Embedding(n, place) /\ (Found(place) => Found(place)')
    BY <2>1 DEF Embedding, Found
  <2>3. QED
    BY <1>3, <1>4, <2>2 DEF PlaceCovered
<1>7. QED
  BY <1>5, <1>6 DEF Job, EmbedFails

\* Nobody else adds to the conversation of a handler that is about to clone it.
LEMMA HandlerCovers ==
  ASSUME WebInv, IndexTypes, NEW w \in Sockets, Handler(w), NEW place, place[1] \in OneTab,
         PlaceCovered(place)
  PROVE  PlaceCovered(place)'
<1>1. /\ Socket(w) /\ UNCHANGED <<index, job>> /\ cloned' = [cloned EXCEPT ![w] = FALSE]
      /\ wpc[w] = "chain" => cloned[w]
  BY DEF Handler
<1>2. ASSUME NEW v \in Sockets, ComingFrom(v, place) PROVE ComingFrom(v, place)'
  <2>0. WebTypes /\ SocketTypes /\ OneSocket
    BY DEF WebInv, WebTypes
  <2>1. v # w /\ wpc[v] = "chain"
    BY <1>1, <1>2 DEF ComingFrom
  <2>2. Working(v) /\ KeyOf[session[v]] = conv[v]
    BY <2>0, <2>1 DEF Working, OneSocket, OwnSession
  <2>3. place[1] = KeyOf[session[v]]
    <3>1. LastEntry(v).place = place /\ LastEntry(v).place = <<KeyOf[session[v]], Len(Clone(v))>>
      BY <1>2, <2>0, <2>1, LastMessageMeans DEF ComingFrom
    <3>2. QED
      BY <3>1
  <2>4. messages'[session[v]] = messages[session[v]]
    BY <1>1, <2>0, <2>1, <2>2, <2>3, NobodyElseAdds
  <2>5. wpc'[v] = wpc[v] /\ session'[v] = session[v] /\ cloned'[v] = cloned[v]
    BY <1>1, <2>0, <2>1, Others DEF IndexTypes
  <2>6. QED
    BY <1>2, <2>4, <2>5, ComingStays
<1>3. /\ \A n \in Jobs : Embedding(n, place) => Embedding(n, place)'
      /\ Found(place) => Found(place)'
  BY <1>1 DEF Embedding, Found
<1>4. QED
  BY <1>2, <1>3 DEF PlaceCovered

\* The questions of a history are among those of a longer one.
LEMMA QuestionsGrow ==
  ASSUME NEW s \in Seq(Message), NEW t \in Seq(Message), IsPrefix(s, t), NEW k
  PROVE  QuestionsOf(k, s) \subseteq QuestionsOf(k, t)
<1>1. \A i \in DOMAIN s : i \in DOMAIN t /\ t[i] = s[i]
  BY PlaceStays
<1>2. QED
  BY <1>1 DEF QuestionsOf

LEMMA PlaceOfQuestion ==
  ASSUME NEW k, NEW seq, NEW e \in QuestionsOf(k, seq)
  PROVE  e.place[1] = k /\ e.place[2] \in DOMAIN seq /\ seq[e.place[2]].role = "user"
BY DEF QuestionsOf

\* A question that was just added is the handler's to hand over: it goes on to
\* the clone.
LEMMA AddedIsComing ==
  ASSUME WebInv, WebTypes', IndexTypes, NEW w \in Sockets, Handler(w),
         NEW m \in Message, Adding(w, m), m.role = "user",
         NEW place, place = <<KeyOf[session[w]], Len(messages[session[w]]) + 1>>
  PROVE  PlaceCovered(place)'
<1>0. WebTypes /\ SocketTypes /\ Socket(w)
  BY DEF WebInv, WebTypes, Handler
<1>1. /\ session[w] \in Sessions /\ messages[session[w]] \in Seq(Message)
      /\ messages' = [messages EXCEPT ![session[w]] = Append(@, m)]
  BY <1>0, AddingTypes
<1>2. messages'[session[w]] = Append(messages[session[w]], m)
  BY <1>0, <1>1 DEF WebTypes, TypeOK
<1>3. wpc[w] \in {"ask", "reask"}
  BY <1>0, AddingMeans DEF WebInv, Adding
<1>4. messages' # messages
  <2>1. Len(messages'[session[w]]) = Len(messages[session[w]]) + 1
    BY <1>1, <1>2
  <2>2. Len(messages[session[w]]) \in Nat
    BY <1>1
  <2>3. QED
    BY <2>1, <2>2
<1>5. Ask(w) \/ AskAgain(w)
  BY <1>0, <1>3
     DEF Socket, Read, Disconnect, OpenNew, OpenKnown, Chat, EndRefusing, PostRefusing, Rotate, Chain,
         Record, Save, Truncate, Write, Reply
<1>6. session'[w] = session[w] /\ wpc'[w] = "chain"
  BY <1>0, <1>4, <1>5 DEF Ask, AskAgain, Goto, SocketTypes, vars, sessionVars
<1>7. ~cloned'[w]
  BY DEF Handler, IndexTypes
<1>8. LastMessage(w)' = {LastEntry(w)'} /\ LastEntry(w)'.place = place
  <2>1. Clone(w)' = Append(messages[session[w]], m)
    BY <1>2, <1>6 DEF Clone
  <2>2. Clone(w)' # <<>> /\ Len(Clone(w)') = Len(messages[session[w]]) + 1
        /\ Clone(w)'[Len(Clone(w)')] = m
    BY <1>1, <2>1
  <2>3. EndsInQuestion(w)'
    BY <2>2 DEF EndsInQuestion, Last
  <2>4. QED
    BY <1>6, <2>2, <2>3 DEF LastMessage, LastEntry
<1>9. ComingFrom(w, place)'
  BY <1>6, <1>7, <1>8 DEF ComingFrom
<1>10. QED
  BY <1>9 DEF PlaceCovered

LEMMA AllIndexedInitially == IndexInit => AllIndexed
<1> SUFFICES ASSUME IndexInit PROVE \A s \in Sessions : messages[s] = <<>> /\ PlacesCovered(s)
  BY DEF AllIndexed
<1>1. \A s \in Sessions : messages[s] = <<>>
  BY DEF IndexInit, WebInit, Init
<1>2. \A k : QuestionsOf(k, <<>>) = {}
  BY DEF QuestionsOf
<1>3. QED
  BY <1>1, <1>2 DEF PlacesCovered

LEMMA AllIndexedSteps ==
  WebInv /\ WebTypes' /\ IndexTypes /\ JobsHold /\ AllIndexed /\ [IndexNext]_allVars => AllIndexed'
<1> SUFFICES ASSUME WebInv, WebTypes', IndexTypes, JobsHold, AllIndexed, [IndexNext]_allVars,
                    FirstRun'
             PROVE  /\ boot' # "up" => \A s \in Sessions : messages'[s] = <<>>
                    /\ \A s \in Sessions : KeyOf[s] \in OneTab => PlacesCovered(s)'
  BY DEF AllIndexed
<1>0. WebTypes /\ Instants /\ OneSocket
  BY DEF WebInv
<1>1. CASE Boot
  <2>1. boot # "up" /\ UNCHANGED <<messages, crashes>>
    BY <1>1 DEF Boot, LoadCache, Rebuild, NoDirectory, BootTruncate, BootWrite, webVars, vars,
                sessionVars
  <2>2. \A s \in Sessions : messages'[s] = <<>>
    BY <2>1 DEF AllIndexed, FirstRun, EmbedderUp
  <2>3. \A k : QuestionsOf(k, <<>>) = {}
    BY DEF QuestionsOf
  <2>4. QED
    BY <2>2, <2>3 DEF PlacesCovered
\* Otherwise the questions that were there are covered, and stay so.
<1>2. ASSUME boot = "up", boot' = "up", FirstRun,
             \A place : place[1] \in OneTab /\ PlaceCovered(place) => PlaceCovered(place)',
             NEW s \in Sessions, KeyOf[s] \in OneTab,
             \E t \in Sessions : KeyOf[t] = KeyOf[s] /\ IsPrefix(messages'[s], messages[t])
      PROVE  PlacesCovered(s)'
  <2>1. PICK t \in Sessions : KeyOf[t] = KeyOf[s] /\ IsPrefix(messages'[s], messages[t])
    BY <1>2
  <2>2. messages[t] \in Seq(Message) /\ messages'[s] \in Seq(Message)
    BY <1>0 DEF WebTypes, TypeOK
  <2>3. ASSUME NEW e \in QuestionsOf(KeyOf[s], messages'[s]) PROVE PlaceCovered(e.place)'
    <3>1. e \in QuestionsOf(KeyOf[t], messages[t])
      BY <2>1, <2>2, QuestionsGrow
    <3>2. PlaceCovered(e.place) /\ e.place[1] \in OneTab
      BY <1>2, <2>1, <3>1, PlaceOfQuestion DEF AllIndexed, PlacesCovered
    <3>3. QED
      BY <1>2, <3>2
  <2>4. QED
    BY <2>3 DEF PlacesCovered
\* A step that leaves the histories alone.
<1>3. ASSUME boot = "up", boot' = "up", UNCHANGED <<messages, crashes>>,
             \A place : PlaceCovered(place) => PlaceCovered(place)',
             NEW s \in Sessions, KeyOf[s] \in OneTab
      PROVE  PlacesCovered(s)'
  BY <1>3 DEF AllIndexed, FirstRun, EmbedderUp, PlacesCovered
<1>4. ASSUME NEW w \in Sockets, boot = "up", Spawn(w)
      PROVE  boot' = "up" /\ \A s \in Sessions : KeyOf[s] \in OneTab => PlacesCovered(s)'
  <2>1. boot' = "up" /\ UNCHANGED <<messages, crashes>>
    BY <1>0, <1>4, SpawnMeans DEF webVars, vars, sessionVars
  <2>2. QED
    BY <1>0, <1>3, <1>4, <2>1, SpawnCovers
<1>5. ASSUME NEW n \in Jobs, boot = "up", Job(n)
      PROVE  boot' = "up" /\ \A s \in Sessions : KeyOf[s] \in OneTab => PlacesCovered(s)'
  <2>1. boot' = "up" /\ UNCHANGED <<messages, crashes>>
    BY <1>5 DEF Job, EmbedFails, IndexMessage, SaveIndex, TruncateCache, WriteCache, webVars, vars,
                sessionVars
  <2>2. QED
    BY <1>3, <1>5, <2>1, JobCovers DEF FirstRun, EmbedderUp
<1>6. ASSUME NEW w \in Sockets, boot = "up", Handler(w)
      PROVE  boot' = "up" /\ \A s \in Sessions : KeyOf[s] \in OneTab => PlacesCovered(s)'
  <2>0. boot' = "up" /\ Socket(w) /\ EffectOf(w)
    BY <1>0, <1>6, SocketEffect DEF Handler, EffectOf
  <2>1. FirstRun
    BY <1>6 DEF FirstRun, EmbedderUp, Handler, Socket, Read, Disconnect, OpenNew, OpenKnown, Chat, Ask,
                EndRefusing, PostRefusing, Rotate, AskAgain, Chain, Record, Save, Truncate, Write, Reply
  <2>2. \A place : place[1] \in OneTab /\ PlaceCovered(place) => PlaceCovered(place)'
    BY <1>6, HandlerCovers
  <2>3. ASSUME NEW s \in Sessions, KeyOf[s] \in OneTab PROVE PlacesCovered(s)'
    <3>1. CASE \E t \in Sessions : KeyOf[t] = KeyOf[s] /\ IsPrefix(messages'[s], messages[t])
      BY <1>2, <1>6, <2>0, <2>1, <2>2, <2>3, <3>1
    <3>2. ASSUME NEW m \in Message, Adding(w, m), session[w] = s,
                 messages'[s] = Append(messages[s], m)
          PROVE  PlacesCovered(s)'
      <4>1. messages[s] \in Seq(Message) /\ Len(messages[s]) \in Nat
            /\ DOMAIN messages[s] = 1 .. Len(messages[s])
            /\ DOMAIN messages'[s] = 1 .. Len(messages[s]) + 1
            /\ messages'[s][Len(messages[s]) + 1] = m
            /\ \A i \in 1 .. Len(messages[s]) : messages'[s][i] = messages[s][i]
        BY <1>0, <3>2 DEF WebTypes, TypeOK
      <4>2. ASSUME NEW e \in QuestionsOf(KeyOf[s], messages'[s]) PROVE PlaceCovered(e.place)'
        <5>1. PICK i \in DOMAIN messages'[s] :
                /\ messages'[s][i].role = "user"
                /\ e = [place |-> <<KeyOf[s], i>>, text |-> messages'[s][i].text, vector |-> FALSE]
          BY <4>2 DEF QuestionsOf
        <5>2. CASE i = Len(messages[s]) + 1
          <6>1. m.role = "user" /\ e.place = <<KeyOf[s], Len(messages[s]) + 1>>
            BY <4>1, <5>1, <5>2
          <6>2. QED
            BY <1>6, <3>2, <6>1, AddedIsComing
        <5>3. CASE i # Len(messages[s]) + 1
          <6>1. i \in DOMAIN messages[s] /\ messages'[s][i] = messages[s][i]
            BY <4>1, <5>3
          <6>2. e \in QuestionsOf(KeyOf[s], messages[s])
            BY <5>1, <6>1 DEF QuestionsOf
          <6>3. PlaceCovered(e.place) /\ e.place[1] \in OneTab
            BY <2>1, <2>3, <6>2, PlaceOfQuestion DEF AllIndexed, PlacesCovered
          <6>4. QED
            BY <2>2, <6>3
        <5>4. QED
          BY <5>2, <5>3
      <4>3. QED
        BY <4>2 DEF PlacesCovered
    <3>3. QED
      BY <1>0, <2>0, <3>1, <3>2, HistorySteps
  <2>4. QED
    BY <2>0, <2>3
<1>7. ASSUME UNCHANGED <<socketVars, indexVars>>, UNCHANGED <<messages, crashes>>
      PROVE  /\ boot' # "up" => \A s \in Sessions : messages'[s] = <<>>
             /\ \A s \in Sessions : KeyOf[s] \in OneTab => PlacesCovered(s)'
  <2>1. \A place : PlaceCovered(place) => PlaceCovered(place)'
    BY <1>7 DEF PlaceCovered, ComingFrom, Embedding, Found, LastMessage, EndsInQuestion, LastEntry,
                Clone, socketVars, indexVars
  <2>2. QED
    BY <1>7, <2>1 DEF AllIndexed, FirstRun, EmbedderUp, PlacesCovered, indexVars
<1>8. CASE Background /\ UNCHANGED <<socketVars, fileVars, crashes, indexVars>>
  <2>1. UNCHANGED messages
    BY <1>0, <1>8, BackgroundRecedes DEF Receding, WebTypes
  <2>2. QED
    BY <1>7, <1>8, <2>1
<1>9. CASE IndexCrash
  <2>1. crashes \in Nat /\ crashes' = crashes + 1
    BY <1>0, <1>9 DEF IndexCrash, Crash, WebTypes, FileTypes
  <2>2. QED
    BY <2>1 DEF FirstRun, EmbedderUp
<1>10. CASE UNCHANGED allVars
  BY <1>7, <1>10 DEF allVars, webVars, vars, sessionVars
<1>11. QED
  BY <1>1, <1>4, <1>5, <1>6, <1>8, <1>9, <1>10 DEF IndexNext, Serving

\* Whoever has an entry of a place has one of a question asked there.
LEMMA AskedThere ==
  ASSUME WebTypes, NEW f \in Entry, WasAsked(f)
  PROVE  \E e \in AskedIn(f.place[1]) : SameQuestion(e, f)
<1>1. PICK s \in Sessions :
        /\ KeyOf[s] = f.place[1]
        /\ f.place[2] \in DOMAIN messages[s]
        /\ messages[s][f.place[2]] = Question(f.text)
  BY DEF WasAsked
<1> DEFINE i == f.place[2]
           e == [place |-> <<KeyOf[s], i>>, text |-> messages[s][i].text, vector |-> FALSE]
<1>2. e \in QuestionsOf(KeyOf[s], messages[s])
  <2>1. i \in DOMAIN messages[s] /\ messages[s][i].role = "user"
    BY <1>1 DEF Question
  <2>2. QED
    BY <2>1 DEF QuestionsOf
<1>3. e \in AskedIn(f.place[1])
  BY <1>1, <1>2 DEF AskedIn
<1>4. f.place = <<f.place[1], f.place[2]>>
  BY DEF Entry, Place
<1>5. SameQuestion(e, f)
  BY <1>1, <1>4 DEF SameQuestion, Question
<1>6. QED
  BY <1>3, <1>5

\* So one of the questions of a covered place is covered, with its text.
LEMMA PlaceToQuestion ==
  ASSUME WebTypes, IndexTypes, Traceable, NEW place, PlaceCovered(place)
  PROVE  \E e \in AskedIn(place[1]) : e.place = place /\ Covered(e)
<1>1. CASE \E w \in Sockets : ComingFrom(w, place)
  <2>1. PICK w \in Sockets : ComingFrom(w, place)
    BY <1>1
  <2>2. PICK f \in LastMessage(w) : f.place = place
    BY <2>1 DEF ComingFrom
  <2>3. wpc[w] = "chain" /\ ~cloned[w] /\ EndsInQuestion(w) /\ f = LastEntry(w) /\ f \in Entry
    BY <2>1, <2>2, LastMessageMeans DEF ComingFrom
  <2>4. WasAsked(f)
    BY <2>3, LastWasAsked
  <2>5. PICK e \in AskedIn(place[1]) : SameQuestion(e, f)
    BY <2>2, <2>3, <2>4, AskedThere
  <2>6. Covered(e)
    BY <2>2, <2>3, <2>5 DEF Covered
  <2>7. QED
    BY <2>2, <2>5, <2>6 DEF SameQuestion
<1>2. CASE \E n \in Jobs : Embedding(n, place)
  <2>1. PICK n \in Jobs : Embedding(n, place)
    BY <1>2
  <2>2. PICK f \in job[n].data : f.place = place
    BY <2>1 DEF Embedding
  <2>3. job[n].step = "embed" /\ f \in Entry /\ WasAsked(f)
    BY <2>1, <2>2 DEF Embedding, IndexTypes, Work, Traceable
  <2>4. PICK e \in AskedIn(place[1]) : SameQuestion(e, f)
    BY <2>2, <2>3, AskedThere
  <2>5. Covered(e)
    BY <2>2, <2>3, <2>4 DEF Covered
  <2>6. QED
    BY <2>2, <2>4, <2>5 DEF SameQuestion
<1>3. CASE Found(place)
  <2>1. PICK f \in index : f.place = place /\ f.vector
    BY <1>3 DEF Found
  <2>2. f \in Entry /\ WasAsked(f)
    BY <2>1 DEF IndexTypes, Traceable, HitsWereAsked
  <2>3. PICK e \in AskedIn(place[1]) : SameQuestion(e, f)
    BY <2>1, <2>2, AskedThere
  <2>4. Covered(e)
    BY <2>1, <2>3 DEF Covered
  <2>5. QED
    BY <2>1, <2>3, <2>4 DEF SameQuestion
<1>4. QED
  BY <1>1, <1>2, <1>3 DEF PlaceCovered

LEMMA IndexedQuestions ==
  WebTypes /\ IndexTypes /\ Traceable /\ AllIndexed => QuestionsAreIndexed
<1> SUFFICES ASSUME WebTypes, IndexTypes, Traceable, AllIndexed, FirstRun,
                    NEW k \in OneTab, NEW e \in AskedIn(k)
             PROVE  Covered(e) \/ \E f \in Rivals(e) : Covered(f)
  BY DEF QuestionsAreIndexed
<1>1. PICK s \in Sessions : KeyOf[s] = k /\ e \in QuestionsOf(k, messages[s])
  BY DEF AskedIn
<1>2. PlaceCovered(e.place) /\ e.place[1] = k
  BY <1>1, PlaceOfQuestion DEF AllIndexed, PlacesCovered
<1>3. PICK f \in AskedIn(k) : f.place = e.place /\ Covered(f)
  BY <1>2, PlaceToQuestion
<1>4. QED
  BY <1>2, <1>3 DEF Rivals

-----------------------------------------------------------------------------
(* The theorems.                                                            *)

IndexInv == IndexTypes /\ JobsHold /\ PlacesOnce /\ CacheIsIndex /\ Traceable /\ AllIndexed

\* The invariant behind all that follows.
THEOREM IndexSafety == IndexSpec => []IndexInv
<1>1. IndexInit => IndexInv
  <2>1. IndexInit => CacheIsIndex
    BY DEF IndexInit, CacheIsIndex, Settled
  <2>2. QED
    BY <2>1, IndexTypesInitially, JobsHoldInitially, PlacesOnceInitially, TraceableInitially,
       AllIndexedInitially DEF IndexInv
<1>2. WebInv /\ WebInv' /\ IndexInv /\ [IndexNext]_allVars => IndexInv'
  <2>1. WebInv => WebTypes
    BY DEF WebInv
  <2>2. WebInv' => WebTypes'
    BY DEF WebInv
  <2>3. QED
    BY <2>1, <2>2, IndexTypesSteps, JobsHoldSteps, PlacesOnceSteps, CacheSteps, TraceableSteps,
       AllIndexedSteps DEF IndexInv
<1>3. QED
  BY <1>1, <1>2, WebChatHolds, PTL DEF IndexSpec

\* Every variable keeps its type, the saved index and the goroutines' entries
\* included (session_store.go:171-224).
THEOREM IndexTypeCorrect == IndexSpec => []IndexTypeOK
<1>1. WebTypeOK /\ IndexInv => IndexTypeOK
  BY DEF IndexInv, IndexTypes, IndexTypeOK, Work
<1>2. QED
  BY <1>1, IndexSafety, IndexImplementsWebChat, WebTypeCorrect, PTL

\* A hit was asked where it says, although other sockets add to the conversation
\* and after a restart too (websocket.go:188-191, session_store.go:347).
THEOREM HitsAreQuestions == IndexSpec => []HitsWereAsked
<1>1. IndexInv => HitsWereAsked
  BY DEF IndexInv, Traceable
<1>2. QED
  BY <1>1, IndexSafety, PTL

\* A place is in the index once (session_store.go:198-208).
THEOREM PlacesAreUnique == IndexSpec => []OneEntryPerPlace
<1>1. IndexInv => OneEntryPerPlace
  BY DEF IndexInv, PlacesOnce, OnePlace, OneEntryPerPlace
<1>2. QED
  BY <1>1, IndexSafety, PTL

\* Between two saves embeddings.json holds the index, whatever savers overlapped
\* (session_store.go:331-344).
THEOREM CacheIsSaved == IndexSpec => []CacheIsIndex
<1>1. IndexInv => CacheIsIndex
  BY DEF IndexInv
<1>2. QED
  BY <1>1, IndexSafety, PTL

\* In the first run each question of a conversation open in one socket is in the
\* index with its text, with a goroutine, or about to be handed to one, or another
\* question asked at the same place is (websocket.go:187-201,
\* session_store.go:198-208).
THEOREM QuestionsAreFound == IndexSpec => []QuestionsAreIndexed
<1>1. WebInv /\ IndexInv => QuestionsAreIndexed
  BY IndexedQuestions DEF WebInv, IndexInv
<1>2. QED
  BY <1>1, IndexSafety, WebChatHolds, PTL

================================================================================
