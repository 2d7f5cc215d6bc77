------------------------------- MODULE SmartHome -------------------------------
(***************************************************************************)
(* The smart home manager of go-agent/internal/smarthome: handlers that    *)
(* confirm and ignore suggestions, analyses that publish them, the         *)
(* collector, and Start and Stop, over the files of the device store.      *)
(***************************************************************************)
EXTENDS HistoryAnalysis, Sequences

CONSTANTS
  None,
  Rules,      \* rules that may be suggested
  Supported,  \* those with an explicit, valid automation (BuildAutomation)
  Handlers,   \* HTTP handlers confirming or ignoring a suggestion
  Requests,   \* what they ask for: pairs of "confirm" or "ignore" and a rule
  Daily,      \* the worker of dailyAnalysisLoop
  Publishers, \* HTTP analyses and other callers of SaveSuggestions
  MaxInputs,  \* bound: requests, analyses and further collections
  MaxCrashes  \* bound

Analysts == Publishers \cup {Daily}
Procs == Handlers \cup Analysts

ASSUME SmartAssumption ==
  /\ Supported \subseteq Rules
  /\ Requests \subseteq {"confirm", "ignore"} \X Rules
  /\ Daily \notin Publishers /\ Handlers \cap Analysts = {}
  /\ None \notin Procs
  /\ \A files \in SUBSET Batches : UNION Suggestions(files) \subseteq Rules
  /\ MaxInputs \in Nat /\ MaxCrashes \in Nat

VARIABLES
  file,       \* suggestions.json: the status of every rule
  installed,  \* rules Home Assistant has
  archived,   \* rule documents
  history,    \* history files that can be read
  pc,         \* [Procs -> where the process is]
  request,    \* [Handlers -> its request, or None]
  found,      \* [Analysts -> the rules its analysis suggests]
  actionMu,   \* holder of Manager.actionMu, or None
  storeMu,    \* writer holding DeviceStore.mu, or None
  draft,      \* what that writer is about to write
  collector,  \* where the collector's goroutine is
  batch,      \* the history it has fetched, or None
  started, stopped, cancelled, \* Manager.started, stopped, and its context
  stopper,    \* where Manager.Stop is
  inputs, crashes

disk == <<file, installed, archived>>
locks == <<actionMu, storeMu, draft>>
manager == <<started, stopped, cancelled, stopper>>
collecting == <<collector, batch, history>>
vars == <<disk, pc, request, found, locks, collecting, manager, inputs, crashes>>

Absent == [r \in Rules |-> "absent"]

Init ==
  /\ file = Absent /\ installed = {} /\ archived = {} /\ history = {}
  /\ pc = [p \in Procs |-> "idle"] /\ request = [h \in Handlers |-> None]
  /\ found = [a \in Analysts |-> {}]
  /\ actionMu = None /\ storeMu = None /\ draft = None
  /\ collector = "off" /\ batch = None
  /\ started = FALSE /\ stopped = FALSE /\ cancelled = FALSE /\ stopper = "none"
  /\ inputs = 0 /\ crashes = 0

Input == inputs < MaxInputs /\ inputs' = inputs + 1

Go(p, label) == pc' = [pc EXCEPT ![p] = label]

-----------------------------------------------------------------------------
(* changeSuggestion: one critical section of the store, in two steps.       *)

ValidTransition(from, to) ==
  \/ from = to /\ from # "absent"
  \/ from = "pending" /\ to \in {"applying", "ignored"}
  \/ from = "failed" /\ to = "applying"
  \/ from = "applying" /\ to \in {"confirmed", "failed"}

Rule(h) == request[h][2]

\* Where a handler that changes a status is, what it writes, and what follows.
Target(label) ==
  CASE label = "mark" -> "applying" [] label = "confirm" -> "confirmed"
    [] label = "fail" -> "failed" [] label = "ignore" -> "ignored"
    [] OTHER -> None

\* The handler's deferred unlock, and its answer.
Return(h) ==
  /\ Go(h, "idle")
  /\ actionMu' = None
  /\ request' = [request EXCEPT ![h] = None]

Change(h) ==
  /\ Target(pc[h]) # None /\ storeMu = None
  /\ \/ /\ ValidTransition(file[Rule(h)], Target(pc[h]))
        /\ storeMu' = h
        /\ draft' = [file EXCEPT ![Rule(h)] = Target(pc[h])]
        /\ UNCHANGED <<pc, request, actionMu>>
     \/ \* Not a valid transition, or the file cannot be read.
        Return(h) /\ UNCHANGED <<storeMu, draft>>
  /\ UNCHANGED <<disk, found, collecting, manager, inputs, crashes>>

\* A variant of Unlock: what was written is kept.
UnlockKeeping == storeMu' = None /\ UNCHANGED draft

Unlock == storeMu' = None /\ draft' = None

\* writeSuggestions renames a complete new file into place, or fails.
Write(h) ==
  /\ h \in Handlers /\ storeMu = h
  /\ Unlock
  /\ \/ /\ file' = draft
        /\ IF pc[h] = "mark" THEN Go(h, "create") /\ UNCHANGED <<actionMu, request>>
                             ELSE Return(h)
     \/ UNCHANGED file /\ Return(h)
  /\ UNCHANGED <<installed, archived, found, collecting, manager, inputs, crashes>>

-----------------------------------------------------------------------------
(* ConfirmSuggestion and IgnoreSuggestion.                                  *)

Arrive(h) ==
  /\ Input
  /\ pc[h] = "idle"
  /\ \E q \in Requests : request' = [request EXCEPT ![h] = q]
  /\ Go(h, "lock")
  /\ UNCHANGED <<disk, found, locks, collecting, manager, crashes>>

\* A variant of Lock: handlers do not exclude one another.
LockNobody(h) ==
  /\ pc[h] = "lock"
  /\ Go(h, "find")
  /\ UNCHANGED <<disk, request, found, locks, collecting, manager, inputs, crashes>>

Lock(h) ==
  /\ pc[h] = "lock" /\ actionMu = None
  /\ actionMu' = h
  /\ Go(h, "find")
  /\ UNCHANGED <<disk, request, found, storeMu, draft, collecting, manager, inputs, crashes>>

Confirmable == {"pending", "failed", "applying"}

\* findSuggestion and the switch behind it; a request without a context, a
\* suggestion that is unknown, decided or unsupported returns.
Find(h) ==
  /\ pc[h] = "find" /\ storeMu = None
  /\ LET status == file[Rule(h)] IN
     \/ /\ request[h][1] = "confirm" /\ status \in Confirmable
        /\ Rule(h) \in Supported
        /\ Go(h, "mark") /\ UNCHANGED <<actionMu, request>>
     \/ /\ request[h][1] = "ignore" /\ status = "pending"
        /\ Go(h, "ignore") /\ UNCHANGED <<actionMu, request>>
     \/ Return(h)
  /\ UNCHANGED <<disk, found, storeMu, draft, collecting, manager, inputs, crashes>>

\* ExecuteRule: each of its calls may fail, the first with or without effect;
\* the rule's id is the config key, so a retry is an update.
Create(h) ==
  /\ pc[h] = "create"
  /\ \/ installed' = installed \cup {Rule(h)} /\ (Go(h, "reload") \/ Go(h, "fail"))
     \/ UNCHANGED installed /\ Go(h, "fail")
  /\ UNCHANGED <<file, archived, request, found, locks, collecting, manager, inputs, crashes>>

Reload(h) ==
  /\ pc[h] = "reload"
  /\ Go(h, "archive") \/ Go(h, "fail")
  /\ UNCHANGED <<disk, request, found, locks, collecting, manager, inputs, crashes>>

Archive(h) ==
  /\ pc[h] = "archive"
  /\ \/ archived' = archived \cup {Rule(h)} /\ Go(h, "confirm")
     \/ UNCHANGED archived /\ Go(h, "fail")
  /\ UNCHANGED <<file, installed, request, found, locks, collecting, manager, inputs, crashes>>

Handle(h) ==
  Arrive(h) \/ Lock(h) \/ Find(h) \/ Change(h) \/ Write(h) \/ Create(h)
  \/ Reload(h) \/ Archive(h)

-----------------------------------------------------------------------------
(* TriggerAnalysis.                                                         *)

\* The history cannot be read, or the context is done: the daily worker's is the
\* manager's, any other may be done any time.
GivesUp(a) ==
  /\ pc[a] \in {"analyze", "report"}
  /\ a = Daily /\ pc[a] = "report" => cancelled
  /\ Go(a, "idle")
  /\ found' = [found EXCEPT ![a] = {}]
  /\ UNCHANGED <<disk, request, locks, collecting, manager, inputs, crashes>>

\* The hour of the daily analysis, or a request.
Trigger(a) ==
  /\ Input
  /\ pc[a] = "idle"
  /\ a = Daily => started /\ ~cancelled
  /\ Go(a, "analyze")
  /\ UNCHANGED <<disk, request, found, locks, collecting, manager, crashes>>

\* Analyze, and a look at the context; a caller of the package may publish
\* explicit automations.
Analyze(a) ==
  /\ pc[a] = "analyze" /\ storeMu = None
  /\ a = Daily => ~cancelled
  /\ \E rules \in Suggestions(history) \cup (IF a = Daily THEN {} ELSE SUBSET Supported) :
       found' = [found EXCEPT ![a] = rules]
  /\ Go(a, "save")
  /\ UNCHANGED <<disk, request, locks, collecting, manager, inputs, crashes>>

\* "Publishing observations cannot confirm or ignore an action."
Merged(old, rules) ==
  [r \in Rules |-> IF r \in rules /\ old[r] = "absent" THEN "pending" ELSE old[r]]

BeginSave(a) ==
  /\ pc[a] = "save" /\ storeMu = None
  /\ storeMu' = a
  /\ draft' = Merged(file, found[a])
  /\ UNCHANGED <<disk, pc, request, found, actionMu, collecting, manager, inputs, crashes>>

Save(a) ==
  /\ a \in Analysts /\ storeMu = a
  /\ Unlock
  /\ \/ file' = draft /\ Go(a, "publish")
     \/ UNCHANGED file /\ Go(a, "idle")
  /\ found' = [found EXCEPT ![a] = {}]
  /\ UNCHANGED <<installed, archived, request, actionMu, collecting, manager, inputs, crashes>>

\* GetSuggestions: the report takes the stored decisions, if they can be read.
Publish(a) ==
  /\ pc[a] = "publish" /\ storeMu = None
  /\ Go(a, "report") \/ Go(a, "idle")
  /\ UNCHANGED <<disk, request, found, locks, collecting, manager, inputs, crashes>>

SaveReport(a) ==
  /\ pc[a] = "report" /\ storeMu = None
  /\ Go(a, "idle")
  /\ UNCHANGED <<disk, request, found, locks, collecting, manager, inputs, crashes>>

Analysis(a) ==
  Trigger(a) \/ GivesUp(a) \/ Analyze(a) \/ BeginSave(a) \/ Save(a) \/ Publish(a)
  \/ SaveReport(a)

-----------------------------------------------------------------------------
(* The collector's goroutine.                                               *)

CollectStates ==
  /\ collector = "collect"
  /\ \/ ~cancelled /\ collector' = "snapshot"
     \/ collector' = "wait"
  /\ UNCHANGED <<disk, batch, history, pc, request, found, locks, manager, inputs, crashes>>

SaveSnapshot ==
  /\ collector = "snapshot" /\ storeMu = None
  /\ collector' \in {"fetch", "wait"}
  /\ UNCHANGED <<disk, batch, history, pc, request, found, locks, manager, inputs, crashes>>

\* GetHistory: a failed call, an empty answer or a done context end the round.
FetchHistory ==
  /\ collector = "fetch"
  /\ \/ /\ ~cancelled
        /\ \E b \in Batches : batch' = b
        /\ collector' = "write"
     \/ collector' = "wait" /\ UNCHANGED batch
  /\ UNCHANGED <<disk, history, pc, request, found, locks, manager, inputs, crashes>>

SaveHistory ==
  /\ collector = "write" /\ storeMu = None
  /\ history' \in {history, history \cup {batch}}
  /\ batch' = None
  /\ collector' = "wait"
  /\ UNCHANGED <<disk, pc, request, found, locks, manager, inputs, crashes>>

Tick ==
  /\ Input
  /\ collector = "wait" /\ ~cancelled
  /\ collector' = "collect"
  /\ UNCHANGED <<disk, batch, history, pc, request, found, locks, manager, crashes>>

\* A variant of CollectorExit: the loop waits for its ticker only.
CollectorDeaf == FALSE /\ UNCHANGED vars

CollectorExit ==
  /\ collector = "wait" /\ cancelled
  /\ collector' = "done"
  /\ UNCHANGED <<disk, batch, history, pc, request, found, locks, manager, inputs, crashes>>

Collect ==
  CollectStates \/ SaveSnapshot \/ FetchHistory \/ SaveHistory \/ Tick \/ CollectorExit

-----------------------------------------------------------------------------
(* Manager.Start and Manager.Stop.                                          *)

Start ==
  /\ ~started /\ ~stopped
  /\ started' = TRUE
  /\ collector' = "collect"
  /\ UNCHANGED <<disk, pc, request, found, locks, batch, history, stopped, cancelled,
                 stopper, inputs, crashes>>

Stop ==
  /\ stopper \in {"none", "returned"}
  /\ stopped' = TRUE /\ cancelled' = started
  /\ stopper' = "collector"
  /\ UNCHANGED <<disk, pc, request, found, locks, collecting, started, inputs, crashes>>

\* Collector.Stop waits for its goroutine, and the manager for its worker.
AwaitCollector ==
  /\ stopper = "collector" /\ collector \in {"off", "done"}
  /\ stopper' = "worker"
  /\ UNCHANGED <<disk, pc, request, found, locks, collecting, started, stopped,
                 cancelled, inputs, crashes>>

\* A variant of AwaitWorker: Stop does not wait for the analysis.
AwaitNobody ==
  /\ stopper = "worker"
  /\ stopper' = "returned"
  /\ UNCHANGED <<disk, pc, request, found, locks, collecting, started, stopped,
                 cancelled, inputs, crashes>>

AwaitWorker ==
  /\ stopper = "worker" /\ pc[Daily] = "idle"
  /\ stopper' = "returned"
  /\ UNCHANGED <<disk, pc, request, found, locks, collecting, started, stopped,
                 cancelled, inputs, crashes>>

\* The process dies and is started again; a file is the old or the new one.
Crash ==
  /\ crashes < MaxCrashes
  /\ crashes' = crashes + 1
  /\ pc' = [p \in Procs |-> "idle"] /\ request' = [h \in Handlers |-> None]
  /\ found' = [a \in Analysts |-> {}]
  /\ actionMu' = None /\ Unlock
  /\ collector' = "off" /\ batch' = None
  /\ started' = FALSE /\ stopped' = FALSE /\ cancelled' = FALSE /\ stopper' = "none"
  /\ UNCHANGED <<disk, history, inputs>>

Next ==
  \/ \E h \in Handlers : Handle(h)
  \/ \E a \in Analysts : Analysis(a)
  \/ Collect \/ Start \/ Stop \/ AwaitCollector \/ AwaitWorker \/ Crash

Spec == Init /\ [][Next]_vars

\* Whatever was begun goes on: calls to Home Assistant time out, and a waiter
\* for the store's lock gets it in the end (sync.RWMutex).
FairSpec ==
  /\ Spec
  /\ WF_vars(AwaitCollector \/ AwaitWorker)
  /\ WF_vars(CollectStates \/ FetchHistory \/ CollectorExit)
  /\ SF_vars(SaveSnapshot) /\ SF_vars(SaveHistory)
  /\ \A h \in Handlers : WF_vars(Write(h))
  /\ \A a \in Analysts : WF_vars(Save(a))
  /\ SF_vars(pc[Daily] # "idle" /\ Analysis(Daily))

-----------------------------------------------------------------------------
(* Properties.                                                              *)

Life == INSTANCE RuleLifecycle WITH status <- file

ASSUME DraftAssumption == None \notin [Rules -> Life!Statuses]

\* The type of every variable.
SmartTypeOK ==
  /\ Life!LifeTypeOK
  /\ history \subseteq Batches
  /\ pc \in [Procs -> {"idle", "lock", "find", "mark", "create", "reload", "archive",
                       "confirm", "fail", "ignore", "analyze", "save", "publish", "report"}]
  /\ request \in [Handlers -> Requests \cup {None}]
  /\ found \in [Analysts -> SUBSET Rules]
  /\ actionMu \in Handlers \cup {None} /\ storeMu \in Procs \cup {None}
  /\ (storeMu = None) = (draft = None)
  /\ draft # None => draft \in [Rules -> Life!Statuses]
  /\ collector \in {"off", "collect", "snapshot", "fetch", "write", "wait", "done"}
  /\ batch \in Batches \cup {None}
  /\ {started, stopped, cancelled} \subseteq BOOLEAN
  /\ stopper \in {"none", "collector", "worker", "returned"}
  /\ inputs \in 0 .. MaxInputs /\ crashes \in 0 .. MaxCrashes

\* Confirmations, refusals, analyses and crashes in any order take a suggestion
\* only through its life cycle: a decision is never lost to an analysis or to
\* another handler, what is confirmed has been installed and archived, what is
\* ignored has not, and what a crash interrupts can be retried
\* (manager_actions.go:9, store.go:177).
ImplementsRuleLifecycle == Life!LifeSpec

\* What really happened, each event once.
Happened == UNION { Contents[b] : b \in Batches }

TrueHabit(rule) ==
  LET days == { e.at \div DayLength : e \in
                  { x \in Happened : /\ x.entity = rule.action /\ SaysOn(x.state)
                                     /\ x.at % DayLength = rule.trigger
                                     /\ x.at >= StartTime } }
  IN Cardinality(days) >= MinDays /\ HighRate(Cardinality(days), LookbackDays)

OnAt(entity, t) ==
  \E e \in Happened :
    /\ e.entity = entity /\ e.state = "on" /\ e.at <= t
    /\ \A x \in Happened : x.entity = entity /\ x.at <= t => x.at <= e.at

\* A daily habit is suggested only when the device was really turned on at that
\* hour on enough days, however the collections overlapped and whichever were
\* lost (analyzer.go:117).
HabitsAreTrue ==
  \A r \in Rules \ Supported :
    file[r] # "absent" /\ r.type = "time" => TrueHabit(r)

\* With all of the collections the time a device was on is exact, the state at
\* the left edge of the window included (analyzer.go:35).
OnTimesAreExact ==
  history = Batches => \A e \in Binary :
    TotalOnTime(history, e) = Cardinality({ t \in StartTime .. Now - 1 : OnAt(e, t) })

\* What the analyzer says of the devices is true of what happened.
FindingsAreTrue == HabitsAreTrue /\ OnTimesAreExact

\* Once Stop has returned neither the collector nor the daily analysis runs or
\* starts, whatever Start and Stop are called after it (manager.go:84).
QuietAfterStop == stopper = "returned" => collector \in {"off", "done"} /\ pc[Daily] = "idle"

\* Stop returns, although a collection and an analysis may be under way.
StopCompletes == stopper # "none" ~> stopper \in {"none", "returned"}

===============================================================================
