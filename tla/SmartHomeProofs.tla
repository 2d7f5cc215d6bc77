---------------------------- MODULE SmartHomeProofs ----------------------------
(***************************************************************************)
(* Theorems about SmartHome and RuleLifecycle, for every set of rules,     *)
(* handlers and analyses, every history and any number of restarts.        *)
(***************************************************************************)
EXTENDS SmartHome, FiniteSetTheorems, TLAPS

USE SmartAssumption DEF Analysts, Procs

-----------------------------------------------------------------------------
(* The life cycle of a rule.                                                *)

\* A rule is decided only with the effects its status speaks of (the abstract
\* side of manager_actions.go:12-72).
THEOREM DecidedRulesAreReal == Life!LifeSpec => [](Life!LifeTypeOK /\ Life!DecidedIsReal)
<1> DEFINE LifeInv == Life!LifeTypeOK /\ Life!DecidedIsReal
<1> USE DEF Life!LifeTypeOK, Life!DecidedIsReal, Life!Statuses
<1>1. Life!LifeInit => LifeInv
  BY DEF Life!LifeInit
<1>2. LifeInv /\ [Life!LifeNext]_Life!lifeVars => LifeInv'
  <2> SUFFICES ASSUME LifeInv, [Life!LifeNext]_Life!lifeVars PROVE LifeInv'
    OBVIOUS
  <2>1. ASSUME NEW new \in SUBSET Rules, Life!Propose(new) PROVE LifeInv'
    BY <2>1 DEF Life!Propose
  <2>2. ASSUME NEW r \in Rules, Life!Apply(r) \/ Life!Fail(r) \/ Life!Ignore(r)
        PROVE LifeInv'
    BY <2>2 DEF Life!Apply, Life!Fail, Life!Ignore, Life!Move
  <2>3. ASSUME NEW r \in Rules, Life!Install(r) \/ Life!Archive(r) PROVE LifeInv'
    BY <2>3 DEF Life!Install, Life!Archive
  <2>4. ASSUME NEW r \in Rules, Life!Confirm(r) PROVE LifeInv'
    BY <2>4 DEF Life!Confirm, Life!Move
  <2>5. CASE UNCHANGED Life!lifeVars
    BY <2>5 DEF Life!lifeVars
  <2>6. QED
    BY <2>1, <2>2, <2>3, <2>4, <2>5 DEF Life!LifeNext
<1>3. QED
  BY <1>1, <1>2, PTL DEF Life!LifeSpec

-----------------------------------------------------------------------------
(* What the handlers and the writers of suggestions.json hold.              *)

\* Behind Lock, and behind the first status change.
Locked == {"find", "mark", "create", "reload", "archive", "confirm", "fail", "ignore"}
Executing == {"create", "reload", "archive", "confirm", "fail"}

\* The part of the state that decides about rules.
core == <<disk, pc, request, found, locks>>

CoreTypes ==
  /\ Life!LifeTypeOK
  /\ pc = [p \in Procs |-> pc[p]] /\ request = [h \in Handlers |-> request[h]]
  /\ found = [a \in Analysts |-> found[a]]
  /\ \A h \in Handlers : /\ pc[h] \in {"idle", "lock"} \cup Locked
                         /\ pc[h] # "idle" => request[h] \in Requests
  /\ \A a \in Analysts : pc[a] \in {"idle", "analyze", "save", "publish", "report"}
  /\ storeMu \in Procs \cup {None}

\* Only the holder of actionMu is between Find and Return.
OneHandler == \A h \in Handlers : pc[h] \in Locked => actionMu = h

\* How far a handler is tells what its rule has been through.
UnderWay(h) ==
  /\ pc[h] \in Executing => file[Rule(h)] = "applying"
  /\ pc[h] \in {"reload", "archive", "confirm"} => Rule(h) \in installed
  /\ pc[h] = "confirm" => Rule(h) \in archived
  /\ pc[h] = "ignore" => file[Rule(h)] = "pending"

RuleUnderWay == \A h \in Handlers : UnderWay(h)

\* A draft was made of the file as it is: nobody else has written since.
DraftIsFresh ==
  /\ \A h \in Handlers : storeMu = h =>
       /\ Target(pc[h]) # None
       /\ ValidTransition(file[Rule(h)], Target(pc[h]))
       /\ draft = [file EXCEPT ![Rule(h)] = Target(pc[h])]
  /\ \A a \in Analysts : storeMu = a => pc[a] = "save" /\ draft = Merged(file, found[a])

RuleInv == CoreTypes /\ OneHandler /\ RuleUnderWay /\ DraftIsFresh

LEMMA RuleInvInitial == Init => RuleInv
BY DEF Init, RuleInv, CoreTypes, OneHandler, RuleUnderWay, UnderWay, DraftIsFresh, Absent, Locked,
       Executing, Life!LifeTypeOK, Life!Statuses

\* The collector, Start and Stop decide nothing about rules.
LEMMA BackgroundKeepsCore ==
  Collect \/ Start \/ Stop \/ AwaitCollector \/ AwaitWorker => UNCHANGED core
BY DEF Collect, Start, Stop, AwaitCollector, AwaitWorker, core, CollectStates, SaveSnapshot,
       FetchHistory, SaveHistory, Tick, CollectorExit

\* A handler that goes from one place behind Lock to another, or into it, or
\* returns, and writes nothing, leaves only its own place to be looked at.
LEMMA HandlerMoves ==
  ASSUME RuleInv, NEW h \in Handlers, NEW to \in {"idle"} \cup Locked, Go(h, to),
         actionMu \in {None, h}, pc[h] # "idle", storeMu # h,
         UNCHANGED <<file, found, storeMu, draft>>,
         installed' \subseteq Rules, archived' \subseteq Rules,
         \/ actionMu' = h /\ request' = request
         \/ to = "idle" /\ request' = [request EXCEPT ![h] = None]
  PROVE  CoreTypes' /\ OneHandler' /\ DraftIsFresh' /\ (UnderWay(h)' => RuleUnderWay')
<1> USE DEF RuleInv, CoreTypes, Go
<1>1. /\ pc'[h] = to
      /\ \A p \in Procs : p # h => pc'[p] = pc[p]
      /\ \A g \in Handlers : g # h => request'[g] = request[g] /\ pc'[g] \notin Locked
  BY DEF OneHandler
<1>2. CoreTypes'
  <2>1. pc' = [p \in Procs |-> pc'[p]] /\ request' = [g \in Handlers |-> request'[g]]
    OBVIOUS
  <2>2. \A g \in Handlers : /\ pc'[g] \in {"idle", "lock"} \cup Locked
                           /\ pc'[g] # "idle" => request'[g] \in Requests
    BY <1>1
  <2>3. QED
    BY <1>1, <2>1, <2>2 DEF Life!LifeTypeOK
<1>3. OneHandler'
  BY <1>1 DEF OneHandler, Locked
<1>4. DraftIsFresh'
  <2>1. \A g \in Handlers : storeMu = g => pc'[g] = pc[g] /\ Rule(g)' = Rule(g)
    BY <1>1 DEF Rule
  <2>2. \A a \in Analysts : pc'[a] = pc[a]
    BY <1>1
  <2>3. ASSUME NEW g \in Handlers, storeMu' = g
        PROVE  /\ Target(pc'[g]) # None
               /\ ValidTransition(file'[Rule(g)'], Target(pc'[g]))
               /\ draft' = [file' EXCEPT ![Rule(g)'] = Target(pc'[g])]
    BY <2>1, <2>3 DEF DraftIsFresh
  <2>4. ASSUME NEW a \in Analysts, storeMu' = a
        PROVE  pc'[a] = "save" /\ draft' = Merged(file', found'[a])
    BY <2>2, <2>4 DEF DraftIsFresh
  <2>5. QED
    BY <2>3, <2>4 DEF DraftIsFresh
<1>5. ASSUME UnderWay(h)' PROVE RuleUnderWay'
  BY <1>1, <1>5 DEF RuleUnderWay, UnderWay, Locked, Executing
<1>6. QED
  BY <1>2, <1>3, <1>4, <1>5

\* A handler holds the store's lock only where it changes a status, and a
\* handler behind Lock holds actionMu.
LEMMA HandlerHolds ==
  ASSUME RuleInv, NEW h \in Handlers
  PROVE  /\ storeMu = h => pc[h] \in {"mark", "confirm", "fail", "ignore"}
         /\ pc[h] \in Locked => actionMu = h
         /\ pc[h] # "idle" => request[h] \in Requests /\ Rule(h) \in Rules
         /\ UnderWay(h)
BY DEF RuleInv, CoreTypes, OneHandler, RuleUnderWay, DraftIsFresh, Target, Rule

\* Every step of a handler keeps the invariant and is a step of its rule's life,
\* or none (manager_actions.go:12-72, store.go:220-291).
LEMMA HandlerSteps ==
  ASSUME RuleInv, NEW h \in Handlers, Handle(h)
  PROVE  RuleInv' /\ [Life!LifeNext]_Life!lifeVars
<1> USE HandlerHolds, HandlerMoves DEF RuleInv, disk, locks, Life!lifeVars
<1>0. installed \subseteq Rules /\ archived \subseteq Rules
  BY DEF CoreTypes, Life!LifeTypeOK
<1>1. CASE Arrive(h)
  <2>1. /\ pc'[h] = "lock" /\ request'[h] \in Requests
        /\ \A p \in Procs : p # h => pc'[p] = pc[p]
        /\ \A g \in Handlers : g # h => request'[g] = request[g]
    BY <1>1 DEF Arrive, CoreTypes, Go
  <2>2. CoreTypes'
    <3>1. /\ pc' = [p \in Procs |-> pc'[p]]
          /\ request' = [g \in Handlers |-> request'[g]]
          /\ UNCHANGED <<disk, found, locks>>
      BY <1>1 DEF Arrive, CoreTypes, Go
    <3>2. QED
      BY <2>1, <3>1 DEF CoreTypes, Life!LifeTypeOK
  <2>3. OneHandler' /\ RuleUnderWay'
    BY <1>1, <2>1 DEF Arrive, OneHandler, RuleUnderWay, UnderWay, Rule, Locked, Executing
  <2>4. DraftIsFresh'
    <3>1. storeMu # h /\ UNCHANGED <<disk, found, locks>>
      BY <1>1 DEF Arrive
    <3>2. \A g \in Handlers : g # h => pc'[g] = pc[g] /\ Rule(g)' = Rule(g)
      BY <2>1 DEF Rule
    <3>3. QED
      BY <2>1, <3>1, <3>2 DEF DraftIsFresh
  <2>5. QED
    BY <1>1, <2>2, <2>3, <2>4 DEF Arrive
<1>2. CASE Lock(h)
  <2>1. Go(h, "find") /\ actionMu' = h /\ actionMu = None /\ request' = request
        /\ pc[h] = "lock" /\ UNCHANGED <<disk, found, storeMu, draft>>
    BY <1>2 DEF Lock
  <2>2. CoreTypes' /\ OneHandler' /\ DraftIsFresh' /\ (UnderWay(h)' => RuleUnderWay')
    BY <1>0, <2>1 DEF Locked
  <2>3. UnderWay(h)'
    BY <2>1 DEF UnderWay, Executing, Go, CoreTypes
  <2>4. QED
    BY <2>1, <2>2, <2>3
<1>3. CASE Find(h)
  <2> DEFINE to == pc'[h]
  <2>1. /\ to \in {"mark", "ignore", "idle"} /\ Go(h, to)
        /\ \/ actionMu' = actionMu /\ request' = request
           \/ to = "idle" /\ request' = [request EXCEPT ![h] = None]
        /\ to = "ignore" => file[Rule(h)] = "pending" /\ request' = request
    BY <1>3 DEF Find, Return, Go, CoreTypes
  <2>2. pc[h] = "find" /\ UNCHANGED <<disk, found, storeMu, draft>>
    BY <1>3 DEF Find
  <2>3. CoreTypes' /\ OneHandler' /\ DraftIsFresh' /\ (UnderWay(h)' => RuleUnderWay')
    BY <1>0, <2>1, <2>2 DEF Locked
  <2>4. UnderWay(h)'
    BY <2>1, <2>2 DEF UnderWay, Executing, Rule
  <2>5. QED
    BY <2>2, <2>3, <2>4
<1>4. CASE Change(h)
  <2>1. /\ storeMu = None /\ Target(pc[h]) # None
        /\ UNCHANGED <<disk, found>>
    BY <1>4 DEF Change
  <2>2. pc[h] \in {"mark", "confirm", "fail", "ignore"}
    BY <2>1 DEF Target, CoreTypes, Locked
  <2>3. CASE Return(h) /\ UNCHANGED <<storeMu, draft>>
    <3>1. CoreTypes' /\ OneHandler' /\ DraftIsFresh' /\ (UnderWay(h)' => RuleUnderWay')
      BY <1>0, <2>1, <2>2, <2>3 DEF Return, Locked
    <3>2. UnderWay(h)'
      BY <2>3 DEF UnderWay, Return, Go, CoreTypes, Executing
    <3>3. QED
      BY <2>1, <3>1, <3>2
  <2>4. CASE /\ ValidTransition(file[Rule(h)], Target(pc[h])) /\ storeMu' = h
             /\ draft' = [file EXCEPT ![Rule(h)] = Target(pc[h])]
             /\ UNCHANGED <<pc, request, actionMu>>
    <3>1. CoreTypes' /\ OneHandler' /\ RuleUnderWay'
      BY <2>1, <2>4 DEF CoreTypes, OneHandler, RuleUnderWay, UnderWay, Rule, Life!LifeTypeOK
    <3>2. \A g \in Handlers : storeMu' = g => g = h
      BY <2>4
    <3>3. \A a \in Analysts : storeMu' # a
      BY <2>4
    <3>4. Rule(h)' = Rule(h)
      BY <2>4 DEF Rule
    <3>5. DraftIsFresh'
      BY <2>1, <2>4, <3>2, <3>3, <3>4 DEF DraftIsFresh
    <3>6. QED
      BY <2>1, <3>1, <3>5
  <2>5. QED
    BY <1>4, <2>3, <2>4 DEF Change
<1>5. CASE Write(h)
  <2> DEFINE to == pc'[h]
  <2>1. /\ storeMu = h /\ storeMu' = None
        /\ UNCHANGED <<installed, archived, found>>
        /\ file' \in {file, draft}
        /\ Go(h, to) /\ to \in {"create", "idle"}
        /\ \/ actionMu' = actionMu /\ request' = request
           \/ to = "idle" /\ actionMu' = None /\ request' = [request EXCEPT ![h] = None]
        /\ to = "create" => pc[h] = "mark" /\ file' = draft /\ request' = request
    BY <1>5 DEF Write, Return, Go, Unlock, CoreTypes
  <2>2. /\ pc[h] \in {"mark", "confirm", "fail", "ignore"}
        /\ actionMu = h /\ Rule(h) \in Rules /\ request[h] \in Requests
    BY <2>1 DEF Locked
  <2>3. /\ ValidTransition(file[Rule(h)], Target(pc[h]))
        /\ draft = [file EXCEPT ![Rule(h)] = Target(pc[h])]
        /\ Target(pc[h]) \in Life!Statuses
    BY <2>1, <2>2 DEF DraftIsFresh, Target, Life!Statuses
  <2>4. file' \in [Rules -> Life!Statuses]
    BY <2>1, <2>2, <2>3 DEF CoreTypes, Life!LifeTypeOK
  <2>5. /\ \A p \in Procs : p # h => pc'[p] = pc[p]
        /\ \A g \in Handlers : g # h => request'[g] = request[g] /\ pc'[g] \notin Locked
    BY <2>1, <2>2 DEF CoreTypes, OneHandler, Go
  <2>6. CoreTypes'
    <3>1. pc' = [p \in Procs |-> pc'[p]] /\ request' = [g \in Handlers |-> request'[g]]
      BY <2>1 DEF CoreTypes, Go
    <3>2. QED
      BY <2>1, <2>2, <2>4, <2>5, <3>1 DEF CoreTypes, Life!LifeTypeOK, Locked
  <2>7. OneHandler'
    BY <2>1, <2>2, <2>5 DEF OneHandler, Locked
  <2>8. RuleUnderWay'
    <3>1. UnderWay(h)'
      BY <2>1, <2>2, <2>3 DEF UnderWay, Rule, Executing, Target, CoreTypes, Life!LifeTypeOK
    <3>2. QED
      BY <2>5, <3>1 DEF RuleUnderWay, UnderWay, Locked, Executing
  <2>9. DraftIsFresh'
    BY <2>1 DEF DraftIsFresh
  <2>10. [Life!LifeNext]_Life!lifeVars
    <3>1. CASE file' = file
      BY <2>1, <3>1
    <3>2. CASE file' = draft /\ pc[h] = "mark"
      <4>1. CASE file[Rule(h)] = "applying"
        BY <2>1, <2>2, <2>3, <3>2, <4>1 DEF CoreTypes, Life!LifeTypeOK, Target
      <4>2. CASE file[Rule(h)] # "applying"
        BY <2>1, <2>2, <2>3, <3>2, <4>2
           DEF ValidTransition, Target, Life!LifeNext, Life!Apply, Life!Move
      <4>3. QED
        BY <4>1, <4>2
    <3>3. CASE file' = draft /\ pc[h] = "confirm"
      BY <2>1, <2>2, <2>3, <3>3
         DEF UnderWay, Executing, Target, Life!LifeNext, Life!Confirm, Life!Move
    <3>4. CASE file' = draft /\ pc[h] = "fail"
      BY <2>1, <2>2, <2>3, <3>4
         DEF UnderWay, Executing, Target, Life!LifeNext, Life!Fail, Life!Move
    <3>5. CASE file' = draft /\ pc[h] = "ignore"
      BY <2>1, <2>2, <2>3, <3>5
         DEF UnderWay, Target, Life!LifeNext, Life!Ignore, Life!Move
    <3>6. QED
      BY <2>1, <2>2, <3>1, <3>2, <3>3, <3>4, <3>5
  <2>11. QED
    BY <2>6, <2>7, <2>8, <2>9, <2>10
<1>6. CASE Create(h)
  <2> DEFINE to == pc'[h]
  <2>1. /\ to \in {"reload", "fail"} /\ Go(h, to)
        /\ installed' \in {installed, installed \cup {Rule(h)}}
        /\ to = "reload" => Rule(h) \in installed'
    BY <1>6 DEF Create, Go, CoreTypes
  <2>2. /\ pc[h] = "create" /\ UNCHANGED <<file, archived, request, found, locks>>
    BY <1>6 DEF Create
  <2>3. Rule(h) \in Rules /\ actionMu = h /\ file[Rule(h)] = "applying"
    BY <2>2 DEF Locked, UnderWay, Executing
  <2>4. CoreTypes' /\ OneHandler' /\ DraftIsFresh' /\ (UnderWay(h)' => RuleUnderWay')
    BY <1>0, <2>1, <2>2, <2>3 DEF Locked
  <2>5. UnderWay(h)'
    BY <2>1, <2>2, <2>3 DEF UnderWay, Rule
  <2>6. Life!Install(Rule(h)) \/ UNCHANGED Life!lifeVars
    BY <2>1, <2>2, <2>3 DEF Life!Install
  <2>7. QED
    BY <2>3, <2>4, <2>5, <2>6 DEF Life!LifeNext
<1>7. CASE Reload(h)
  <2> DEFINE to == pc'[h]
  <2>1. /\ to \in {"archive", "fail"} /\ Go(h, to)
        /\ pc[h] = "reload" /\ UNCHANGED <<disk, request, found, locks>>
    BY <1>7 DEF Reload, Go, CoreTypes
  <2>2. actionMu = h /\ file[Rule(h)] = "applying" /\ Rule(h) \in installed
    BY <2>1 DEF Locked, UnderWay, Executing
  <2>3. CoreTypes' /\ OneHandler' /\ DraftIsFresh' /\ (UnderWay(h)' => RuleUnderWay')
    BY <1>0, <2>1, <2>2 DEF Locked
  <2>4. UnderWay(h)'
    BY <2>1, <2>2 DEF UnderWay, Rule
  <2>5. QED
    BY <2>1, <2>3, <2>4
<1>8. CASE Archive(h)
  <2> DEFINE to == pc'[h]
  <2>1. /\ to \in {"confirm", "fail"} /\ Go(h, to)
        /\ archived' \in {archived, archived \cup {Rule(h)}}
        /\ to = "confirm" => Rule(h) \in archived'
        /\ pc[h] = "archive" /\ UNCHANGED <<file, installed, request, found, locks>>
    BY <1>8 DEF Archive, Go, CoreTypes
  <2>2. /\ actionMu = h /\ file[Rule(h)] = "applying" /\ Rule(h) \in installed
        /\ Rule(h) \in Rules
    BY <2>1 DEF Locked, UnderWay, Executing
  <2>3. CoreTypes' /\ OneHandler' /\ DraftIsFresh' /\ (UnderWay(h)' => RuleUnderWay')
    BY <1>0, <2>1, <2>2 DEF Locked
  <2>4. UnderWay(h)'
    BY <2>1, <2>2 DEF UnderWay, Rule
  <2>5. Life!Archive(Rule(h)) \/ UNCHANGED Life!lifeVars
    BY <2>1, <2>2 DEF Life!Archive
  <2>6. QED
    BY <2>2, <2>3, <2>4, <2>5 DEF Life!LifeNext
<1>9. QED
  BY <1>1, <1>2, <1>3, <1>4, <1>5, <1>6, <1>7, <1>8 DEF Handle

\* Every step of an analysis keeps the invariant; what it saves are proposals
\* (manager.go:151-181, store.go:152-188).
LEMMA AnalysisSteps ==
  ASSUME RuleInv, NEW a \in Analysts, Analysis(a)
  PROVE  RuleInv' /\ [Life!LifeNext]_Life!lifeVars
<1> USE DEF RuleInv, disk, locks, Life!lifeVars
<1>1. /\ \A p \in Procs : p # a => pc'[p] = pc[p]
      /\ UNCHANGED <<installed, archived, request, actionMu>>
      /\ pc' = [p \in Procs |-> pc'[p]] /\ found' = [b \in Analysts |-> found'[b]]
      /\ pc'[a] \in {"idle", "analyze", "save", "publish", "report"}
      /\ \A b \in Analysts : b # a => found'[b] = found[b]
  BY DEF Analysis, Trigger, GivesUp, Analyze, BeginSave, Save, Publish, SaveReport, Go,
         CoreTypes
<1>2. \A h \in Handlers : pc'[h] = pc[h] /\ Rule(h)' = Rule(h)
  BY <1>1 DEF Rule
<1>3. OneHandler'
  BY <1>1, <1>2 DEF OneHandler
<1>4. ASSUME file' = file, storeMu' = storeMu, draft' = draft, storeMu # a
      PROVE  RuleInv' /\ [Life!LifeNext]_Life!lifeVars
  <2>1. CoreTypes'
    BY <1>1, <1>2, <1>4 DEF CoreTypes, Life!LifeTypeOK
  <2>2. RuleUnderWay'
    BY <1>1, <1>2, <1>4 DEF RuleUnderWay, UnderWay
  <2>3. DraftIsFresh'
    BY <1>1, <1>2, <1>4 DEF DraftIsFresh
  <2>4. QED
    BY <1>1, <1>3, <1>4, <2>1, <2>2, <2>3
<1>5. CASE Trigger(a) \/ GivesUp(a) \/ Analyze(a) \/ Publish(a) \/ SaveReport(a)
  <2>1. storeMu # a
    BY <1>5 DEF Trigger, GivesUp, Analyze, Publish, SaveReport, DraftIsFresh, CoreTypes
  <2>2. UNCHANGED <<file, storeMu, draft>>
    BY <1>5 DEF Trigger, GivesUp, Analyze, Publish, SaveReport
  <2>3. QED
    BY <1>4, <2>1, <2>2
<1>6. CASE BeginSave(a)
  <2>1. /\ storeMu' = a /\ draft' = Merged(file, found[a]) /\ pc[a] = "save"
        /\ UNCHANGED <<file, pc, found>>
    BY <1>6 DEF BeginSave
  <2>2. CoreTypes' /\ RuleUnderWay'
    <3>1. CoreTypes'
      BY <1>1, <2>1 DEF CoreTypes, Life!LifeTypeOK
    <3>2. RuleUnderWay'
      BY <1>1, <1>2, <2>1 DEF RuleUnderWay, UnderWay
    <3>3. QED
      BY <3>1, <3>2
  <2>3. (\A h \in Handlers : storeMu' # h) /\ (\A b \in Analysts : storeMu' = b => b = a)
    BY <2>1
  <2>4. DraftIsFresh'
    BY <2>1, <2>3 DEF DraftIsFresh
  <2>5. QED
    BY <1>1, <1>3, <2>1, <2>2, <2>4
<1>7. CASE Save(a)
  <2>1. /\ storeMu' = None /\ file' \in {file, Merged(file, found[a])}
    BY <1>7 DEF Save, Unlock, DraftIsFresh
  <2>2. /\ file' \in [Rules -> Life!Statuses]
        /\ \A r \in Rules : file[r] # "absent" => file'[r] = file[r]
    BY <2>1 DEF Merged, CoreTypes, Life!LifeTypeOK, Life!Statuses
  <2>3. CoreTypes'
    BY <1>1, <1>2, <2>1, <2>2 DEF CoreTypes, Life!LifeTypeOK
  <2>4. RuleUnderWay'
    <3>1. \A h \in Handlers : pc[h] # "idle" => Rule(h) \in Rules
      BY DEF CoreTypes, Rule
    <3>2. QED
      BY <1>1, <1>2, <2>2, <3>1 DEF RuleUnderWay, UnderWay, Executing
  <2>5. DraftIsFresh'
    BY <2>1 DEF DraftIsFresh
  <2>6. [Life!LifeNext]_Life!lifeVars
    <3> DEFINE new == { r \in Rules : file[r] = "absent" /\ r \in found[a] }
    <3>1. CASE file' = Merged(file, found[a])
      <4>1. file' = [r \in Rules |-> IF r \in new THEN "pending" ELSE file[r]]
        BY <3>1 DEF Merged
      <4>2. new \in SUBSET Rules /\ Life!Propose(new)
        BY <1>1, <4>1 DEF Life!Propose
      <4>3. QED
        BY <4>2 DEF Life!LifeNext
    <3>2. QED
      BY <1>1, <2>1, <3>1
  <2>7. QED
    BY <1>3, <2>3, <2>4, <2>5, <2>6
<1>8. QED
  BY <1>5, <1>6, <1>7 DEF Analysis

\* So do the collector, Start, Stop and a restart, which decide nothing.
LEMMA OtherSteps ==
  ASSUME RuleInv,
         Collect \/ Start \/ Stop \/ AwaitCollector \/ AwaitWorker \/ Crash \/ UNCHANGED vars
  PROVE  RuleInv' /\ UNCHANGED Life!lifeVars
<1> USE DEF RuleInv, disk, locks, Life!lifeVars
<1>1. CASE Collect \/ Start \/ Stop \/ AwaitCollector \/ AwaitWorker \/ UNCHANGED vars
  <2>1. UNCHANGED <<file, installed, archived, pc, request, found, actionMu, storeMu, draft>>
    BY <1>1, BackgroundKeepsCore DEF core, vars
  <2>2. QED
    BY <2>1 DEF CoreTypes, OneHandler, RuleUnderWay, UnderWay, DraftIsFresh, Rule,
               Life!LifeTypeOK
<1>2. CASE Crash
  BY <1>2 DEF Crash, Unlock, CoreTypes, OneHandler, RuleUnderWay, UnderWay, DraftIsFresh,
             Locked, Executing, Life!LifeTypeOK
<1>3. QED
  BY <1>1, <1>2

LEMMA RuleSteps == RuleInv /\ [Next]_vars => RuleInv' /\ [Life!LifeNext]_Life!lifeVars
BY HandlerSteps, AnalysisSteps, OtherSteps DEF Next

\* Handlers, analyses, the collector and restarts in any order take a rule
\* through its life cycle only.
THEOREM RulesLiveTheirLife == Spec => ImplementsRuleLifecycle
<1>1. Init => RuleInv /\ Life!LifeInit
  BY RuleInvInitial DEF Init, Absent, Life!LifeInit
<1>2. QED
  BY <1>1, RuleSteps, PTL DEF Spec, ImplementsRuleLifecycle, Life!LifeSpec

\* Hence a confirmed rule is installed and archived in the running system, and
\* one that is undecided or ignored is neither.
THEOREM DecisionsAreReal == Spec => []Life!DecidedIsReal
BY RulesLiveTheirLife, DecidedRulesAreReal, PTL DEF ImplementsRuleLifecycle

-----------------------------------------------------------------------------
(* Start and Stop.                                                          *)

\* Stop has cancelled whatever was started, and nothing can be started after it;
\* it passes the collector and the worker only when they have ended.
StopInv ==
  /\ stopper # "none" => stopped /\ cancelled = started
  /\ stopper \in {"worker", "returned"} => collector \in {"off", "done"}
  /\ stopper = "returned" => pc[Daily] = "idle"

\* The worker's program counter is its own, and the idle worker starts only when
\* the manager was started and is not cancelled (manager.go:60-113).
LEMMA IdleWorker ==
  ASSUME RuleInv, [Next]_vars, pc[Daily] = "idle", ~(started /\ ~cancelled)
  PROVE  pc'[Daily] = "idle"
<1> USE DEF RuleInv, CoreTypes, Go
<1>1. ASSUME NEW h \in Handlers, Handle(h) PROVE pc'[Daily] = pc[Daily]
  BY <1>1 DEF Handle, Arrive, Lock, Find, Change, Write, Create, Reload, Archive, Return
<1>2. ASSUME NEW a \in Analysts, a # Daily, Analysis(a) PROVE pc'[Daily] = pc[Daily]
  BY <1>2 DEF Analysis, Trigger, GivesUp, Analyze, BeginSave, Save, Publish, SaveReport
<1>3. ~Analysis(Daily)
  BY DEF Analysis, Trigger, GivesUp, Analyze, BeginSave, Save, Publish, SaveReport,
         DraftIsFresh
<1>4. CASE Crash
  BY <1>4 DEF Crash
<1>5. CASE Collect \/ Start \/ Stop \/ AwaitCollector \/ AwaitWorker
  BY <1>5, BackgroundKeepsCore DEF core
<1>6. CASE UNCHANGED vars
  BY <1>6 DEF vars
<1>7. QED
  BY <1>1, <1>2, <1>3, <1>4, <1>5, <1>6 DEF Next

LEMMA StopSteps == RuleInv /\ StopInv /\ [Next]_vars => StopInv'
<1> SUFFICES ASSUME RuleInv, StopInv, [Next]_vars PROVE StopInv'
  OBVIOUS
<1> USE DEF StopInv
<1>1. stopper = "returned" => pc'[Daily] = "idle"
  BY IdleWorker
<1>2. ASSUME NEW h \in Handlers, Handle(h) PROVE StopInv'
  <2>1. UNCHANGED <<collecting, manager>>
    BY <1>2 DEF Handle, Arrive, Lock, Find, Change, Write, Create, Reload, Archive
  <2>2. QED
    BY <1>1, <2>1 DEF collecting, manager
<1>3. ASSUME NEW a \in Analysts, Analysis(a) PROVE StopInv'
  <2>1. UNCHANGED <<collecting, manager>>
    BY <1>3 DEF Analysis, Trigger, GivesUp, Analyze, BeginSave, Save, Publish, SaveReport
  <2>2. QED
    BY <1>1, <2>1 DEF collecting, manager
<1>4. CASE Collect
  BY <1>1, <1>4 DEF Collect, CollectStates, SaveSnapshot, FetchHistory, SaveHistory, Tick,
                    CollectorExit, manager
<1>5. CASE Start
  BY <1>1, <1>5 DEF Start
<1>6. CASE Stop
  BY <1>6 DEF Stop
<1>7. CASE AwaitCollector
  BY <1>7 DEF AwaitCollector, collecting
<1>8. CASE AwaitWorker
  BY <1>8 DEF AwaitWorker, collecting
<1>9. CASE Crash
  BY <1>9 DEF Crash
<1>10. CASE UNCHANGED vars
  BY <1>10 DEF vars, collecting, manager
<1>11. QED
  BY <1>2, <1>3, <1>4, <1>5, <1>6, <1>7, <1>8, <1>9, <1>10 DEF Next

\* Once Stop has returned nothing of the manager runs or starts again.
THEOREM StoppedStaysQuiet == Spec => []QuietAfterStop
<1>1. Init => RuleInv /\ StopInv
  BY RuleInvInitial DEF Init, StopInv
<1>2. RuleInv /\ StopInv /\ [Next]_vars => (RuleInv /\ StopInv)'
  BY RuleSteps, StopSteps
<1>3. StopInv => QuietAfterStop
  BY DEF StopInv, QuietAfterStop
<1>4. QED
  BY <1>1, <1>2, <1>3, PTL DEF Spec

-----------------------------------------------------------------------------
(* Habits.                                                                  *)

\* The days of a habit are counted among days on which it really happened: an
\* entry that stands in several files is one day (analyzer.go:94-154).
LEMMA SuggestedHabits ==
  ASSUME NEW files \in SUBSET Batches, NEW rules \in Suggestions(files), NEW r \in rules,
         r.type = "time"
  PROVE  TrueHabit(r)
<1> DEFINE entries == InWindow(Entries(files))
<1>1. r \in TimeRules(entries)
  BY DEF Suggestions, CorrelationRules, CorrelationRule
<1>2. PICK e \in Binary, hour \in 0 .. DayLength - 1 :
        /\ r = TimeRule(e, hour)
        /\ HitDays(TurnOns(entries, e), hour) >= MinDays
        /\ HighRate(HitDays(TurnOns(entries, e), hour), LookbackDays)
  BY <1>1 DEF TimeRules
<1> DEFINE hits == { x \in Happened : /\ x.entity = r.action /\ SaysOn(x.state)
                                     /\ x.at % DayLength = r.trigger
                                     /\ x.at >= StartTime }
           days == { x.at \div DayLength : x \in hits }
           counted == { Day(x) : x \in { y \in TurnOns(entries, e) : Hour(y) = hour } }
<1>3. counted \subseteq days
  <2>1. ASSUME NEW x \in TurnOns(entries, e), Hour(x) = hour PROVE x.entry \in hits
    <3>1. PICK b \in files : x \in { [file |-> b, entry |-> y] : y \in Contents[b] }
      BY DEF TurnOns, Of, InWindow, Entries
    <3>2. x.entry \in Happened
      BY <3>1 DEF Happened
    <3>3. x.entry.entity = e /\ SaysOn(x.entry.state) /\ x.entry.at \in StartTime .. Now
      BY DEF TurnOns, Of, InWindow
    <3>4. QED
      BY <1>2, <2>1, <3>2, <3>3 DEF Hour, TimeRule
  <2>2. QED
    BY <2>1 DEF Day
<1>4. IsFiniteSet(days)
  <2>1. IsFiniteSet({ Contents[b] : b \in Batches })
    <3> DEFINE f == [b \in Batches |-> Contents[b]]
    <3>1. f \in Surjection(Batches, { Contents[b] : b \in Batches })
      BY DEF Surjection
    <3>2. QED
      BY AnalysisAssumption, <3>1, FS_Surjection
  <2>2. IsFiniteSet(Happened)
    <3>1. \A s \in { Contents[b] : b \in Batches } : IsFiniteSet(s)
      BY AnalysisAssumption
    <3>2. QED
      BY <2>1, <3>1, FS_UNION DEF Happened
  <2>3. IsFiniteSet(hits)
    BY <2>2, FS_Subset
  <2>4. QED
    <3> DEFINE f == [x \in hits |-> x.at \div DayLength]
    <3>1. f \in Surjection(hits, days)
      BY DEF Surjection
    <3> HIDE DEF hits, days, f
    <3>2. QED
      BY <2>3, <3>1, FS_Surjection
<1>5. /\ Cardinality(days) \in Nat /\ Cardinality(counted) \in Nat
      /\ Cardinality(counted) <= Cardinality(days)
  BY <1>3, <1>4, FS_Subset, FS_CardinalityType
<1>6. Cardinality(counted) = HitDays(TurnOns(entries, e), hour)
  BY DEF HitDays
<1>7. Cardinality(days) >= MinDays /\ HighRate(Cardinality(days), LookbackDays)
  BY <1>2, <1>5, <1>6, AnalysisAssumption DEF HighRate
<1>8. QED
  BY <1>7 DEF TrueHabit

\* The collector saves what it fetched, and analyses hold true habits only.
HabitInv ==
  /\ history \subseteq Batches /\ (collector = "write" => batch \in Batches)
  /\ \A a \in Analysts : \A r \in found[a] \ Supported : r.type = "time" => TrueHabit(r)
  /\ HabitsAreTrue

\* A habit enters the file through an analysis, and an analysis finds none but
\* true ones.
LEMMA HabitSteps == RuleInv /\ HabitInv /\ [Next]_vars => HabitInv'
<1> SUFFICES ASSUME RuleInv, HabitInv, [Next]_vars PROVE HabitInv'
  OBVIOUS
<1> USE DEF RuleInv, HabitInv, disk, locks, collecting
<1>1. ASSUME NEW h \in Handlers, Handle(h) PROVE HabitInv'
  <2>1. UNCHANGED <<collecting, found>>
    BY <1>1 DEF Handle, Arrive, Lock, Find, Change, Write, Create, Reload, Archive
  <2>2. CASE Write(h)
    <3>1. /\ file' \in {file, draft} /\ draft = [file EXCEPT ![Rule(h)] = Target(pc[h])]
          /\ ValidTransition(file[Rule(h)], Target(pc[h]))
      BY <2>2 DEF Write, DraftIsFresh
    <3>2. \A r \in Rules : file[r] = "absent" => file'[r] = "absent"
      BY <3>1 DEF ValidTransition, CoreTypes, Life!LifeTypeOK
    <3>3. QED
      BY <2>1, <3>2 DEF HabitsAreTrue
  <2>3. CASE ~Write(h)
    <3>1. file' = file
      BY <1>1, <2>3 DEF Handle, Arrive, Lock, Find, Change, Create, Reload, Archive
    <3>2. QED
      BY <2>1, <3>1 DEF HabitsAreTrue
  <2>4. QED
    BY <2>2, <2>3
<1>2. ASSUME NEW a \in Analysts, Analysis(a) PROVE HabitInv'
  <2>1. UNCHANGED collecting
    BY <1>2 DEF Analysis, Trigger, GivesUp, Analyze, BeginSave, Save, Publish, SaveReport
  <2>2. ASSUME NEW b \in Analysts, NEW r \in found'[b] \ Supported, r.type = "time"
        PROVE  TrueHabit(r)
    <3>1. CASE r \in found[b]
      BY <2>2, <3>1
    <3>2. CASE r \notin found[b]
      <4>1. Analyze(a) /\ b = a
        BY <1>2, <3>2 DEF Analysis, Trigger, GivesUp, Analyze, BeginSave, Save, Publish,
                          SaveReport, CoreTypes
      <4>2. PICK rules \in Suggestions(history) : r \in rules
        <5>1. PICK rules \in Suggestions(history)
                               \cup (IF a = Daily THEN {} ELSE SUBSET Supported) :
                found' = [found EXCEPT ![a] = rules]
          BY <4>1 DEF Analyze
        <5>2. r \in rules
          BY <4>1, <5>1 DEF CoreTypes
        <5>3. QED
          BY <5>1, <5>2
      <4>3. QED
        BY <2>2, <4>2, SuggestedHabits
    <3>3. QED
      BY <3>1, <3>2
  <2>3. HabitsAreTrue'
    <3>1. CASE Save(a)
      <4>1. file' \in {file, Merged(file, found[a])}
        BY <3>1 DEF Save, DraftIsFresh
      <4>2. QED
        BY <4>1 DEF HabitsAreTrue, Merged
    <3>2. CASE ~Save(a)
      <4>1. file' = file
        BY <1>2, <3>2 DEF Analysis, Trigger, GivesUp, Analyze, BeginSave, Publish, SaveReport
      <4>2. QED
        BY <4>1 DEF HabitsAreTrue
    <3>3. QED
      BY <3>1, <3>2
  <2>4. QED
    BY <2>1, <2>2, <2>3
<1>3. CASE Collect \/ Start \/ Stop \/ AwaitCollector \/ AwaitWorker
  <2>1. UNCHANGED <<file, found>>
    BY <1>3, BackgroundKeepsCore DEF core
  <2>2. history' \subseteq Batches /\ (collector' = "write" => batch' \in Batches)
    BY <1>3 DEF Collect, Start, Stop, AwaitCollector, AwaitWorker, CollectStates,
                SaveSnapshot, FetchHistory, SaveHistory, Tick, CollectorExit
  <2>3. QED
    BY <2>1, <2>2 DEF HabitsAreTrue
<1>4. CASE Crash
  BY <1>4 DEF Crash, HabitsAreTrue
<1>5. CASE UNCHANGED vars
  BY <1>5 DEF vars, HabitsAreTrue
<1>6. QED
  BY <1>1, <1>2, <1>3, <1>4, <1>5 DEF Next

\* Whatever the files repeat or lack, a daily habit that is suggested is one.
THEOREM SuggestedHabitsAreTrue == Spec => []HabitsAreTrue
<1>1. Init => RuleInv /\ HabitInv
  BY RuleInvInitial DEF Init, HabitInv, HabitsAreTrue, Absent
<1>2. RuleInv /\ HabitInv /\ [Next]_vars => (RuleInv /\ HabitInv)'
  BY RuleSteps, HabitSteps
<1>3. HabitInv => HabitsAreTrue
  BY DEF HabitInv
<1>4. QED
  BY <1>1, <1>2, <1>3, PTL DEF Spec

-----------------------------------------------------------------------------
(* On-times.                                                                *)

\* A set of subsets of a finite set has a smallest one: induction over a finite
\* set in the form of a least counterexample.
LEMMA LeastSubset ==
  ASSUME NEW S, IsFiniteSet(S)
  PROVE  \A B : B \subseteq SUBSET S /\ B # {} => \E s \in B : \A t \in B : t \subseteq s => t = s
<1> SUFFICES ASSUME NEW B, B \subseteq SUBSET S, B # {}
             PROVE  \E s \in B : \A t \in B : t \subseteq s => t = s
  OBVIOUS
<1>1. IsWellFoundedOn(StrictSubsetOrdering(S), FiniteSubsetsOf(S))
  BY FS_StrictSubsetOrderingWellFounded
<1>2. FiniteSubsetsOf(S) = SUBSET S
  BY FS_FiniteSubsetsOfFinite
<1>3. PICK s \in B : \A t \in B : <<t, s>> \notin StrictSubsetOrdering(S)
  BY <1>1, <1>2, WFMin
<1>4. QED
  BY <1>3 DEF StrictSubsetOrdering

\* A finite family of subsets of a finite set, by its index, has a least one.
LEMMA LeastOfFamily ==
  ASSUME NEW S, IsFiniteSet(S), S # {}, NEW f, \A x \in S : f[x] \in SUBSET S
  PROVE  \E x \in S : \A y \in S : f[y] \subseteq f[x] => f[y] = f[x]
<1> DEFINE Family == { f[x] : x \in S }
<1>1. Family \subseteq SUBSET S /\ Family # {}
  OBVIOUS
<1>2. \E s \in Family : \A t \in Family : t \subseteq s => t = s
  <2> HIDE DEF Family
  <2>1. QED
    BY <1>1, LeastSubset
<1>3. QED
  BY <1>2

FiniteTimes == { S \in SUBSET Int : IsFiniteSet(S) }

\* Min is the least element of a finite set of times.
LEMMA MinIsLeast ==
  ASSUME NEW S \in FiniteTimes, S # {}
  PROVE  Min(S) \in S /\ \A y \in S : Min(S) <= y
<1> DEFINE below == [x \in S |-> { y \in S : y <= x }]
<1>1. PICK x \in S : \A y \in S : below[y] \subseteq below[x] => below[y] = below[x]
  <2>1. \A x \in S : below[x] \in SUBSET S
    OBVIOUS
  <2>2. IsFiniteSet(S)
    BY DEF FiniteTimes
  <2> HIDE DEF below
  <2>3. QED
    BY <2>1, <2>2, LeastOfFamily
<1>2. S \subseteq Int
  BY DEF FiniteTimes
<1>3. ASSUME NEW y \in S PROVE x <= y
  <2> SUFFICES ASSUME y <= x PROVE x <= y
    BY <1>2
  <2>1. \A z \in S : z <= y => z <= x
    BY <1>2
  <2>2. below[y] \subseteq below[x]
    BY <2>1
  <2>3. below[y] = below[x]
    BY <1>1, <2>2
  <2>4. x \in below[x]
    BY <1>2
  <2>5. x \in below[y]
    BY <2>3, <2>4
  <2>6. QED
    BY <2>5
<1>4. \E z \in S : \A y \in S : z =< y
  BY <1>3
<1>5. QED
  BY <1>4 DEF Min

\* What the parts with index in s cover.
Covered(part, s) == UNION { part[x] : x \in s }

\* One part more covers as many elements more as it has.
LEMMA OnePartMore ==
  ASSUME NEW S, IsFiniteSet(S), NEW part, \A x \in S : IsFiniteSet(part[x]),
         \A x, y \in S : x # y => part[x] \cap part[y] = {},
         NEW s \in SUBSET S, NEW x \in s
  PROVE  /\ IsFiniteSet(Covered(part, s)) 
         /\ Cardinality(Covered(part, s)) =
              Cardinality(part[x]) + Cardinality(Covered(part, s \ {x}))
<1>1. ASSUME NEW t \in SUBSET S PROVE IsFiniteSet(Covered(part, t))
  <2> DEFINE T == { part[z] : z \in t }
             f == [z \in t |-> part[z]]
  <2>1. IsFiniteSet(t)
    BY FS_Subset
  <2>2. f \in Surjection(t, T)
    BY DEF Surjection
  <2>3. IsFiniteSet(T)
    BY <2>1, <2>2, FS_Surjection
  <2>4. QED
    BY <2>3, FS_UNION DEF Covered
<1>2. Covered(part, s) = part[x] \cup Covered(part, s \ {x})
  BY DEF Covered
<1>3. part[x] \cap Covered(part, s \ {x}) = {}
  BY DEF Covered
<1>4. IsFiniteSet(Covered(part, s \ {x})) /\ IsFiniteSet(Covered(part, s)) /\ IsFiniteSet(part[x])
  BY <1>1
<1>5. QED
  <2>1. Cardinality(Covered(part, s)) =
          Cardinality(part[x]) + Cardinality(Covered(part, s \ {x})) - Cardinality({})
    <3> DEFINE A == part[x]
               C == Covered(part, s \ {x})
    <3>1. IsFiniteSet(A) /\ IsFiniteSet(C)
      BY <1>4
    <3>2. A \cap C = {}
      BY <1>3
    <3>3. Covered(part, s) = A \cup C
      BY <1>2
    <3> HIDE DEF A, C
    <3>4. Cardinality(A \cup C) = Cardinality(A) + Cardinality(C) - Cardinality(A \cap C)
      BY <3>1, FS_Union
    <3>5. QED
      BY <3>2, <3>3, <3>4 DEF A, C
  <2>2. QED
    BY <1>4, <2>1, FS_EmptySet, FS_CardinalityType

\* The partial sums of size over S, in the order of the folds of the community
\* modules.
Sums(f, S, size) ==
  f = [s \in SUBSET S |-> IF s = {} THEN 0 ELSE
         size[CHOOSE x \in s : TRUE] + f[s \ {CHOOSE x \in s : TRUE}]]

\* The sum of the sizes of disjoint parts is the number of what they cover.
LEMMA SumIsCount ==
  ASSUME NEW S, IsFiniteSet(S), NEW part, \A x \in S : IsFiniteSet(part[x]),
         \A x, y \in S : x # y => part[x] \cap part[y] = {},
         NEW size, \A x \in S : size[x] = Cardinality(part[x])
  PROVE  /\ \E f : Sums(f, S, size)
         /\ \A f : Sums(f, S, size) => f[S] = Cardinality(Covered(part, S))
<1> DEFINE first(s) == CHOOSE x \in s : TRUE
           count == [s \in SUBSET S |-> Cardinality(Covered(part, s))]
<1>1. ASSUME NEW s \in SUBSET S
      PROVE  count[s] = IF s = {} THEN 0 ELSE size[first(s)] + count[s \ {first(s)}]
  <2>1. CASE s = {}
    <3>1. Covered(part, s) = {}
      BY <2>1 DEF Covered
    <3>2. QED
      BY <2>1, <3>1, FS_EmptySet
  <2>2. CASE s # {}
    <3>1. first(s) \in s /\ first(s) \in S
      BY <2>2
    <3>2. Cardinality(Covered(part, s)) =
            Cardinality(part[first(s)]) + Cardinality(Covered(part, s \ {first(s)}))
      <4> HIDE DEF first
      <4>1. QED
        BY <3>1, OnePartMore
    <3>3. s \ {first(s)} \in SUBSET S
      OBVIOUS
    <3>4. QED
      BY <2>2, <3>1, <3>2, <3>3
  <2>3. QED
    BY <2>1, <2>2
<1>2. Sums(count, S, size)
  BY <1>1 DEF Sums
<1>3. ASSUME NEW total, Sums(total, S, size) PROVE total[S] = count[S]
  <2>1. \A s \in SUBSET S :
          total[s] = IF s = {} THEN 0 ELSE size[first(s)] + total[s \ {first(s)}]
    BY <1>3 DEF Sums
  <2> SUFFICES ASSUME total[S] # count[S] PROVE FALSE
    OBVIOUS
  <2> DEFINE Bad == { s \in SUBSET S : total[s] # count[s] }
  <2>2. PICK s \in Bad : \A t \in Bad : t \subseteq s => t = s
    <3>1. S \in Bad /\ Bad \subseteq SUBSET S
      OBVIOUS
    <3> HIDE DEF Bad
    <3>2. QED
      BY <3>1, LeastSubset
  <2> HIDE DEF count, first
  <2>3. s # {}
    <3>1. total[{}] = 0 /\ count[{}] = 0
      BY <1>1, <2>1
    <3>2. QED
      BY <2>2, <3>1
  <2>4. first(s) \in s
    BY <2>3 DEF first
  <2>5. s \ {first(s)} \notin Bad
    BY <2>2, <2>4
  <2>6. total[s \ {first(s)}] = count[s \ {first(s)}]
    BY <2>2, <2>5
  <2>7. QED
    <3>1. s \in SUBSET S /\ total[s] # count[s]
      BY <2>2
    <3>2. /\ total[s] = size[first(s)] + total[s \ {first(s)}]
          /\ count[s] = size[first(s)] + count[s \ {first(s)}]
      BY <1>1, <2>1, <2>3, <3>1
    <3>3. QED
      BY <2>6, <3>1, <3>2
<1>4. QED
  BY <1>2, <1>3

\* What an image of a finite set is.
LEMMA FiniteTimesOf ==
  ASSUME NEW X, IsFiniteSet(X), \A x \in X : At(x) \in Int
  PROVE  { At(x) : x \in X } \in FiniteTimes
<1> DEFINE f == [x \in X |-> At(x)]
<1>1. f \in Surjection(X, { At(x) : x \in X })
  BY DEF Surjection
<1>2. IsFiniteSet({ At(x) : x \in X })
  <2> HIDE DEF f
  <2>1. QED
    BY <1>1, FS_Surjection
<1>3. QED
  BY <1>2 DEF FiniteTimes

\* All that was ever collected is finite.
LEMMA FiniteEntries == IsFiniteSet(Entries(Batches)) /\ \A x \in Entries(Batches) : At(x) \in Int
<1> DEFINE of(b) == { [file |-> b, entry |-> e] : e \in Contents[b] }
           All == { of(b) : b \in Batches }
<1>1. IsFiniteSet(All)
  <2> DEFINE f == [b \in Batches |-> of(b)]
  <2>1. f \in Surjection(Batches, All)
    BY DEF Surjection
  <2>2. IsFiniteSet(Batches)
    BY AnalysisAssumption
  <2> HIDE DEF f, All
  <2>3. QED
    BY <2>1, <2>2, FS_Surjection
<1>2. ASSUME NEW b \in Batches PROVE IsFiniteSet(of(b))
  <2> DEFINE f == [e \in Contents[b] |-> [file |-> b, entry |-> e]]
  <2>1. f \in Surjection(Contents[b], of(b))
    BY DEF Surjection
  <2>2. IsFiniteSet(Contents[b])
    BY AnalysisAssumption
  <2> HIDE DEF f, of
  <2>3. QED
    BY <2>1, <2>2, FS_Surjection
<1>3. IsFiniteSet(UNION All)
  <2>1. \A s \in All : IsFiniteSet(s)
    BY <1>2
  <2> HIDE DEF All
  <2>2. QED
    BY <1>1, <2>1, FS_UNION
<1>4. QED
  BY <1>3, AnalysisAssumption DEF Entries, At

\* The time a device was on, summed over its turn-ons, is the number of ticks of
\* the window in which it was on.
LEMMA OnTimeIsExact ==
  ASSUME NEW e
  PROVE  TotalOnTime(Batches, e) = Cardinality({ t \in StartTime .. Now - 1 : OnAt(e, t) })
<1> DEFINE seen == { x \in Of(Entries(Batches), e) : At(x) <= Now }
           times == { At(x) : x \in { y \in seen : y.entry.state = "on" } }
           until(t) == IF Later(seen, t) = {} THEN Now ELSE Min(Later(seen, t))
           part == [t \in times |-> { u \in StartTime .. Now - 1 : t <= u /\ u < until(t) }]
           size == [t \in times |-> OnInterval(t, until(t))]
<1>1. IsFiniteSet(seen) /\ \A x \in seen : At(x) \in Int
  <2>1. seen \subseteq Entries(Batches)
    BY DEF Of
  <2> HIDE DEF seen
  <2>2. QED
    BY <2>1, FiniteEntries, FS_Subset
<1>2. StartTime \in Int /\ Now \in Int
  BY AnalysisAssumption DEF StartTime
<1>3. times \in FiniteTimes
  <2> DEFINE on == { y \in seen : y.entry.state = "on" }
  <2>1. IsFiniteSet(on) /\ \A x \in on : At(x) \in Int
    <3>1. on \subseteq seen
      OBVIOUS
    <3> HIDE DEF seen, on
    <3>2. QED
      BY <1>1, <3>1, FS_Subset
  <2> HIDE DEF on
  <2>2. { At(x) : x \in on } \in FiniteTimes
    BY <2>1, FiniteTimesOf
  <2>3. QED
    BY <2>2 DEF on
<1>4. ASSUME NEW t \in Int
      PROVE  /\ until(t) \in Int /\ until(t) <= Now
             /\ \A x \in seen : At(x) > t => until(t) <= At(x)
             /\ until(t) # Now => \E x \in seen : At(x) > t /\ until(t) = At(x)
  <2> DEFINE after == { y \in seen : At(y) > t }
  <2>1. IsFiniteSet(after) /\ \A x \in after : At(x) \in Int
    <3>1. after \subseteq seen
      OBVIOUS
    <3> HIDE DEF seen, after
    <3>2. QED
      BY <1>1, <3>1, FS_Subset
  <2>2. Later(seen, t) = { At(x) : x \in after }
    BY DEF Later
  <2>3. Later(seen, t) \in FiniteTimes
    <3> HIDE DEF after
    <3>1. QED
      BY <2>1, <2>2, FiniteTimesOf
  <2>4. CASE Later(seen, t) = {}
    <3>1. \A x \in seen : ~(At(x) > t)
      <4> HIDE DEF seen
      <4>1. QED
        BY <2>4 DEF Later
    <3>2. until(t) = Now
      BY <2>4
    <3> HIDE DEF seen, until
    <3>3. QED
      BY <1>2, <3>1, <3>2
  <2>5. CASE Later(seen, t) # {}
    <3>1. /\ until(t) \in Later(seen, t)
          /\ \A y \in Later(seen, t) : until(t) <= y
      BY <2>3, <2>5, MinIsLeast
    <3>2. QED
      BY <1>1, <3>1 DEF Later
  <2>6. QED
    BY <2>4, <2>5
<1> HIDE DEF until
<1>5. ASSUME NEW ev
      PROVE  (ev \in Happened /\ ev.entity = e /\ ev.at <= Now) <=> \E x \in seen : x.entry = ev
  <2>1. ASSUME ev \in Happened, ev.entity = e, ev.at <= Now
        PROVE  \E x \in seen : x.entry = ev
    <3>1. PICK b \in Batches : ev \in Contents[b]
      BY <2>1 DEF Happened
    <3>2. [file |-> b, entry |-> ev] \in seen
      BY <2>1, <3>1 DEF Entries, Of, At
    <3>3. QED
      BY <3>2
  <2>2. ASSUME NEW x \in seen, x.entry = ev
        PROVE  ev \in Happened /\ ev.entity = e /\ ev.at <= Now
    <3>1. PICK b \in Batches : x \in { [file |-> b, entry |-> y] : y \in Contents[b] }
      BY DEF Of, Entries
    <3>2. QED
      BY <2>2, <3>1 DEF Of, Happened, At
  <2>3. QED
    BY <2>1, <2>2
<1>6. \A t \in times : t \in Int /\ \E x \in seen : At(x) = t /\ x.entry.state = "on"
  BY <1>1
<1>7. ASSUME NEW t \in times
      PROVE  IsFiniteSet(part[t]) /\ size[t] = Cardinality(part[t])
  <2> DEFINE left == IF t < StartTime THEN StartTime ELSE t
  <2>1. t \in Int /\ left \in Int /\ until(t) \in Int /\ until(t) <= Now
    BY <1>2, <1>4, <1>6
  <2>2. part[t] = left .. until(t) - 1
    <3>1. part[t] = { u \in StartTime .. Now - 1 : t <= u /\ u < until(t) }
      OBVIOUS
    <3> HIDE DEF part, times
    <3>2. QED
      BY <1>2, <2>1, <3>1
  <2>3. /\ IsFiniteSet(left .. until(t) - 1)
        /\ Cardinality(left .. until(t) - 1) =
              IF left > until(t) - 1 THEN 0 ELSE until(t) - 1 - left + 1
    <3> HIDE DEF left
    <3>1. until(t) - 1 \in Int
      BY <2>1
    <3>2. QED
      BY <2>1, <3>1, FS_Interval
  <2>4. size[t] = IF until(t) > left THEN until(t) - left ELSE 0
    BY DEF OnInterval
  <2>5. QED
    <3> HIDE DEF left, part, size
    <3>1. QED
      BY <2>1, <2>2, <2>3, <2>4
<1>8. ASSUME NEW s \in times, NEW t \in times, s # t PROVE part[s] \cap part[t] = {}
  <2>1. ASSUME NEW p \in times, NEW q \in times, p < q PROVE until(p) <= q
    BY <1>4, <1>6, <2>1
  <2>2. s < t \/ t < s
    BY <1>6, <1>8
  <2>3. /\ until(s) \in Int /\ until(t) \in Int /\ s \in Int /\ t \in Int
        /\ s < t => until(s) <= t
        /\ t < s => until(t) <= s
    BY <1>4, <1>6, <2>1
  <2>4. QED
    BY <1>2, <2>2, <2>3
<1>9. Covered(part, times) = { u \in StartTime .. Now - 1 : OnAt(e, u) }
  <2>1. ASSUME NEW t \in times, NEW u \in part[t] PROVE OnAt(e, u) /\ u \in StartTime .. Now - 1
    <3>1. u \in StartTime .. Now - 1 /\ t <= u /\ u < until(t)
      OBVIOUS
    <3>2. PICK x \in seen : At(x) = t /\ x.entry.state = "on"
      BY <1>6
    <3>3. x.entry \in Happened /\ x.entry.entity = e /\ x.entry.at = t
      BY <1>5, <3>2 DEF At
    <3>4. ASSUME NEW y \in Happened, y.entity = e, y.at <= u PROVE y.at <= t
      <4>1. y.at \in Int
        BY AnalysisAssumption DEF Happened
      <4>2. PICK z \in seen : z.entry = y
        BY <1>2, <1>5, <3>1, <3>4, <4>1
      <4>3. At(z) = y.at
        BY <4>2 DEF At
      <4>4. t \in Int /\ until(t) \in Int /\ (y.at > t => until(t) <= y.at)
        BY <1>4, <1>6, <4>3
      <4>5. QED
        BY <1>2, <3>1, <3>4, <4>1, <4>4
    <3>5. QED
      BY <3>1, <3>2, <3>3, <3>4 DEF OnAt
  <2>2. ASSUME NEW u \in StartTime .. Now - 1, OnAt(e, u) PROVE \E t \in times : u \in part[t]
    <3>1. PICK ev \in Happened :
            /\ ev.entity = e /\ ev.state = "on" /\ ev.at <= u
            /\ \A y \in Happened : y.entity = e /\ y.at <= u => y.at <= ev.at
      BY <2>2 DEF OnAt
    <3>2. ev.at \in Int
      BY AnalysisAssumption DEF Happened
    <3>3. PICK x \in seen : x.entry = ev
      BY <1>2, <1>5, <3>1, <3>2
    <3> DEFINE t == ev.at
    <3>4. t \in times
      BY <3>1, <3>3 DEF At
    <3>5. u < until(t)
      <4>1. ASSUME NEW z \in seen, At(z) > t, until(t) = At(z) PROVE u < until(t)
        <5>1. z.entry \in Happened /\ z.entry.entity = e /\ z.entry.at = At(z)
          BY <1>5 DEF At
        <5>2. ~(At(z) <= u)
          BY <1>1, <3>1, <3>2, <4>1, <5>1
        <5>3. QED
          BY <1>1, <1>2, <4>1, <5>2
      <4>2. CASE until(t) = Now
        BY <1>2, <4>2
      <4>3. QED
        BY <1>4, <3>2, <4>1, <4>2
    <3>6. u \in part[t]
      BY <3>1, <3>4, <3>5
    <3>7. QED
      BY <3>4, <3>6
  <2>3. QED
    <3>1. \A t \in times : \A u \in part[t] : OnAt(e, u) /\ u \in StartTime .. Now - 1
      BY <2>1
    <3>2. \A u \in StartTime .. Now - 1 : OnAt(e, u) => \E t \in times : u \in part[t]
      BY <2>2
    <3> HIDE DEF part, times
    <3>3. QED
      BY <3>1, <3>2 DEF Covered
<1> DEFINE first(s) == CHOOSE t \in s : TRUE
           OnSums(f) == f = [s \in SUBSET times |-> IF s = {} THEN 0 ELSE
                             OnInterval(first(s), until(first(s))) + f[s \ {first(s)}]]
<1>10. /\ \E f : Sums(f, times, size)
       /\ \A f : Sums(f, times, size) => f[times] = Cardinality(Covered(part, times))
  <2> HIDE DEF part, size, times
  <2>1. \A x \in times : IsFiniteSet(part[x]) /\ size[x] = Cardinality(part[x])
    BY <1>7
  <2>2. \A x, y \in times : x # y => part[x] \cap part[y] = {}
    BY <1>8
  <2>3. IsFiniteSet(times)
    BY <1>3 DEF FiniteTimes
  <2>4. QED
    BY <2>1, <2>2, <2>3, SumIsCount
<1>11. ASSUME NEW f PROVE OnSums(f) <=> Sums(f, times, size)
  <2>1. ASSUME NEW s \in SUBSET times, s # {}
        PROVE  OnInterval(first(s), until(first(s))) = size[first(s)]
    <3>1. first(s) \in times
      BY <2>1
    <3> HIDE DEF first
    <3>2. QED
      BY <3>1
  <2>2. Sums(f, times, size) <=>
          f = [s \in SUBSET times |-> IF s = {} THEN 0 ELSE size[first(s)] + f[s \ {first(s)}]]
    <3> HIDE DEF size, times
    <3>1. QED
      BY DEF Sums
  <2> HIDE DEF first, size, times
  <2>3. QED
    BY <2>1, <2>2
<1>12. TotalOnTime(Batches, e) = (CHOOSE f : OnSums(f))[times]
  BY DEF TotalOnTime, MapThenSumSet, MapThenFoldSet, until
<1>13. QED
  <2> HIDE DEF OnSums, size, part, times
  <2>1. OnSums(CHOOSE f : OnSums(f))
    BY <1>10, <1>11
  <2>2. QED
    BY <1>9, <1>10, <1>11, <1>12, <2>1

\* With all of the collections each device's on-time is exact (analyzer.go:35).
LEMMA AllOnTimesAreExact == OnTimesAreExact
BY OnTimeIsExact DEF OnTimesAreExact

\* What the analyzer says of the devices is true of what happened: the habits it
\* suggests and, with all of the collections, the time each device was on
\* (analyzer.go:35-154).
THEOREM FindingsAreCorrect == Spec => []FindingsAreTrue
<1>1. HabitsAreTrue => FindingsAreTrue
  BY AllOnTimesAreExact DEF FindingsAreTrue
<1>2. QED
  BY <1>1, SuggestedHabitsAreTrue, PTL

-----------------------------------------------------------------------------
(* Types.                                                                   *)

LEMMA TypeSteps == RuleInv /\ HabitInv /\ SmartTypeOK /\ [Next]_vars => SmartTypeOK'
<1> SUFFICES ASSUME RuleInv, HabitInv, SmartTypeOK, [Next]_vars PROVE SmartTypeOK'
  OBVIOUS
<1> USE DEF SmartTypeOK, disk, locks, collecting, manager, Go, Input, Unlock, Return
<1>1. RuleInv' /\ HabitInv'
  BY RuleSteps, HabitSteps
<1>2. Life!LifeTypeOK' /\ (storeMu \in Procs \cup {None})'
  BY <1>1 DEF RuleInv, CoreTypes
<1>3. ASSUME NEW f \in [Rules -> Life!Statuses] PROVE f # None
  BY <1>3, DraftAssumption
<1>4. ASSUME NEW h \in Handlers, Handle(h) PROVE SmartTypeOK'
  <2>1. CASE Arrive(h) \/ Lock(h) \/ Find(h) \/ Create(h) \/ Reload(h) \/ Archive(h)
    BY <1>2, <1>4, <2>1 DEF Arrive, Lock, Find, Create, Reload, Archive
  <2>2. CASE Write(h)
    BY <1>2, <2>2 DEF Write
  <2>3. CASE Change(h)
    <3>1. storeMu' = h => draft' \in [Rules -> Life!Statuses]
      BY <2>3 DEF Change, Life!LifeTypeOK, Target, Life!Statuses
    <3>2. QED
      BY <1>2, <1>3, <2>3, <3>1 DEF Change
  <2>4. QED
    BY <1>4, <2>1, <2>2, <2>3 DEF Handle
<1>5. ASSUME NEW a \in Analysts, Analysis(a) PROVE SmartTypeOK'
  <2>1. CASE Trigger(a) \/ GivesUp(a) \/ Publish(a) \/ SaveReport(a)
    BY <1>2, <2>1 DEF Trigger, GivesUp, Publish, SaveReport
  <2>2. CASE Analyze(a)
    <3>1. \A rules \in Suggestions(history) \cup SUBSET Supported : rules \in SUBSET Rules
      BY DEF HabitInv
    <3>2. QED
      BY <1>2, <2>2, <3>1 DEF Analyze
  <2>3. CASE Save(a)
    BY <1>2, <2>3 DEF Save
  <2>4. CASE BeginSave(a)
    <3>1. draft' \in [Rules -> Life!Statuses]
      BY <2>4 DEF BeginSave, Merged, Life!LifeTypeOK, Life!Statuses
    <3>2. QED
      BY <1>2, <1>3, <2>4, <3>1 DEF BeginSave
  <2>5. QED
    BY <1>5, <2>1, <2>2, <2>3, <2>4 DEF Analysis
<1>6. CASE Collect
  BY <1>1, <1>2, <1>6 DEF Collect, CollectStates, SaveSnapshot, FetchHistory, SaveHistory,
                          Tick, CollectorExit, HabitInv
<1>7. CASE Start \/ Stop \/ AwaitCollector \/ AwaitWorker
  BY <1>2, <1>7 DEF Start, Stop, AwaitCollector, AwaitWorker
<1>8. CASE Crash
  <2>1. /\ pc' = [p \in Procs |-> "idle"] /\ request' = [h \in Handlers |-> None]
        /\ found' = [a \in Analysts |-> {}]
        /\ UNCHANGED <<history, inputs>> /\ crashes' \in 0 .. MaxCrashes
        /\ actionMu' = None /\ storeMu' = None /\ draft' = None
    BY <1>8 DEF Crash
  <2>2. /\ collector' = "off" /\ batch' = None /\ stopper' = "none"
        /\ started' = FALSE /\ stopped' = FALSE /\ cancelled' = FALSE
    BY <1>8 DEF Crash
  <2>3. QED
    BY <1>2, <2>1, <2>2
<1>9. CASE UNCHANGED vars
  BY <1>2, <1>9 DEF vars
<1>10. QED
  BY <1>4, <1>5, <1>6, <1>7, <1>8, <1>9 DEF Next

\* Every variable keeps its type, and the store's draft is there exactly while its
\* lock is held.
THEOREM SmartHomeTypes == Spec => []SmartTypeOK
<1>1. Init => RuleInv /\ HabitInv /\ SmartTypeOK
  <2> SUFFICES ASSUME Init PROVE RuleInv /\ HabitInv /\ SmartTypeOK
    OBVIOUS
  <2>1. RuleInv
    BY RuleInvInitial
  <2>2. HabitInv
    BY DEF Init, HabitInv, HabitsAreTrue, Absent
  <2>3. SmartTypeOK
    <3>1. Life!LifeTypeOK
      BY DEF Init, Absent, Life!LifeTypeOK, Life!Statuses
    <3>2. pc \in [Procs -> {"idle"}] /\ request \in [Handlers -> {None}]
      BY DEF Init
    <3>3. found \in [Analysts -> SUBSET Rules]
      BY DEF Init
    <3>4. inputs \in 0 .. MaxInputs /\ crashes \in 0 .. MaxCrashes
      BY DEF Init
    <3>5. QED
      BY <3>1, <3>2, <3>3, <3>4 DEF Init, SmartTypeOK
  <2>4. QED
    BY <2>1, <2>2, <2>3
<1>2. RuleInv /\ HabitInv /\ SmartTypeOK /\ [Next]_vars => (RuleInv /\ HabitInv /\ SmartTypeOK)'
  BY RuleSteps, HabitSteps, TypeSteps
<1>3. QED
  BY <1>1, <1>2, PTL DEF Spec

================================================================================
