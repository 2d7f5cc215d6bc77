----------------------------- MODULE ChannelsProofs -----------------------------
(***************************************************************************)
(* Theorems about Channels, for every set of messages, every number of     *)
(* deliveries of each, and every capacity of the two queues.               *)
(***************************************************************************)
EXTENDS Channels, FiniteSetTheorems, TLAPS

USE ChannelAssumption

-----------------------------------------------------------------------------
(* How often an entry stands in a queue.                                    *)

Spots(queue, d) == { i \in DOMAIN queue : queue[i] = d }

LEMMA CountSpots == \A queue, d : Count(queue, d) = Cardinality(Spots(queue, d))
BY DEF Count, Spots

LEMMA SpotsFinite ==
  ASSUME NEW S, NEW queue \in Seq(S), NEW d
  PROVE  IsFiniteSet(Spots(queue, d)) /\ Count(queue, d) \in Nat
<1>1. Spots(queue, d) \in SUBSET (1 .. Len(queue)) /\ Len(queue) \in Int
  BY DEF Spots
<1>2. IsFiniteSet(1 .. Len(queue))
  BY <1>1, FS_Interval
<1>3. IsFiniteSet(Spots(queue, d))
  BY <1>1, <1>2, FS_Subset
<1>4. QED
  BY <1>3, FS_CardinalityType, CountSpots

LEMMA CountEmpty == \A d : Count(<<>>, d) = 0
<1>1. \A d : { i \in DOMAIN <<>> : <<>>[i] = d } = {}
  OBVIOUS
<1>2. QED
  BY <1>1, FS_EmptySet DEF Count

LEMMA CountAppend ==
  ASSUME NEW S, NEW queue \in Seq(S), NEW e \in S, NEW d
  PROVE  Count(Append(queue, e), d) = Count(queue, d) + (IF e = d THEN 1 ELSE 0)
<1> DEFINE n == Len(queue) + 1
<1>1. /\ DOMAIN queue = 1 .. Len(queue) /\ DOMAIN Append(queue, e) = 1 .. n
      /\ Len(queue) \in Nat /\ Append(queue, e)[n] = e
      /\ \A i \in 1 .. Len(queue) : Append(queue, e)[i] = queue[i]
  OBVIOUS
<1>2. IsFiniteSet(Spots(queue, d)) /\ Count(queue, d) \in Nat
  BY SpotsFinite
<1>3. CASE e = d
  <2>1. Spots(Append(queue, e), d) = Spots(queue, d) \cup {n} /\ n \notin Spots(queue, d)
    BY <1>1, <1>3 DEF Spots
  <2>2. Cardinality(Spots(queue, d) \cup {n}) = Cardinality(Spots(queue, d)) + 1
    BY <1>2, <2>1, FS_AddElement
  <2>3. QED
    BY <1>3, <2>1, <2>2, CountSpots
<1>4. CASE e # d
  <2>1. Spots(Append(queue, e), d) = Spots(queue, d)
    BY <1>1, <1>4 DEF Spots
  <2>2. QED
    BY <1>2, <1>4, <2>1, CountSpots
<1>5. QED
  BY <1>3, <1>4

LEMMA CountTail ==
  ASSUME NEW S, NEW queue \in Seq(S), queue # <<>>, NEW d
  PROVE  Count(queue, d) = Count(Tail(queue), d) + (IF Head(queue) = d THEN 1 ELSE 0)
<1>1. /\ Tail(queue) \in Seq(S) /\ Head(queue) = queue[1] /\ Len(queue) \in Nat \ {0}
      /\ DOMAIN queue = 1 .. Len(queue) /\ DOMAIN Tail(queue) = 1 .. (Len(queue) - 1)
      /\ \A i \in 1 .. (Len(queue) - 1) : Tail(queue)[i] = queue[i + 1]
  OBVIOUS
<1> DEFINE here == Spots(Tail(queue), d)
           there == Spots(queue, d) \ {1}
           f == [i \in here |-> i + 1]
<1>2. f \in Bijection(here, there)
  <2>1. \A i \in here : i \in Int /\ i + 1 \in there
    BY <1>1 DEF Spots
  <2>2. \A j \in there : j \in Int /\ j - 1 \in here
    BY <1>1 DEF Spots
  <2>3. \A j \in there : j = (j - 1) + 1
    BY <2>2
  <2> HIDE DEF here, there
  <2>4. f \in [here -> there] /\ \A i, j \in here : f[i] = f[j] => i = j
    BY <2>1
  <2>5. \A j \in there : \E i \in here : f[i] = j
    BY <2>2, <2>3
  <2>6. QED
    BY <2>4, <2>5 DEF Bijection, Injection, Surjection, IsInjective
<1>3. IsFiniteSet(here) /\ IsFiniteSet(Spots(queue, d)) /\ Count(queue, d) \in Nat
  BY <1>1, SpotsFinite
<1> HIDE DEF f
<1>4. Cardinality(there) = Cardinality(here)
  BY <1>2, <1>3, FS_Bijection DEF ExistsBijection
<1>5. Cardinality(there) = IF 1 \in Spots(queue, d) THEN Cardinality(Spots(queue, d)) - 1
                           ELSE Cardinality(Spots(queue, d))
  BY <1>3, FS_RemoveElement
<1>6. 1 \in Spots(queue, d) <=> Head(queue) = d
  BY <1>1 DEF Spots
<1>7. QED
  BY <1>3, <1>4, <1>5, <1>6, CountSpots

-----------------------------------------------------------------------------
(* The pipeline.                                                            *)

\* The types of what a delivery passes through.
Pipeline ==
  /\ inbound \in Seq(Deliveries) /\ merged \in Seq(Deliveries)
  /\ moving \in Deliveries \cup {None}
  /\ fanIn \in BOOLEAN /\ cancelled \in BOOLEAN
  /\ request = [d \in Deliveries |-> request[d]]
  /\ pc = [p \in Deliveries \cup {AutoRefresh} |-> pc[p]]
  /\ \A d \in Deliveries : request[d] = "queueing" => d[1] \in Allowed

Counted(d) == Count(inbound, d) \in Nat /\ Count(merged, d) \in Nat

LEMMA Counting ==
  ASSUME Pipeline, NEW d
  PROVE  Counted(d) /\ Places(d) \in Nat
<1>1. Counted(d)
  BY SpotsFinite DEF Counted, Pipeline
<1>2. QED
  BY <1>1 DEF Counted, Places

LEMMA PipelineSteps == Pipeline /\ [Next]_vars => Pipeline'
<1> SUFFICES ASSUME Pipeline, [Next]_vars PROVE Pipeline'
  OBVIOUS
<1> USE DEF Pipeline, queues, tokens
<1>1. ASSUME NEW d \in Deliveries, Callback(d) PROVE Pipeline'
  <2>1. CASE Deliver(d)
    <3>1. PICK r \in {"refused", IF d[1] \in Allowed THEN "queueing" ELSE "acked"} :
            request' = [request EXCEPT ![d] = r]
      BY <2>1 DEF Deliver
    <3>2. QED
      BY <2>1, <3>1 DEF Deliver
  <2>2. CASE Enqueue(d)
    <3>1. Append(inbound, d) \in Seq(Deliveries)
      OBVIOUS
    <3>2. QED
      BY <2>2, <3>1 DEF Enqueue
  <2>3. CASE GiveUp(d)
    BY <2>3 DEF GiveUp
  <2>4. QED
    BY <1>1, <2>1, <2>2, <2>3 DEF Callback
<1>2. ASSUME NEW d \in Deliveries, Handler(d) PROVE Pipeline'
  BY <1>2 DEF Handler, Reply, GetToken, BeginRefresh, Fetch, Send, Refreshed, NotRefreshed, Go
<1>3. CASE Take
  BY <1>3 DEF Take
<1>4. CASE Forward
  BY <1>4 DEF Forward
<1>5. CASE Dispatch
  <2>1. Head(merged) \in Deliveries /\ Tail(merged) \in Seq(Deliveries)
    BY <1>5 DEF Dispatch
  <2>2. QED
    BY <1>5, <2>1 DEF Dispatch, Go
<1>6. CASE FanInExit \/ LoopExit \/ RunReturn \/ Cancel \/ Expire
  BY <1>6 DEF FanInExit, LoopExit, RunReturn, Cancel, Expire
<1>7. CASE Refresher
  BY <1>7 DEF Refresher, Tick, BeginRefresh, Fetch, Refreshed, NotRefreshed, Go
<1>8. CASE UNCHANGED vars
  BY <1>8 DEF vars
<1>9. QED
  BY <1>1, <1>2, <1>3, <1>4, <1>5, <1>6, <1>7, <1>8 DEF Next

\* A step that moves a delivery neither into the pipeline nor out of it.
LEMMA Staying ==
  ASSUME Pipeline, AckedIsKept, UNCHANGED <<request, queues>>,
         \A d \in Deliveries : pc'[d] = "none" <=> pc[d] = "none", cancelled => cancelled'
  PROVE  AckedIsKept'
<1>1. \A d \in Deliveries : Places(d)' = Places(d)
  BY DEF Places, queues
<1>2. QED
  BY <1>1 DEF AckedIsKept

LEMMA CallbackKeeps ==
  ASSUME Pipeline, AckedIsKept, NEW d \in Deliveries, Callback(d)
  PROVE  AckedIsKept'
<1>1. CASE Deliver(d)
  <2>1. \A e \in Deliveries : Places(e)' = Places(e)
    BY <1>1 DEF Deliver, Places, queues
  <2>2. /\ \A e \in Deliveries : e # d => request'[e] = request[e]
        /\ request[d] = "none" /\ (request'[d] = "acked" => d[1] \notin Allowed)
        /\ UNCHANGED cancelled
    BY <1>1 DEF Deliver, Pipeline
  <2>3. QED
    BY <2>1, <2>2 DEF AckedIsKept
<1>2. CASE GiveUp(d)
  <2>1. \A e \in Deliveries : Places(e)' = Places(e)
    BY <1>2 DEF GiveUp, Places, queues
  <2>2. /\ \A e \in Deliveries : e # d => request'[e] = request[e]
        /\ request[d] = "queueing" /\ request'[d] = "gone" /\ UNCHANGED cancelled
    BY <1>2 DEF GiveUp, Pipeline
  <2>3. QED
    BY <2>1, <2>2 DEF AckedIsKept
<1>3. CASE Enqueue(d)
  <2>1. /\ \A e \in Deliveries : e # d => request'[e] = request[e]
        /\ request[d] = "queueing" /\ request'[d] = "acked"
        /\ inbound' = Append(inbound, d) /\ UNCHANGED <<moving, merged, pc, cancelled>>
    BY <1>3 DEF Enqueue, Pipeline
  <2>2. \A e \in Deliveries : Count(inbound', e) = Count(inbound, e) + (IF d = e THEN 1 ELSE 0)
    BY <2>1, CountAppend DEF Pipeline
  <2>3. \A e \in Deliveries : Places(e)' = Places(e) + (IF d = e THEN 1 ELSE 0)
    BY <2>1, <2>2, Counting DEF Places, Counted
  <2>4. Places(d) = 0
    BY <2>1 DEF AckedIsKept
  <2>5. Places(d)' = 1 /\ \A e \in Deliveries : e # d => Places(e)' = Places(e)
    BY <2>3, <2>4, Counting
  <2>6. QED
    BY <2>1, <2>5 DEF AckedIsKept, Pipeline
<1>4. QED
  BY <1>1, <1>2, <1>3 DEF Callback

\* A delivery changes its place.
LEMMA MovesKeep ==
  ASSUME Pipeline, AckedIsKept, Take \/ Forward \/ Dispatch
  PROVE  AckedIsKept'
<1>1. UNCHANGED <<request, cancelled>>
  BY DEF Take, Forward, Dispatch
<1>2. CASE Take
  <2>1. /\ moving = None /\ moving' = Head(inbound) /\ inbound' = Tail(inbound)
        /\ inbound # <<>> /\ Head(inbound) \in Deliveries /\ UNCHANGED <<merged, pc>>
    BY <1>2 DEF Take, Pipeline
  <2>2. \A d \in Deliveries :
          Count(inbound, d) = Count(inbound', d) + (IF Head(inbound) = d THEN 1 ELSE 0)
    BY <2>1, CountTail DEF Pipeline
  <2>3. \A d \in Deliveries : Count(inbound', d) \in Nat /\ Counted(d)
    <3>1. inbound' \in Seq(Deliveries)
      BY <2>1 DEF Pipeline
    <3>2. \A d \in Deliveries : Count(inbound', d) \in Nat
      BY <3>1, SpotsFinite
    <3>3. QED
      BY <3>2, Counting
  <2>4. \A d \in Deliveries : Places(d)' = Places(d)
    BY <2>1, <2>2, <2>3 DEF Places, Counted
  <2>5. QED
    BY <1>1, <2>4 DEF AckedIsKept
<1>3. CASE Forward
  <2>1. /\ moving \in Deliveries /\ moving' = None /\ merged' = Append(merged, moving)
        /\ UNCHANGED <<inbound, pc>>
    BY <1>3 DEF Forward, Pipeline
  <2>2. \A d \in Deliveries :
          Count(merged', d) = Count(merged, d) + (IF moving = d THEN 1 ELSE 0)
    BY <2>1, CountAppend DEF Pipeline
  <2>3. \A d \in Deliveries : Count(inbound, d) \in Nat /\ Count(merged, d) \in Nat
    BY Counting DEF Counted
  <2>4. \A d \in Deliveries : Places(d)' = Places(d)
    BY <2>1, <2>2, <2>3 DEF Places
  <2>5. QED
    BY <1>1, <2>4 DEF AckedIsKept
<1>4. CASE Dispatch
  <2> DEFINE h == Head(merged)
  <2>1. /\ merged # <<>> /\ h \in Deliveries /\ merged' = Tail(merged)
        /\ pc' = [pc EXCEPT ![h] = "answer"] /\ UNCHANGED <<inbound, moving>>
    BY <1>4 DEF Dispatch, Go, Pipeline
  <2>2. \A d \in Deliveries : Count(merged, d) = Count(merged', d) + (IF h = d THEN 1 ELSE 0)
    BY <2>1, CountTail DEF Pipeline
  <2>3. /\ \A d \in Deliveries : Count(merged', d) \in Nat /\ Counted(d)
        /\ \A d \in Deliveries : Places(d) \in {0, 1}
    <3>1. merged' \in Seq(Deliveries)
      BY <2>1 DEF Pipeline
    <3>2. \A d \in Deliveries : Count(merged', d) \in Nat
      BY <3>1, SpotsFinite
    <3>3. QED
      BY <3>2, Counting DEF AckedIsKept
  <2>4. pc[h] = "none"
    BY <2>1, <2>2, <2>3 DEF Places, Counted
  <2>5. pc'[h] = "answer" /\ \A d \in Deliveries : d # h => pc'[d] = pc[d]
    BY <2>1 DEF Pipeline
  <2>6. ASSUME NEW d \in Deliveries PROVE Places(d)' = Places(d)
    <3> DEFINE placed == Count(inbound, d) + Count(merged, d) + (IF moving = d THEN 1 ELSE 0)
    <3>1. placed \in Nat /\ placed' \in Nat /\ placed = placed' + (IF h = d THEN 1 ELSE 0)
      BY <2>1, <2>2, <2>3 DEF Counted
    <3>2. /\ Places(d) = placed + (IF pc[d] = "none" THEN 0 ELSE 1)
          /\ Places(d)' = placed' + (IF pc'[d] = "none" THEN 0 ELSE 1)
      BY DEF Places
    <3> HIDE DEF placed
    <3>3. QED
      BY <2>4, <2>5, <3>1, <3>2
  <2>7. QED
    BY <1>1, <2>6 DEF AckedIsKept
<1>5. QED
  BY <1>2, <1>3, <1>4

\* The fan-in drops what it holds only when the agent is being stopped.
LEMMA ExitKeeps ==
  ASSUME Pipeline, AckedIsKept, FanInExit
  PROVE  AckedIsKept'
<1>1. cancelled /\ moving' = None /\ UNCHANGED <<request, inbound, merged, pc, cancelled>>
  BY DEF FanInExit
<1>2. \A d \in Deliveries : Places(d)' \in {Places(d), Places(d) - 1} /\ Places(d)' \in Nat
  BY <1>1, Counting DEF Places, Counted
<1>3. \A d \in Deliveries : Places(d) \in {0, 1}
  BY DEF AckedIsKept
<1>4. \A d \in Deliveries : Places(d)' = Places(d) \/ (Places(d)' = 0 /\ Places(d) = 1)
  BY <1>2, <1>3
<1>5. QED
  BY <1>1, <1>4 DEF AckedIsKept

LEMMA KeptSteps == Pipeline /\ AckedIsKept /\ [Next]_vars => AckedIsKept'
<1> SUFFICES ASSUME Pipeline, AckedIsKept, [Next]_vars PROVE AckedIsKept'
  OBVIOUS
<1>1. ASSUME NEW d \in Deliveries, Handler(d) PROVE AckedIsKept'
  <2>1. /\ UNCHANGED <<request, queues, cancelled>> /\ pc[d] # "none"
        /\ \E to \in {"token", "done", "send", "refresh", "fetch", "wait"} : Go(d, to)
    BY <1>1 DEF Handler, Reply, GetToken, BeginRefresh, Fetch, Send, Refreshed, NotRefreshed
  <2>2. \A e \in Deliveries : pc'[e] = "none" <=> pc[e] = "none"
    BY <2>1 DEF Go, Pipeline
  <2>3. QED
    BY <2>1, <2>2, Staying
<1>2. CASE Refresher
  <2>1. UNCHANGED <<request, queues, cancelled>> /\ \E to : Go(AutoRefresh, to)
    BY <1>2 DEF Refresher, Tick, BeginRefresh, Fetch, Refreshed, NotRefreshed
  <2>2. \A e \in Deliveries : pc'[e] = pc[e]
    BY <2>1 DEF Go, Pipeline
  <2>3. QED
    BY <2>1, <2>2, Staying
<1>3. CASE LoopExit \/ RunReturn \/ Cancel \/ Expire \/ UNCHANGED vars
  BY <1>3, Staying DEF LoopExit, RunReturn, Cancel, Expire, vars, queues
<1>4. QED
  BY <1>1, <1>2, <1>3, CallbackKeeps, MovesKeep, ExitKeeps DEF Next

\* An acknowledged message of an allowed user is in a queue or has its goroutine,
\* once, until the agent is stopped; of the others none is handled
\* (handleMessage acknowledges after it has queued, Run starts one goroutine).
THEOREM AckedMessagesAreKept == Spec => []AckedIsKept
<1>1. Init => Pipeline /\ AckedIsKept
  <2> SUFFICES ASSUME Init PROVE Pipeline /\ AckedIsKept
    OBVIOUS
  <2>1. Pipeline
    <3>1. <<>> \in Seq(Deliveries)
      OBVIOUS
    <3>2. \A d \in Deliveries : request[d] = "none"
      BY DEF Init
    <3>3. QED
      BY <3>1, <3>2 DEF Init, Pipeline
  <2>2. \A d \in Deliveries : pc[d] = "none" /\ request[d] = "none" /\ moving # d
    BY DEF Init
  <2>3. \A d \in Deliveries : Places(d) = 0
    BY <2>2, CountEmpty DEF Init, Places
  <2>4. QED
    BY <2>1, <2>2, <2>3 DEF AckedIsKept
<1>2. Pipeline /\ AckedIsKept /\ [Next]_vars => (Pipeline /\ AckedIsKept)'
  BY PipelineSteps, KeptSteps
<1>3. QED
  BY <1>1, <1>2, PTL DEF Spec

================================================================================
