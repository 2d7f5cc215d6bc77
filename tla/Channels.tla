-------------------------------- MODULE Channels --------------------------------
(***************************************************************************)
(* A message's way through go-agent/internal/channel: the callback of      *)
(* WeCom (channel/wecom), its queue, the fan-in of channel.Manager.Run,    *)
(* one goroutine per message, and the reply, for which all of them share   *)
(* one access token.  What the agent does with a message is module         *)
(* AgentLoop; here it takes some time and has a reply or none.             *)
(***************************************************************************)
EXTENDS Naturals, Sequences, FiniteSets

CONSTANTS
  None,
  Messages,
  Allowed,     \* those of users in allowed_users
  Times,       \* bound: how often the platform delivers each message
  InboundCap,  \* capacity of Adapter.msgCh
  MergedCap,   \* capacity of Run's merged channel
  AutoRefresh  \* the goroutine of StartAutoRefresh

Deliveries == UNION { {m} \X (1 .. Times[m]) : m \in Messages }

ASSUME ChannelAssumption ==
  /\ Allowed \subseteq Messages
  /\ Times \in [Messages -> Nat]
  /\ {InboundCap, MergedCap} \subseteq Nat \ {0}
  /\ None \notin Deliveries /\ AutoRefresh \notin Deliveries \cup {None}

VARIABLES
  request,   \* [Deliveries -> state of its HTTP request]
  inbound,   \* Adapter.msgCh
  moving,    \* what the fan-in goroutine has taken, or None
  fanIn,     \* whether that goroutine runs
  merged,
  pc,        \* [Deliveries and AutoRefresh -> where its goroutine is]
  token,     \* TokenManager.token: "none", "valid" or "expired"
  tokenMu,   \* who holds its mutex for writing, or None
  cancelled, \* the context of Run
  run        \* Manager.Run: "on", "waiting" for its goroutines, "returned"

queues == <<inbound, moving, fanIn, merged>>
tokens == <<token, tokenMu>>
vars == <<request, queues, pc, tokens, cancelled, run>>

Init ==
  /\ request = [d \in Deliveries |-> "none"]
  /\ inbound = <<>> /\ moving = None /\ fanIn = TRUE /\ merged = <<>>
  /\ pc = [p \in Deliveries \cup {AutoRefresh} |-> IF p = AutoRefresh THEN "wait" ELSE "none"]
  /\ token = "none" /\ tokenMu = None
  /\ cancelled = FALSE /\ run = "on"

Go(p, label) == pc' = [pc EXCEPT ![p] = label]

-----------------------------------------------------------------------------
(* The callback: handleMessage.                                             *)

\* The platform (external) delivers a message again after a refusal, or when it
\* has not had the acknowledgement in time; the server is shut down with the
\* agent. A body that cannot be read, parsed, verified or decrypted is refused,
\* that of a user who is not allowed is acknowledged and forgotten.
Deliver(d) ==
  /\ ~cancelled
  /\ request[d] = "none"
  /\ d[2] > 1 => request[<<d[1], d[2] - 1>>] \in {"refused", "gone", "acked"}
  /\ request' \in { [request EXCEPT ![d] = r] :
                      r \in {"refused", IF d[1] \in Allowed THEN "queueing" ELSE "acked"} }
  /\ UNCHANGED <<queues, pc, tokens, cancelled, run>>

\* A variant of Enqueue: a full queue is acknowledged as well.
EnqueueOrDrop(d) ==
  /\ request[d] = "queueing"
  /\ inbound' = IF Len(inbound) < InboundCap THEN Append(inbound, d) ELSE inbound
  /\ request' = [request EXCEPT ![d] = "acked"]
  /\ UNCHANGED <<moving, fanIn, merged, pc, tokens, cancelled, run>>

Enqueue(d) ==
  /\ request[d] = "queueing" /\ Len(inbound) < InboundCap
  /\ inbound' = Append(inbound, d)
  /\ request' = [request EXCEPT ![d] = "acked"]
  /\ UNCHANGED <<moving, fanIn, merged, pc, tokens, cancelled, run>>

\* The platform gives up waiting: the request's context is done.
GiveUp(d) ==
  /\ request[d] = "queueing"
  /\ request' = [request EXCEPT ![d] = "gone"]
  /\ UNCHANGED <<queues, pc, tokens, cancelled, run>>

Callback(d) == Deliver(d) \/ Enqueue(d) \/ GiveUp(d)

-----------------------------------------------------------------------------
(* Manager.Run.                                                             *)

Take ==
  /\ fanIn /\ moving = None /\ inbound # <<>>
  /\ moving' = Head(inbound) /\ inbound' = Tail(inbound)
  /\ UNCHANGED <<request, fanIn, merged, pc, tokens, cancelled, run>>

Forward ==
  /\ fanIn /\ moving # None /\ Len(merged) < MergedCap
  /\ merged' = Append(merged, moving) /\ moving' = None
  /\ UNCHANGED <<request, inbound, fanIn, pc, tokens, cancelled, run>>

\* The goroutine leaves either select, and with it the message it holds.
FanInExit ==
  /\ fanIn /\ cancelled
  /\ fanIn' = FALSE /\ moving' = None
  /\ UNCHANGED <<request, inbound, merged, pc, tokens, cancelled, run>>

\* One goroutine per message.
Dispatch ==
  /\ run = "on" /\ merged # <<>>
  /\ merged' = Tail(merged)
  /\ Go(Head(merged), "answer")
  /\ UNCHANGED <<request, inbound, moving, fanIn, tokens, cancelled, run>>

LoopExit ==
  /\ run = "on" /\ cancelled
  /\ run' = "waiting"
  /\ UNCHANGED <<request, queues, pc, tokens, cancelled>>

RunReturn ==
  /\ run = "waiting" /\ ~fanIn
  /\ \A d \in Deliveries : pc[d] \in {"none", "done"}
  /\ run' = "returned"
  /\ UNCHANGED <<request, queues, pc, tokens, cancelled>>

Cancel ==
  /\ ~cancelled
  /\ cancelled' = TRUE
  /\ UNCHANGED <<request, queues, pc, tokens, run>>

-----------------------------------------------------------------------------
(* A message's goroutine, and its reply: Adapter.Send, SendText, GetToken.  *)

\* AgentLoop: a reply, or none.
Reply(d) ==
  /\ pc[d] = "answer"
  /\ Go(d, "token") \/ Go(d, "done")
  /\ UNCHANGED <<request, queues, tokens, cancelled, run>>

GetToken(d) ==
  /\ pc[d] = "token" /\ tokenMu = None
  /\ Go(d, IF token = "valid" THEN "send" ELSE "refresh")
  /\ UNCHANGED <<request, queues, tokens, cancelled, run>>

\* Every 100 minutes, until the context is done.
Tick ==
  /\ pc[AutoRefresh] = "wait"
  /\ Go(AutoRefresh, IF cancelled THEN "done" ELSE "refresh")
  /\ UNCHANGED <<request, queues, tokens, cancelled, run>>

\* Where a refresh with a token, and one without, leads.
Refreshed(p) == Go(p, IF p = AutoRefresh THEN "wait" ELSE "send")
NotRefreshed(p) == Go(p, IF p = AutoRefresh THEN "wait" ELSE "done")

\* refresh: the second check, behind the mutex.
BeginRefresh(p) ==
  /\ pc[p] = "refresh" /\ tokenMu = None
  /\ \/ token = "valid" /\ Refreshed(p) /\ UNCHANGED tokenMu
     \/ token # "valid" /\ tokenMu' = p /\ Go(p, "fetch")
  /\ UNCHANGED <<request, queues, token, cancelled, run>>

\* A variant of Fetch: an error leaves the mutex locked.
FetchLeaking(p) ==
  /\ pc[p] = "fetch"
  /\ \/ token' \in {"valid", "expired"} /\ tokenMu' = None /\ Refreshed(p)
     \/ UNCHANGED <<token, tokenMu>> /\ NotRefreshed(p)
  /\ UNCHANGED <<request, queues, cancelled, run>>

\* The call to the platform, the mutex held; a token may be too short-lived to
\* be used a second time, a failure leaves the old one.
Fetch(p) ==
  /\ pc[p] = "fetch"
  /\ tokenMu' = None
  /\ \/ token' \in {"valid", "expired"} /\ Refreshed(p)
     \/ UNCHANGED token /\ NotRefreshed(p)
  /\ UNCHANGED <<request, queues, cancelled, run>>

Expire ==
  /\ token = "valid"
  /\ token' = "expired"
  /\ UNCHANGED <<request, queues, pc, tokenMu, cancelled, run>>

\* SendText: delivered or not; an error is logged.
Send(d) ==
  /\ pc[d] = "send"
  /\ Go(d, "done")
  /\ UNCHANGED <<request, queues, tokens, cancelled, run>>

Handler(d) == Reply(d) \/ GetToken(d) \/ BeginRefresh(d) \/ Fetch(d) \/ Send(d)

Refresher == Tick \/ BeginRefresh(AutoRefresh) \/ Fetch(AutoRefresh)

Next ==
  \/ \E d \in Deliveries : Callback(d) \/ Handler(d)
  \/ Take \/ Forward \/ FanInExit \/ Dispatch \/ LoopExit \/ RunReturn
  \/ Cancel \/ Refresher \/ Expire

Spec == Init /\ [][Next]_vars

\* The goroutines run; calls to the platform have a timeout of 30 seconds, and a
\* waiting reader or writer gets the mutex in the end (sync.RWMutex).
FairSpec ==
  /\ Spec
  /\ \A d \in Deliveries :
       /\ WF_vars(Reply(d) \/ Fetch(d) \/ Send(d))
       /\ SF_vars(GetToken(d) \/ BeginRefresh(d))
  /\ WF_vars(Fetch(AutoRefresh))
  /\ WF_vars(Take \/ Forward \/ FanInExit)
  /\ WF_vars(Dispatch \/ LoopExit \/ RunReturn)

-----------------------------------------------------------------------------
(* Properties.                                                              *)

Count(queue, d) == Cardinality({ i \in DOMAIN queue : queue[i] = d })

\* In how many places on its way a delivery is.
Places(d) ==
  Count(inbound, d) + Count(merged, d) + (IF moving = d THEN 1 ELSE 0)
    + (IF pc[d] = "none" THEN 0 ELSE 1)

\* What is acknowledged is not lost: it is in a queue or its goroutine has begun,
\* unless the agent is being stopped; no delivery is handled twice, and none that
\* was refused, given up or not allowed is handled at all (callback.go:188,
\* manager.go:93).
AckedIsKept ==
  \A d \in Deliveries :
    IF request[d] = "acked" /\ d[1] \in Allowed
    THEN Places(d) = 1 \/ (cancelled /\ Places(d) = 0)
    ELSE Places(d) = 0

\* In the end every acknowledged message of an allowed user has been handled, with
\* or without a token for its reply, unless the agent is being stopped; and then
\* Run returns, whatever its queues still hold and whoever waits for a token
\* (manager.go:82).
PipelineDrains ==
  /\ <>[](\A d \in Deliveries :
            request[d] = "acked" /\ d[1] \in Allowed => pc[d] = "done" \/ cancelled)
  /\ cancelled ~> run = "returned"

===============================================================================
