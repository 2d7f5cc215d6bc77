---------------------------- MODULE SessionManager ----------------------------
(***************************************************************************)
(* The session manager, go-agent/internal/core/session.go, together with   *)
(* the one goroutine that consumes ended sessions (agent.go:178-210).      *)
(*                                                                         *)
(* One action is one critical section: what the code does under one hold   *)
(* of SessionManager.mu or Session.mu, or one channel operation.  Between  *)
(* two critical sections of one goroutine every other goroutine may run.   *)
(* The callers of the manager (message handlers, web sockets) are left     *)
(* open here: any caller may add a message to or end any session at any    *)
(* time.  AgentLoop adds the real handlers.                                *)
(***************************************************************************)
EXTENDS Naturals, Sequences, FiniteSets, Functions

CONSTANTS
  Keys,          \* the channel:user pairs, sessionKey()
  Sessions,      \* the Session objects that may ever be allocated
  KeyOf,         \* the key a Session object is allocated for
  Texts,         \* message contents
  Histories,     \* what a new session may start with: the empty history of
                 \* GetOrCreate, the saved ones BrowserSession reads back
  MaxSessions,   \* SessionConfig.MaxSessions
  MaxRounds,     \* SessionConfig.MaxRounds
  EndChCap,      \* the buffer of endCh, 50 in the code
  MayIdle,       \* the sessions whose users may fall silent for IdleTimeout
  MsgBound,      \* bound of the model: messages in one session
  None           \* nil

Roles == {"user", "assistant"}
Message == [role : Roles, text : Texts]
History == [messages : Seq(Message), rounds : Nat]

ASSUME ManagerAssumption ==
  /\ KeyOf \in [Sessions -> Keys]
  /\ MaxSessions \in Nat
  /\ MaxRounds \in Nat
  /\ EndChCap \in Nat
  /\ MsgBound \in Nat
  /\ MayIdle \subseteq Sessions
  /\ None \notin Sessions

\* What a session file may hold; apart, because TLC cannot enumerate Seq.
ASSUME HistoryAssumption == \A h \in Histories : h \in History

VARIABLES
  current,       \* SessionManager.sessions: the session mapped at each key
  state,         \* Session.State ("unused": not allocated yet)
  messages,      \* Session.Messages
  rounds,        \* Session.RoundCount
  idle,          \* now - Session.LastActiveAt > IdleTimeout
  sending,       \* sessions whose EndSession is between Unlock and the send
  endCh,         \* SessionManager.endCh
  overflow,      \* sessions held by a goroutine blocked on endCh
  consumerPc,    \* consumeSessionEnds: select, sediment, close, unmap, exited
  consuming,     \* the session consumeSessionEnds works on
  sedimented,    \* the conversation given to Sedimenter.Process (for properties)
  scanPc,        \* scanLoop: wait, check, end, send, exited
  expired,       \* the sessions of the snapshot that were idle at its "now"
  doomed,        \* the session the scanner found active and idle
  phase          \* the context: running, cancelled; then stopped

sessionVars == <<current, state, messages, rounds, idle>>
endVars == <<sending, endCh, overflow>>
consumerVars == <<consumerPc, consuming, sedimented>>
scanVars == <<scanPc, expired, doomed>>
vars == <<sessionVars, endVars, consumerVars, scanVars, phase>>

-----------------------------------------------------------------------------
(* Reading the manager.                                                     *)

Active == {s \in Sessions : state[s] = "active"}

\* The lookup of GetOrCreate: the key has a mapped session and it is active.
CurrentActive(k) == current[k] # None /\ state[current[k]] = "active"

\* activeCountLocked: only mapped sessions are counted.
ActiveCount == Cardinality({k \in Keys : CurrentActive(k)})

\* A variant of SlotFree: the limit is compared with > instead of >=.
SlotFreeOffByOne == ActiveCount <= MaxSessions

\* The capacity check made under SessionManager.mu before a session is added.
SlotFree == ActiveCount < MaxSessions

\* The double check of GetOrCreate: nothing active is mapped at k.
Replaceable(k) == ~CurrentActive(k)

\* A variant of Accepts: AddMessage forgets that the session may have ended.
AcceptsInAnyState(s, role) == role = "user" => rounds[s] < MaxRounds

\* A variant of Accepts: the round limit also refuses the last answer.
AcceptsWithinRounds(s, role) ==
  /\ state[s] = "active"
  /\ rounds[s] < MaxRounds

\* Whether AddMessage returns true.
Accepts(s, role) ==
  /\ state[s] = "active"
  /\ role = "user" => rounds[s] < MaxRounds

Queued == Range(endCh)

-----------------------------------------------------------------------------
Init ==
  /\ current = [k \in Keys |-> None]
  /\ state = [s \in Sessions |-> "unused"]
  /\ messages = [s \in Sessions |-> <<>>]
  /\ rounds = [s \in Sessions |-> 0]
  /\ idle = [s \in Sessions |-> FALSE]
  /\ sending = {}
  /\ endCh = <<>>
  /\ overflow = {}
  /\ consumerPc = "select"
  /\ consuming = None
  /\ sedimented = [s \in Sessions |-> None]
  /\ scanPc = "wait"
  /\ expired = {}
  /\ doomed = None
  /\ phase = "running"

(***************************************************************************)
(* GetOrCreate (slow path) and BrowserSession, under SessionManager.mu:    *)
(* no active session is mapped at k and a slot is free, so a new Session   *)
(* object s with history h takes the place of whatever was mapped.  The    *)
(* count is taken session by session while others may end theirs; some     *)
(* instant of the loop has exactly the value it returns, so it is atomic.  *)
(***************************************************************************)
Open(k, s, h) ==
  /\ Replaceable(k)
  /\ SlotFree
  /\ state[s] = "unused"
  /\ KeyOf[s] = k
  /\ current' = [current EXCEPT ![k] = s]
  /\ state' = [state EXCEPT ![s] = "active"]
  /\ messages' = [messages EXCEPT ![s] = h.messages]
  /\ rounds' = [rounds EXCEPT ![s] = h.rounds]
  /\ idle' = [idle EXCEPT ![s] = FALSE]
  /\ UNCHANGED <<endVars, consumerVars, scanVars, phase>>

\* AddMessage returning true; a call that returns false changes nothing.
\* MsgBound keeps the model finite and is no part of the code.
AddMessage(s, m) ==
  /\ Accepts(s, m.role)
  /\ Len(messages[s]) < MsgBound
  /\ messages' = [messages EXCEPT ![s] = Append(@, m)]
  /\ rounds' = [rounds EXCEPT ![s] = IF m.role = "user" THEN @ + 1 ELSE @]
  /\ idle' = [idle EXCEPT ![s] = FALSE]
  /\ UNCHANGED <<current, state, endVars, consumerVars, scanVars, phase>>

\* Time: the last message of s is now more than IdleTimeout ago.
GoIdle(s) ==
  /\ s \in MayIdle
  /\ state[s] = "active"
  /\ ~idle[s]
  /\ idle' = [idle EXCEPT ![s] = TRUE]
  /\ UNCHANGED <<current, state, messages, rounds, endVars, consumerVars,
                 scanVars, phase>>

-----------------------------------------------------------------------------
(* EndSession: the state change under Session.mu ...                        *)

\* A variant of MarkEnding: a session that already ended is ended again.
MarkEndingUnchecked(s) ==
  /\ state[s] # "unused"
  /\ state' = [state EXCEPT ![s] = "ending"]
  /\ sending' = sending \cup {s}
  /\ UNCHANGED <<current, messages, rounds, idle, endCh, overflow>>

MarkEnding(s) ==
  /\ state[s] = "active"
  /\ state' = [state EXCEPT ![s] = "ending"]
  /\ sending' = sending \cup {s}
  /\ UNCHANGED <<current, messages, rounds, idle, endCh, overflow>>

\* ... and the send that follows: into the buffer, or by a new goroutine.
\* A variant of PostEnd: the reference is gone by the time it is sent.
PostEndNil(s) ==
  /\ s \in sending
  /\ sending' = sending \ {s}
  /\ endCh' = Append(endCh, None)
  /\ UNCHANGED <<sessionVars, overflow>>

\* A variant of PostEnd: the caller waits while endCh is full.
PostEndBlocking(s) ==
  /\ s \in sending
  /\ sending' = sending \ {s}
  /\ Len(endCh) < EndChCap
  /\ endCh' = Append(endCh, s)
  /\ UNCHANGED <<sessionVars, overflow>>

\* A variant of PostEnd: the non-blocking send gives up when endCh is full.
PostEndDropping(s) ==
  /\ s \in sending
  /\ sending' = sending \ {s}
  /\ endCh' = IF Len(endCh) < EndChCap THEN Append(endCh, s) ELSE endCh
  /\ UNCHANGED <<sessionVars, overflow>>

PostEnd(s) ==
  /\ s \in sending
  /\ sending' = sending \ {s}
  /\ \/ /\ Len(endCh) < EndChCap
        /\ endCh' = Append(endCh, s)
        /\ UNCHANGED overflow
     \/ /\ Len(endCh) >= EndChCap
        /\ overflow' = overflow \cup {s}
        /\ UNCHANGED endCh
  /\ UNCHANGED sessionVars

\* The goroutine of a full buffer gets its session into endCh.
OverflowSend(s) ==
  /\ s \in overflow
  /\ Len(endCh) < EndChCap
  /\ overflow' = overflow \ {s}
  /\ endCh' = Append(endCh, s)
  /\ UNCHANGED <<sessionVars, sending, consumerVars, scanVars, phase>>

-----------------------------------------------------------------------------
(* consumeSessionEnds, one session at a time.                               *)

Receive ==
  /\ consumerPc = "select"
  /\ endCh # <<>>
  /\ consuming' = Head(endCh)
  /\ endCh' = Tail(endCh)
  /\ consumerPc' = "sediment"
  /\ UNCHANGED <<sessionVars, sending, overflow, sedimented, scanVars, phase>>

\* sessionToConversation clones the history; Process works on the clone and
\* whatever it reports, CompleteSession follows.
Sediment ==
  /\ consumerPc = "sediment"
  /\ sedimented' = [sedimented EXCEPT ![consuming] = messages[consuming]]
  /\ consumerPc' = "close"
  /\ UNCHANGED <<sessionVars, endVars, consuming, scanVars, phase>>

\* CompleteSession, first the state under Session.mu ...
CloseState ==
  /\ consumerPc = "close"
  /\ state' = [state EXCEPT ![consuming] = "closed"]
  /\ consumerPc' = "unmap"
  /\ UNCHANGED <<current, messages, rounds, idle, endVars, consuming,
                 sedimented, scanVars, phase>>

\* A variant of Unmapped: the map entry goes, whoever it belongs to by now.
UnmappedByKey(s) == [current EXCEPT ![KeyOf[s]] = None]

\* What deleting session s from the map leaves, unless s was replaced.
Unmapped(s) ==
  IF current[KeyOf[s]] = s THEN [current EXCEPT ![KeyOf[s]] = None] ELSE current

\* ... then the map under SessionManager.mu.
Unmap ==
  /\ consumerPc = "unmap"
  /\ current' = Unmapped(consuming)
  /\ consuming' = None
  /\ consumerPc' = "select"
  /\ UNCHANGED <<state, messages, rounds, idle, endVars, sedimented, scanVars,
                 phase>>

\* With the context cancelled and a session queued, select may pick either.
ConsumerExit ==
  /\ consumerPc = "select"
  /\ phase # "running"
  /\ consumerPc' = "exited"
  /\ UNCHANGED <<sessionVars, endVars, consuming, sedimented, scanVars, phase>>

-----------------------------------------------------------------------------
(* scanLoop and scanExpired.                                                *)

\* A tick: the snapshot under SessionManager.mu, then "now".  A session that
\* is not idle at "now" is passed over, so only the idle ones are kept.
ScanStart ==
  /\ scanPc = "wait"
  /\ expired' = {s \in Sessions : idle[s] /\ \E k \in Keys : current[k] = s}
  /\ scanPc' = "check"
  /\ UNCHANGED <<sessionVars, endVars, consumerVars, doomed, phase>>

\* The next session of the snapshot, read under Session.mu: a message since
\* "now" makes it fresh again.
ScanCheck ==
  /\ scanPc = "check"
  /\ \E s \in expired :
       /\ expired' = expired \ {s}
       /\ IF state[s] = "active" /\ idle[s]
            THEN doomed' = s /\ scanPc' = "end"
            ELSE UNCHANGED <<doomed, scanPc>>
  /\ UNCHANGED <<sessionVars, endVars, consumerVars, phase>>

\* A variant of ScanDone: the loop returns after its first round.
ScanDoneReturns ==
  /\ scanPc = "check"
  /\ expired = {}
  /\ scanPc' = "exited"
  /\ UNCHANGED <<sessionVars, endVars, consumerVars, expired, doomed, phase>>

\* Every session of the snapshot was looked at: wait for the next tick.
ScanDone ==
  /\ scanPc = "check"
  /\ expired = {}
  /\ scanPc' = "wait"
  /\ UNCHANGED <<sessionVars, endVars, consumerVars, expired, doomed, phase>>

\* EndSession(doomed), called after Session.mu was released: returns at once
\* when the session is no longer active.
ScanEnd ==
  /\ scanPc = "end"
  /\ \/ /\ MarkEnding(doomed)
        /\ scanPc' = "send"
        /\ UNCHANGED doomed
     \/ /\ state[doomed] # "active"
        /\ scanPc' = "check"
        /\ doomed' = None
        /\ UNCHANGED <<sessionVars, endVars>>
  /\ UNCHANGED <<consumerVars, expired, phase>>

ScanPost ==
  /\ scanPc = "send"
  /\ PostEnd(doomed)
  /\ scanPc' = "check"
  /\ doomed' = None
  /\ UNCHANGED <<consumerVars, expired, phase>>

ScanExit ==
  /\ scanPc = "wait"
  /\ phase # "running"
  /\ scanPc' = "exited"
  /\ UNCHANGED <<sessionVars, endVars, consumerVars, expired, doomed, phase>>

-----------------------------------------------------------------------------
(* Shutdown.                                                                *)

\* The signal context of App.Run, or Agent.Run returning, cancels everyone.
Cancel ==
  /\ phase = "running"
  /\ phase' = "cancelled"
  /\ UNCHANGED <<sessionVars, endVars, consumerVars, scanVars>>

\* Agent.Run waits for the consumer, then Stop closes what is still mapped.
Stop ==
  /\ phase = "cancelled"
  /\ consumerPc = "exited"
  /\ phase' = "stopped"
  /\ state' = [s \in Sessions |->
                 IF \E k \in Keys : current[k] = s THEN "closed" ELSE state[s]]
  /\ current' = [k \in Keys |-> None]
  /\ UNCHANGED <<messages, rounds, idle, endVars, consumerVars, scanVars>>

-----------------------------------------------------------------------------
(* Any caller of the manager, at any time.                                  *)

ClientEnd(s) ==
  /\ MarkEnding(s)
  /\ UNCHANGED <<consumerVars, scanVars, phase>>

ClientPost(s) ==
  /\ ~(scanPc = "send" /\ doomed = s)
  /\ PostEnd(s)
  /\ UNCHANGED <<consumerVars, scanVars, phase>>

ClientAdd(s) == \E m \in Message : AddMessage(s, m)

Client ==
  \/ \E k \in Keys, s \in Sessions, h \in Histories : Open(k, s, h)
  \/ \E s \in Sessions : ClientAdd(s) \/ ClientEnd(s) \/ ClientPost(s)

Consumer == Receive \/ Sediment \/ CloseState \/ Unmap \/ ConsumerExit

Scanner == ScanStart \/ ScanCheck \/ ScanDone \/ ScanEnd \/ ScanPost \/ ScanExit

Background ==
  \/ Consumer
  \/ Scanner
  \/ \E s \in Sessions : OverflowSend(s) \/ GoIdle(s)

Next == Client \/ Background \/ Cancel \/ Stop

Spec == Init /\ [][Next]_vars

(***************************************************************************)
(* Fairness.  Every goroutine that can run does.  The consumer is one      *)
(* goroutine and Process returns: each model call has an HTTP timeout.     *)
(* Blocked senders on a Go channel are served first come first served, so  *)
(* one of them is not passed over for ever (strong fairness).              *)
(***************************************************************************)
ConsumerFairness == WF_vars(Receive) /\ WF_vars(Sediment \/ CloseState \/ Unmap)

SenderFairness ==
  \A s \in Sessions : WF_vars(ClientPost(s)) /\ SF_vars(OverflowSend(s))

ScannerFairness ==
  WF_vars(ScanStart) /\ WF_vars(ScanCheck \/ ScanDone \/ ScanEnd \/ ScanPost)

FairSpec ==
  Spec /\ ConsumerFairness /\ SenderFairness /\ ScannerFairness

-----------------------------------------------------------------------------
(* Properties.                                                              *)

\* The type of every variable.
TypeOK ==
  /\ current \in [Keys -> Sessions \cup {None}]
  /\ state \in [Sessions -> {"unused", "active", "ending", "closed"}]
  /\ messages \in [Sessions -> Seq(Message)]
  /\ rounds \in [Sessions -> Nat]
  /\ idle \in [Sessions -> BOOLEAN]
  /\ sending \in SUBSET Sessions
  /\ endCh \in Seq(Sessions)
  /\ overflow \in SUBSET Sessions
  /\ consumerPc \in {"select", "sediment", "close", "unmap", "exited"}
  /\ consuming \in Sessions \cup {None}
  /\ consumerPc \in {"sediment", "close", "unmap"} <=> consuming # None
  /\ sedimented \in [Sessions -> Seq(Message) \cup {None}]
  /\ scanPc \in {"wait", "check", "end", "send", "exited"}
  /\ expired \in SUBSET Sessions
  /\ doomed \in Sessions \cup {None}
  /\ scanPc \in {"end", "send"} <=> doomed # None
  /\ phase \in {"running", "cancelled", "stopped"}

\* Every active session is the one mapped at its key: a user never talks to
\* a session the manager can no longer find, count, scan or stop, and a key
\* never has two active sessions (GetOrCreate's double check, session.go:182;
\* CompleteSession deletes only the session it was given, session.go:280).
ActiveIsCurrent ==
  \A s \in Sessions : state[s] = "active" => current[KeyOf[s]] = s

\* There are never more than MaxSessions active sessions, counted over all
\* Session objects and not over the map as activeCountLocked does
\* (session.go:192, session_owner.go:41).
AtMostMaxSessions == Cardinality(Active) <= MaxSessions

\* The session the consumer has in hand and has not closed yet.
InHand == IF consumerPc \in {"sediment", "close"} THEN {consuming} ELSE {}

\* The sessions that ended and are not closed by the consumer.
Waiting == sending \cup overflow \cup Queued \cup InHand

\* A session that ended waits in exactly one place for the consumer: with its
\* EndSession caller, in endCh, with an overflow goroutine or in the
\* consumer's hands.  So none is sedimented twice, and until Stop none is
\* lost (EndSession, session.go:249-270).
EndedInOnePlace ==
  /\ IsInjective(endCh)
  /\ sending \cap overflow = {}
  /\ sending \cap Queued = {}
  /\ overflow \cap Queued = {}
  /\ InHand \cap (sending \cup overflow \cup Queued) = {}
  /\ phase # "stopped" => Waiting = {s \in Sessions : state[s] = "ending"}

\* What sedimentation is given is the whole conversation: no message is added
\* to a session after its history was handed over, not even the late answer
\* of a handler that still holds it (AddMessage, session.go:228;
\* sessionToConversation, agent.go:212).
SedimentedIsFinal ==
  \A s \in Sessions : sedimented[s] # None => sedimented[s] = messages[s]

\* The manager implements the session life cycle of session.go:12-20.
Lifecycle == INSTANCE SessionLifecycle WITH down <- (phase = "stopped")
ImplementsLifecycle == Lifecycle!LifeSpec

(***************************************************************************)
(* The inductive invariant behind the safety properties above, in parts.   *)
(***************************************************************************)

\* Where ended sessions are, with what holds of them after Stop too.
EndedInv ==
  /\ EndedInOnePlace
  /\ \A s \in Waiting : state[s] \in {"ending", "closed"}
  /\ consumerPc = "unmap" => state[consuming] = "closed"
  /\ phase = "stopped" => consumerPc = "exited"

\* The map: an allocated session, mapped at its own key.
MappedByKey ==
  \A k \in Keys : current[k] # None =>
    KeyOf[current[k]] = k /\ state[current[k]] # "unused"

\* What was sedimented belongs to a session that takes no more messages.
SedimentedInv ==
  /\ SedimentedIsFinal
  /\ \A s \in Sessions : sedimented[s] # None => state[s] \in {"ending", "closed"}

SafetyInv == TypeOK /\ EndedInv /\ MappedByKey /\ ActiveIsCurrent /\ SedimentedInv

-----------------------------------------------------------------------------
(* Liveness.                                                                *)

\* Every session that ends is closed in the end, however full endCh is,
\* unless the agent is shut down first.
EndedEventuallyClosed ==
  \A s \in Sessions :
    state[s] = "ending" ~> (state[s] = "closed" \/ phase # "running")

\* A user who stays silent loses the session: an idle active session is ended
\* unless a message makes it fresh again or the agent is shut down.
IdleEventuallyEnded ==
  \A s \in Sessions :
    (state[s] = "active" /\ idle[s])
      ~> (state[s] # "active" \/ ~idle[s] \/ phase # "running")

===============================================================================
