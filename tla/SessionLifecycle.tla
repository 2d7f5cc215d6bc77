--------------------------- MODULE SessionLifecycle ---------------------------
(***************************************************************************)
(* What the session manager of go-agent/internal/core promises about the   *)
(* life of a session, without locks, maps, channels or goroutines.         *)
(*                                                                         *)
(*   unused --> active --> ending --> closed                               *)
(*                                                                         *)
(* is the state machine of session.go:12-20.  A session belongs to one     *)
(* key, "channel:user" (session.go:58-63); a key has at most one active    *)
(* session at a time, and at most MaxSessions sessions are active.         *)
(***************************************************************************)
EXTENDS Naturals, FiniteSets

CONSTANTS
  Keys,          \* the channel:user pairs
  Sessions,      \* every session that may ever be created
  KeyOf,         \* the key a session is created for, a function
  MaxSessions    \* SessionConfig.MaxSessions, a natural number

VARIABLES
  state,         \* the lifecycle state of every session
  down           \* TRUE once the manager was stopped

lifeVars == <<state, down>>

LifeStates == {"unused", "active", "ending", "closed"}

LifeActive == {s \in Sessions : state[s] = "active"}

LifeInit ==
  /\ state = [s \in Sessions |-> "unused"]
  /\ down = FALSE

\* A conversation starts: its key has no active session and a slot is free.
Start(s) ==
  /\ state[s] = "unused"
  /\ \A t \in LifeActive : KeyOf[t] # KeyOf[s]
  /\ Cardinality(LifeActive) < MaxSessions
  /\ state' = [state EXCEPT ![s] = "active"]
  /\ UNCHANGED down

\* The conversation is over, its memory not yet written.
Finish(s) ==
  /\ state[s] = "active"
  /\ state' = [state EXCEPT ![s] = "ending"]
  /\ UNCHANGED down

\* The memory of the conversation was dealt with.
Retire(s) ==
  /\ state[s] = "ending"
  /\ state' = [state EXCEPT ![s] = "closed"]
  /\ UNCHANGED down

\* The manager stops, once; it may close whatever is still open.
ShutDown ==
  /\ ~down
  /\ down' = TRUE
  /\ \E S \in SUBSET {s \in Sessions : state[s] \in {"active", "ending"}} :
       state' = [s \in Sessions |-> IF s \in S THEN "closed" ELSE state[s]]

\* After the manager was stopped a session it closed may be handed to the
\* consumer no more, so nothing is retired twice: closed is final.
LifeNext ==
  \/ \E s \in Sessions : Start(s) \/ Finish(s) \/ Retire(s)
  \/ ShutDown

LifeSpec == LifeInit /\ [][LifeNext]_lifeVars

===============================================================================
