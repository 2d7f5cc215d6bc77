------------------------- MODULE SessionManagerProofs -------------------------
(***************************************************************************)
(* Theorems about SessionManager, for every set of users and sessions,     *)
(* every limit and every client.                                           *)
(***************************************************************************)
EXTENDS SessionManager, FiniteSetTheorems, TLAPS

USE ManagerAssumption

\* The send of EndSession leaves its three variables well typed.
LEMMA PostEndTypes ==
  ASSUME TypeOK, NEW s \in Sessions, PostEnd(s)
  PROVE  /\ sending' \in SUBSET Sessions
         /\ endCh' \in Seq(Sessions)
         /\ overflow' \in SUBSET Sessions
         /\ UNCHANGED sessionVars
<1>1. endCh \in Seq(Sessions) /\ Append(endCh, s) \in Seq(Sessions)
  BY DEF TypeOK
<1>2. QED
  BY <1>1 DEF PostEnd, TypeOK

\* The variables' types are kept by every critical section (session.go,
\* agent.go:178-210).
LEMMA TypeInductive == TypeOK /\ [Next]_vars => TypeOK'
<1> SUFFICES ASSUME TypeOK, [Next]_vars PROVE TypeOK'
  OBVIOUS
<1> USE DEF TypeOK
<1>1. ASSUME NEW k \in Keys, NEW s \in Sessions, NEW h \in Histories, Open(k, s, h)
      PROVE TypeOK'
  BY <1>1, HistoryAssumption
     DEF Open, History, endVars, consumerVars, scanVars
<1>2. ASSUME NEW s \in Sessions, NEW m \in Message, AddMessage(s, m)
      PROVE TypeOK'
  BY <1>2 DEF AddMessage, endVars, consumerVars, scanVars
<1>3. ASSUME NEW s \in Sessions, ClientEnd(s)
      PROVE TypeOK'
  BY <1>3 DEF ClientEnd, MarkEnding, consumerVars, scanVars
<1>4. ASSUME NEW s \in Sessions, ClientPost(s)
      PROVE TypeOK'
  BY <1>4, PostEndTypes DEF ClientPost, sessionVars, consumerVars, scanVars
<1>5. CASE Receive
  BY <1>5 DEF Receive, sessionVars, scanVars
<1>6. CASE Sediment
  BY <1>6 DEF Sediment, sessionVars, endVars, scanVars
<1>7. CASE CloseState
  BY <1>7 DEF CloseState, endVars, scanVars
<1>8. CASE Unmap
  BY <1>8 DEF Unmap, Unmapped, endVars, scanVars
<1>9. CASE ConsumerExit
  BY <1>9 DEF ConsumerExit, sessionVars, endVars, scanVars
<1>10. CASE ScanStart
  BY <1>10 DEF ScanStart, sessionVars, endVars, consumerVars
<1>11. CASE ScanCheck
  BY <1>11 DEF ScanCheck, sessionVars, endVars, consumerVars
<1>12. CASE ScanDone
  BY <1>12 DEF ScanDone, sessionVars, endVars, consumerVars
<1>13. CASE ScanEnd
  BY <1>13 DEF ScanEnd, MarkEnding, sessionVars, endVars, consumerVars
<1>14. CASE ScanPost
  BY <1>14, PostEndTypes DEF ScanPost, sessionVars, consumerVars
<1>15. CASE ScanExit
  BY <1>15 DEF ScanExit, sessionVars, endVars, consumerVars
<1>16. ASSUME NEW s \in Sessions, OverflowSend(s)
       PROVE TypeOK'
  BY <1>16 DEF OverflowSend, sessionVars, consumerVars, scanVars
<1>17. ASSUME NEW s \in Sessions, GoIdle(s)
       PROVE TypeOK'
  BY <1>17 DEF GoIdle, endVars, consumerVars, scanVars
<1>18. CASE Cancel
  BY <1>18 DEF Cancel, sessionVars, endVars, consumerVars, scanVars
<1>19. CASE Stop
  BY <1>19 DEF Stop, endVars, consumerVars, scanVars
<1>20. CASE UNCHANGED vars
  BY <1>20 DEF vars, sessionVars, endVars, consumerVars, scanVars
<1>21. QED
  BY <1>1, <1>2, <1>3, <1>4, <1>5, <1>6, <1>7, <1>8, <1>9, <1>10, <1>11,
     <1>12, <1>13, <1>14, <1>15, <1>16, <1>17, <1>18, <1>19, <1>20
     DEF Next, Client, ClientAdd, Background, Consumer, Scanner

\* Every reachable state is well typed.
THEOREM TypeCorrect == Spec => []TypeOK
<1>1. Init => TypeOK
  BY DEF Init, TypeOK
<1>2. QED
  BY <1>1, TypeInductive, PTL DEF Spec

-----------------------------------------------------------------------------
(* Queues without repetitions.                                              *)

\* A channel send adds one element, and no repetition if it is a new one.
LEMMA AppendRange ==
  ASSUME NEW S, NEW q \in Seq(S), NEW e \in S
  PROVE  /\ Range(Append(q, e)) = Range(q) \cup {e}
         /\ IsInjective(q) /\ e \notin Range(q) => IsInjective(Append(q, e))
<1>1. /\ DOMAIN Append(q, e) = DOMAIN q \cup {Len(q) + 1}
      /\ Len(q) + 1 \notin DOMAIN q
      /\ \A i \in DOMAIN q : Append(q, e)[i] = q[i]
      /\ Append(q, e)[Len(q) + 1] = e
  OBVIOUS
<1>2. QED
  BY <1>1 DEF Range, IsInjective

\* A channel receive takes the head away, which is gone if nothing repeats.
LEMMA TailRange ==
  ASSUME NEW S, NEW q \in Seq(S), q # <<>>
  PROVE  /\ Head(q) \in Range(q)
         /\ Range(q) = Range(Tail(q)) \cup {Head(q)}
         /\ IsInjective(q) => IsInjective(Tail(q)) /\ Head(q) \notin Range(Tail(q))
<1>1. /\ DOMAIN q = 1 .. Len(q)
      /\ Len(q) \in Nat \ {0}
      /\ Head(q) = q[1]
      /\ DOMAIN Tail(q) = 1 .. Len(q) - 1
      /\ \A i \in 1 .. Len(q) - 1 : Tail(q)[i] = q[i + 1]
  OBVIOUS
<1>2. Head(q) \in Range(q)
  BY <1>1 DEF Range
<1>3. Range(Tail(q)) \subseteq Range(q)
  <2>1. ASSUME NEW i \in DOMAIN Tail(q) PROVE Tail(q)[i] \in Range(q)
    <3>1. i + 1 \in DOMAIN q /\ Tail(q)[i] = q[i + 1]
      BY <1>1
    <3>2. QED
      BY <3>1 DEF Range
  <2>2. QED
    BY <2>1 DEF Range
<1>4. Range(q) \subseteq Range(Tail(q)) \cup {Head(q)}
  <2>1. ASSUME NEW i \in DOMAIN q, i # 1 PROVE q[i] \in Range(Tail(q))
    <3>1. i - 1 \in DOMAIN Tail(q) /\ Tail(q)[i - 1] = q[i]
      BY <1>1, <2>1
    <3>2. QED
      BY <3>1 DEF Range
  <2>2. QED
    BY <1>1, <2>1 DEF Range
<1>5. ASSUME IsInjective(q)
      PROVE  IsInjective(Tail(q)) /\ Head(q) \notin Range(Tail(q))
  <2>1. ASSUME NEW i \in DOMAIN Tail(q)
        PROVE  i + 1 \in DOMAIN q /\ Tail(q)[i] = q[i + 1] /\ i + 1 # 1 /\ 1 \in DOMAIN q
    BY <1>1
  <2>2. Head(q) \notin Range(Tail(q))
    BY <1>1, <1>5, <2>1 DEF Range, IsInjective
  <2>3. IsInjective(Tail(q))
    <3> SUFFICES ASSUME NEW i \in DOMAIN Tail(q), NEW j \in DOMAIN Tail(q),
                        Tail(q)[i] = Tail(q)[j]
                 PROVE  i = j
      BY DEF IsInjective
    <3>1. i + 1 = j + 1
      BY <1>5, <2>1 DEF IsInjective
    <3>2. QED
      BY <1>1, <3>1
  <2>4. QED
    BY <2>2, <2>3
<1>6. QED
  BY <1>2, <1>3, <1>4, <1>5

-----------------------------------------------------------------------------
(* Where ended sessions are.                                                *)

\* Steps that touch no ended session keep what is known of them.
LEMMA EndedFrame ==
  ASSUME EndedInv, UNCHANGED <<endVars, state, InHand>>,
         phase' = "stopped" <=> phase = "stopped",
         phase = "stopped" => consumerPc' = "exited",
         consumerPc' = "unmap" => consumerPc = "unmap" /\ consuming' = consuming
  PROVE  EndedInv'
<1>1. UNCHANGED <<Queued, Waiting, sending, endCh, overflow>>
  BY DEF endVars, Queued, Waiting
<1>2. EndedInOnePlace'
  BY <1>1 DEF EndedInv, EndedInOnePlace, IsInjective
<1>3. QED
  BY <1>1, <1>2 DEF EndedInv

\* A session leaves its EndSession caller for the queue or for a goroutine.
LEMMA PostEndPlaces ==
  ASSUME TypeOK, EndedInv, NEW s \in Sessions, PostEnd(s),
         UNCHANGED <<consumerPc, consuming, phase>>
  PROVE  EndedInv'
<1>1. s \in sending /\ s \notin overflow /\ s \notin Queued /\ s \notin InHand
  BY DEF PostEnd, EndedInv, EndedInOnePlace
<1>2. UNCHANGED <<InHand, state>>
  BY DEF PostEnd, InHand, sessionVars
<1>3. /\ sending' = sending \ {s}
      /\ IsInjective(endCh')
      /\ \/ Queued' = Queued \cup {s} /\ overflow' = overflow
         \/ Queued' = Queued /\ overflow' = overflow \cup {s}
  <2>1. CASE endCh' = Append(endCh, s) /\ UNCHANGED overflow
    <3>1. endCh \in Seq(Sessions) /\ IsInjective(endCh) /\ s \notin Range(endCh)
      BY <1>1 DEF TypeOK, EndedInv, EndedInOnePlace, Queued
    <3>2. QED
      BY <2>1, <3>1, AppendRange DEF PostEnd, Queued
  <2>2. CASE overflow' = overflow \cup {s} /\ UNCHANGED endCh
    BY <2>2 DEF PostEnd, EndedInv, EndedInOnePlace, Queued
  <2>3. QED
    BY <2>1, <2>2 DEF PostEnd
<1>4. Waiting' = Waiting
  BY <1>1, <1>2, <1>3 DEF Waiting
<1>5. EndedInOnePlace'
  BY <1>1, <1>2, <1>3, <1>4 DEF EndedInv, EndedInOnePlace
<1>6. QED
  BY <1>2, <1>4, <1>5 DEF EndedInv

\* EndSession marks a session that waits nowhere yet.
LEMMA MarkEndingPlaces ==
  ASSUME TypeOK, EndedInv, NEW s \in Sessions, MarkEnding(s),
         UNCHANGED <<consumerPc, consuming, phase>>
  PROVE  EndedInv'
<1>1. state[s] = "active" /\ s \notin Waiting
  BY DEF MarkEnding, EndedInv
<1>2. sending' = sending \cup {s} /\ UNCHANGED <<Queued, InHand, endCh, overflow>>
  BY DEF MarkEnding, Queued, InHand
<1>3. Waiting' = Waiting \cup {s}
  BY <1>2 DEF Waiting
<1>4. state' = [state EXCEPT ![s] = "ending"] /\ state \in [Sessions -> {"unused", "active", "ending", "closed"}]
  BY DEF MarkEnding, TypeOK
<1>5. EndedInOnePlace'
  <2>1. phase # "stopped" => Waiting' = {t \in Sessions : state'[t] = "ending"}
    BY <1>3, <1>4 DEF EndedInv, EndedInOnePlace
  <2>2. QED
    BY <1>1, <1>2, <1>3, <2>1
       DEF EndedInv, EndedInOnePlace, Waiting
<1>6. \A t \in Waiting' : state'[t] \in {"ending", "closed"}
  <2>1. Waiting \subseteq Sessions
    BY DEF Waiting, TypeOK, Queued, InHand, Range
  <2>2. QED
    BY <1>3, <1>4, <2>1 DEF EndedInv
<1>7. consumerPc' = "unmap" => state'[consuming'] = "closed"
  BY <1>1, <1>4 DEF EndedInv, TypeOK
<1>8. QED
  BY <1>5, <1>6, <1>7 DEF EndedInv

\* Every critical section keeps what is known of ended sessions.
LEMMA EndedInductive == TypeOK /\ EndedInv /\ [Next]_vars => EndedInv'
<1> SUFFICES ASSUME TypeOK, EndedInv, [Next]_vars PROVE EndedInv'
  OBVIOUS
<1>1. ASSUME NEW k \in Keys, NEW s \in Sessions, NEW h \in Histories, Open(k, s, h)
      PROVE EndedInv'
  <2>1. /\ UNCHANGED <<Waiting, InHand, Queued>>
        /\ UNCHANGED <<sending, endCh, overflow, consumerPc, consuming, phase>>
    BY <1>1 DEF Open, endVars, consumerVars, Waiting, InHand, Queued
  <2>2. /\ state[s] = "unused" /\ state' = [state EXCEPT ![s] = "active"]
        /\ state \in [Sessions -> {"unused", "active", "ending", "closed"}]
    BY <1>1 DEF Open, TypeOK
  <2>3. {t \in Sessions : state'[t] = "ending"} = {t \in Sessions : state[t] = "ending"}
    BY <2>2
  <2>4. EndedInOnePlace'
    BY <2>1, <2>3 DEF EndedInv, EndedInOnePlace, IsInjective
  <2>5. Waiting \subseteq Sessions
    BY DEF Waiting, TypeOK, Queued, InHand, Range
  <2>6. QED
    BY <2>1, <2>2, <2>4, <2>5 DEF EndedInv, TypeOK
<1>2. ASSUME NEW s \in Sessions, NEW m \in Message, AddMessage(s, m)
      PROVE EndedInv'
  BY <1>2, EndedFrame DEF AddMessage, EndedInv, endVars, consumerVars, InHand
<1>3. ASSUME NEW s \in Sessions, ClientEnd(s)
      PROVE EndedInv'
  BY <1>3, MarkEndingPlaces DEF ClientEnd, consumerVars
<1>4. ASSUME NEW s \in Sessions, ClientPost(s)
      PROVE EndedInv'
  BY <1>4, PostEndPlaces DEF ClientPost, consumerVars
<1>5. CASE Receive
  <2>1. endCh \in Seq(Sessions) /\ endCh # <<>>
    BY <1>5 DEF Receive, TypeOK
  <2>2. /\ Head(endCh) \in Queued
        /\ Queued = Range(Tail(endCh)) \cup {Head(endCh)}
        /\ IsInjective(Tail(endCh))
        /\ Head(endCh) \notin Range(Tail(endCh))
    BY <2>1, TailRange DEF Queued, EndedInv, EndedInOnePlace
  <2>3. Queued' = Range(Tail(endCh)) /\ InHand' = {Head(endCh)} /\ InHand = {}
    BY <1>5 DEF Receive, Queued, InHand
  <2>4. UNCHANGED <<sending, overflow, state, phase>>
    BY <1>5 DEF Receive, sessionVars
  <2>5. Waiting' = Waiting
    BY <2>2, <2>3, <2>4 DEF Waiting
  <2>6. EndedInOnePlace'
    <3>1. IsInjective(endCh')
      BY <1>5, <2>2 DEF Receive
    <3>2. QED
      BY <2>2, <2>3, <2>4, <2>5, <3>1 DEF EndedInv, EndedInOnePlace
  <2>7. QED
    BY <1>5, <2>4, <2>5, <2>6 DEF EndedInv, Receive
<1>6. CASE Sediment
  BY <1>6, EndedFrame DEF Sediment, sessionVars, EndedInv, InHand
<1>7. CASE CloseState
  <2>1. /\ InHand = {consuming} /\ InHand' = {} /\ consuming \in Sessions
        /\ UNCHANGED <<sending, endCh, overflow, Queued, consuming, phase>>
        /\ consumerPc' = "unmap" /\ phase # "stopped"
    BY <1>7 DEF CloseState, InHand, Queued, endVars, EndedInv, TypeOK
  <2>2. Waiting' = Waiting \ {consuming}
    BY <2>1 DEF Waiting, EndedInv, EndedInOnePlace
  <2>3. /\ state' = [state EXCEPT ![consuming] = "closed"]
        /\ state \in [Sessions -> {"unused", "active", "ending", "closed"}]
    BY <1>7 DEF CloseState, TypeOK
  <2>4. Waiting = {t \in Sessions : state[t] = "ending"}
    BY <2>1 DEF EndedInv, EndedInOnePlace
  <2>5. EndedInOnePlace'
    BY <2>1, <2>2, <2>3, <2>4 DEF EndedInv, EndedInOnePlace, IsInjective
  <2>6. QED
    BY <2>1, <2>2, <2>3, <2>4, <2>5 DEF EndedInv
<1>8. CASE Unmap
  BY <1>8, EndedFrame DEF Unmap, EndedInv, InHand
<1>9. CASE ConsumerExit
  BY <1>9, EndedFrame DEF ConsumerExit, sessionVars, EndedInv, InHand
<1>10. CASE ScanStart
  BY <1>10, EndedFrame DEF ScanStart, sessionVars, consumerVars, EndedInv, InHand
<1>11. CASE ScanCheck
  BY <1>11, EndedFrame DEF ScanCheck, sessionVars, consumerVars, EndedInv, InHand
<1>12. CASE ScanDone
  BY <1>12, EndedFrame DEF ScanDone, sessionVars, consumerVars, EndedInv, InHand
<1>13. CASE ScanEnd
  <2>1. doomed \in Sessions /\ UNCHANGED <<consumerPc, consuming, phase>>
    BY <1>13 DEF ScanEnd, TypeOK, consumerVars
  <2>2. CASE MarkEnding(doomed)
    BY <2>1, <2>2, MarkEndingPlaces
  <2>3. CASE UNCHANGED <<sessionVars, endVars>>
    BY <2>1, <2>3, EndedFrame DEF sessionVars, EndedInv, InHand
  <2>4. QED
    BY <1>13, <2>2, <2>3 DEF ScanEnd
<1>14. CASE ScanPost
  BY <1>14, PostEndPlaces DEF ScanPost, TypeOK, consumerVars
<1>15. CASE ScanExit
  BY <1>15, EndedFrame DEF ScanExit, sessionVars, consumerVars, EndedInv, InHand
<1>16. ASSUME NEW s \in Sessions, OverflowSend(s)
       PROVE EndedInv'
  <2>1. /\ s \in overflow /\ s \notin sending /\ s \notin Queued /\ s \notin InHand
        /\ endCh \in Seq(Sessions) /\ IsInjective(endCh)
    BY <1>16 DEF OverflowSend, EndedInv, EndedInOnePlace, TypeOK
  <2>2. Queued' = Queued \cup {s} /\ IsInjective(endCh')
    BY <1>16, <2>1, AppendRange DEF OverflowSend, Queued
  <2>3. /\ overflow' = overflow \ {s}
        /\ UNCHANGED <<sending, InHand, state, consumerPc, consuming, phase>>
    BY <1>16 DEF OverflowSend, sessionVars, consumerVars, InHand
  <2>4. Waiting' = Waiting
    BY <2>1, <2>2, <2>3 DEF Waiting
  <2>5. EndedInOnePlace'
    BY <2>1, <2>2, <2>3, <2>4 DEF EndedInv, EndedInOnePlace
  <2>6. QED
    BY <2>3, <2>4, <2>5 DEF EndedInv
<1>17. ASSUME NEW s \in Sessions, GoIdle(s)
       PROVE EndedInv'
  BY <1>17, EndedFrame DEF GoIdle, endVars, consumerVars, EndedInv, InHand
<1>18. CASE Cancel
  BY <1>18, EndedFrame DEF Cancel, sessionVars, consumerVars, EndedInv, InHand
<1>19. CASE Stop
  <2>1. /\ UNCHANGED <<sending, endCh, overflow, Queued, InHand, Waiting>>
        /\ phase' = "stopped" /\ consumerPc' = "exited"
    BY <1>19 DEF Stop, endVars, consumerVars, Queued, InHand, Waiting
  <2>2. \A t \in Sessions : state'[t] \in {state[t], "closed"}
    BY <1>19 DEF Stop
  <2>3. Waiting \subseteq Sessions
    BY DEF Waiting, TypeOK, Queued, InHand, Range
  <2>4. EndedInOnePlace'
    BY <2>1 DEF EndedInv, EndedInOnePlace, IsInjective
  <2>5. QED
    BY <2>1, <2>2, <2>3, <2>4 DEF EndedInv
<1>20. CASE UNCHANGED vars
  BY <1>20, EndedFrame DEF vars, sessionVars, consumerVars, EndedInv, InHand
<1>21. QED
  BY <1>1, <1>2, <1>3, <1>4, <1>5, <1>6, <1>7, <1>8, <1>9, <1>10, <1>11,
     <1>12, <1>13, <1>14, <1>15, <1>16, <1>17, <1>18, <1>19, <1>20
     DEF Next, Client, ClientAdd, Background, Consumer, Scanner

-----------------------------------------------------------------------------
(* The map of sessions.                                                     *)

\* Steps that move no session in the map and start none keep it in order.
LEMMA MapFrame ==
  ASSUME TypeOK, MappedByKey, ActiveIsCurrent, TypeOK', UNCHANGED current,
         \A s \in Sessions : /\ state'[s] = "active" => state[s] = "active"
                             /\ state'[s] = "unused" => state[s] = "unused"
  PROVE  MappedByKey' /\ ActiveIsCurrent'
BY DEF MappedByKey, ActiveIsCurrent, TypeOK

\* GetOrCreate's double check keeps a second session away from a key, and
\* CompleteSession leaves the session alone that replaced the one it closes.
LEMMA MapInductive ==
  ASSUME TypeOK, EndedInv, MappedByKey, ActiveIsCurrent, TypeOK', [Next]_vars
  PROVE  MappedByKey' /\ ActiveIsCurrent'
<1>1. ASSUME NEW k \in Keys, NEW s \in Sessions, NEW h \in Histories, Open(k, s, h)
      PROVE MappedByKey' /\ ActiveIsCurrent'
  <2>1. /\ current' = [current EXCEPT ![k] = s]
        /\ state' = [state EXCEPT ![s] = "active"]
        /\ state[s] = "unused" /\ KeyOf[s] = k /\ ~CurrentActive(k)
    BY <1>1 DEF Open, Replaceable
  <2>2. \A t \in Sessions : state[t] = "active" => KeyOf[t] # k
    BY <2>1 DEF ActiveIsCurrent, CurrentActive, TypeOK
  <2>3. QED
    BY <2>1, <2>2 DEF MappedByKey, ActiveIsCurrent, TypeOK
<1>2. ASSUME NEW s \in Sessions, NEW m \in Message, AddMessage(s, m)
      PROVE MappedByKey' /\ ActiveIsCurrent'
  BY <1>2, MapFrame DEF AddMessage
<1>3. ASSUME NEW s \in Sessions, ClientEnd(s)
      PROVE MappedByKey' /\ ActiveIsCurrent'
  BY <1>3, MapFrame DEF ClientEnd, MarkEnding, TypeOK
<1>4. ASSUME NEW s \in Sessions, ClientPost(s)
      PROVE MappedByKey' /\ ActiveIsCurrent'
  BY <1>4, MapFrame DEF ClientPost, PostEnd, sessionVars
<1>5. CASE Receive \/ Sediment \/ ConsumerExit
  BY <1>5, MapFrame DEF Receive, Sediment, ConsumerExit, sessionVars
<1>6. CASE CloseState
  BY <1>6, MapFrame DEF CloseState, TypeOK
<1>7. CASE Unmap
  <2>1. state[consuming] = "closed" /\ consuming \in Sessions
    BY <1>7 DEF Unmap, EndedInv, TypeOK
  <2>2. current' = Unmapped(consuming) /\ UNCHANGED state
    BY <1>7 DEF Unmap
  <2>3. QED
    BY <2>1, <2>2 DEF Unmapped, MappedByKey, ActiveIsCurrent, TypeOK
<1>8. CASE ScanStart \/ ScanCheck \/ ScanDone \/ ScanExit
  BY <1>8, MapFrame DEF ScanStart, ScanCheck, ScanDone, ScanExit, sessionVars
<1>9. CASE ScanEnd
  <2>1. CASE MarkEnding(doomed)
    BY <2>1, MapFrame DEF MarkEnding, TypeOK
  <2>2. CASE UNCHANGED <<sessionVars, endVars>>
    BY <2>2, MapFrame DEF sessionVars
  <2>3. QED
    BY <1>9, <2>1, <2>2 DEF ScanEnd
<1>10. CASE ScanPost
  BY <1>10, MapFrame DEF ScanPost, PostEnd, sessionVars
<1>11. ASSUME NEW s \in Sessions, OverflowSend(s) \/ GoIdle(s)
       PROVE MappedByKey' /\ ActiveIsCurrent'
  BY <1>11, MapFrame DEF OverflowSend, GoIdle, sessionVars
<1>12. CASE Stop
  <2>1. /\ \A k \in Keys : current'[k] = None
        /\ \A s \in Sessions : state[s] = "active" => state'[s] = "closed"
        /\ \A s \in Sessions : state'[s] \in {state[s], "closed"}
    BY <1>12 DEF Stop, ActiveIsCurrent
  <2>2. QED
    BY <2>1 DEF MappedByKey, ActiveIsCurrent
<1>13. CASE Cancel \/ UNCHANGED vars
  BY <1>13, MapFrame DEF Cancel, vars, sessionVars
<1>14. QED
  BY <1>1, <1>2, <1>3, <1>4, <1>5, <1>6, <1>7, <1>8, <1>9, <1>10, <1>11, <1>12, <1>13
     DEF Next, Client, ClientAdd, Background, Consumer, Scanner

-----------------------------------------------------------------------------
(* What sedimentation was given.                                            *)

\* Steps that add no message, sediment nothing and revive no session.
LEMMA SedimentedFrame ==
  ASSUME TypeOK, SedimentedInv, UNCHANGED <<messages, sedimented>>,
         \A s \in Sessions : state[s] \in {"ending", "closed"}
                               => state'[s] \in {"ending", "closed"}
  PROVE  SedimentedInv'
BY DEF SedimentedInv, SedimentedIsFinal

\* A sedimented session takes no more messages.
LEMMA SedimentedInductive ==
  ASSUME TypeOK, EndedInv, SedimentedInv, [Next]_vars
  PROVE  SedimentedInv'
<1>1. ASSUME NEW k \in Keys, NEW s \in Sessions, NEW h \in Histories, Open(k, s, h)
      PROVE SedimentedInv'
  <2>1. /\ messages' = [messages EXCEPT ![s] = h.messages]
        /\ state' = [state EXCEPT ![s] = "active"]
        /\ state[s] = "unused"
        /\ UNCHANGED sedimented
    BY <1>1 DEF Open, consumerVars
  <2>2. sedimented[s] = None
    BY <2>1 DEF SedimentedInv
  <2>3. QED
    BY <2>1, <2>2 DEF SedimentedInv, SedimentedIsFinal, TypeOK
<1>2. ASSUME NEW s \in Sessions, NEW m \in Message, AddMessage(s, m)
      PROVE SedimentedInv'
  <2>1. /\ messages' = [messages EXCEPT ![s] = Append(@, m)]
        /\ state[s] = "active"
        /\ UNCHANGED <<state, sedimented>>
    BY <1>2 DEF AddMessage, Accepts, consumerVars
  <2>2. sedimented[s] = None
    BY <2>1 DEF SedimentedInv
  <2>3. QED
    BY <2>1, <2>2 DEF SedimentedInv, SedimentedIsFinal, TypeOK
<1>3. ASSUME NEW s \in Sessions, ClientEnd(s)
      PROVE SedimentedInv'
  BY <1>3, SedimentedFrame DEF ClientEnd, MarkEnding, consumerVars, TypeOK
<1>4. ASSUME NEW s \in Sessions, ClientPost(s)
      PROVE SedimentedInv'
  BY <1>4, SedimentedFrame DEF ClientPost, PostEnd, sessionVars, consumerVars
<1>5. CASE Receive \/ Unmap \/ ConsumerExit
  BY <1>5, SedimentedFrame DEF Receive, Unmap, ConsumerExit, sessionVars
<1>6. CASE Sediment
  <2>1. /\ consuming \in Sessions
        /\ consuming \in Waiting
        /\ sedimented' = [sedimented EXCEPT ![consuming] = messages[consuming]]
        /\ UNCHANGED <<messages, state>>
    BY <1>6 DEF Sediment, TypeOK, Waiting, InHand, sessionVars
  <2>2. state[consuming] \in {"ending", "closed"}
    BY <2>1 DEF EndedInv
  <2>3. QED
    BY <2>1, <2>2 DEF SedimentedInv, SedimentedIsFinal, TypeOK
<1>7. CASE CloseState
  BY <1>7, SedimentedFrame DEF CloseState, TypeOK
<1>8. CASE ScanStart \/ ScanCheck \/ ScanDone \/ ScanExit
  BY <1>8, SedimentedFrame
     DEF ScanStart, ScanCheck, ScanDone, ScanExit, sessionVars, consumerVars
<1>9. CASE ScanEnd
  <2>1. CASE MarkEnding(doomed)
    BY <1>9, <2>1, SedimentedFrame DEF ScanEnd, MarkEnding, consumerVars, TypeOK
  <2>2. CASE UNCHANGED <<sessionVars, endVars>>
    BY <1>9, <2>2, SedimentedFrame DEF ScanEnd, sessionVars, consumerVars
  <2>3. QED
    BY <1>9, <2>1, <2>2 DEF ScanEnd
<1>10. CASE ScanPost
  BY <1>10, SedimentedFrame DEF ScanPost, PostEnd, sessionVars, consumerVars
<1>11. ASSUME NEW s \in Sessions, OverflowSend(s) \/ GoIdle(s)
       PROVE SedimentedInv'
  BY <1>11, SedimentedFrame DEF OverflowSend, GoIdle, sessionVars, consumerVars
<1>12. CASE Stop
  BY <1>12, SedimentedFrame DEF Stop, consumerVars
<1>13. CASE Cancel \/ UNCHANGED vars
  BY <1>13, SedimentedFrame DEF Cancel, vars, sessionVars, consumerVars
<1>14. QED
  BY <1>1, <1>2, <1>3, <1>4, <1>5, <1>6, <1>7, <1>8, <1>9, <1>10, <1>11, <1>12, <1>13
     DEF Next, Client, ClientAdd, Background, Consumer, Scanner

-----------------------------------------------------------------------------
(* The inductive invariant, and the properties it gives.                    *)

\* It holds at the start ...
LEMMA InitSafety == Init => SafetyInv
<1> SUFFICES ASSUME Init PROVE SafetyInv
  OBVIOUS
<1>1. TypeOK
  BY DEF Init, TypeOK
<1>2. Waiting = {} /\ InHand = {} /\ Queued = {} /\ IsInjective(endCh)
  BY DEF Init, Waiting, InHand, Queued, Range, IsInjective
<1>3. EndedInv
  BY <1>2 DEF Init, EndedInv, EndedInOnePlace
<1>4. MappedByKey /\ ActiveIsCurrent /\ SedimentedInv
  BY DEF Init, MappedByKey, ActiveIsCurrent, SedimentedInv, SedimentedIsFinal
<1>5. QED
  BY <1>1, <1>3, <1>4 DEF SafetyInv

\* ... and every step keeps it.
LEMMA StepSafety == SafetyInv /\ [Next]_vars => SafetyInv'
BY TypeInductive, EndedInductive, MapInductive, SedimentedInductive DEF SafetyInv

\* The invariant of every reachable state: types, places of ended sessions,
\* the map and what was sedimented.
THEOREM Safety == Spec => []SafetyInv
BY InitSafety, StepSafety, PTL DEF Spec

\* A key has at most one active session, the mapped one (session.go:160-216).
THEOREM OneActivePerKey == Spec => []ActiveIsCurrent
<1>1. SafetyInv => ActiveIsCurrent
  BY DEF SafetyInv
<1>2. QED
  BY <1>1, Safety, PTL

\* An ended session is handed over once and, until Stop, never lost
\* (session.go:249-270).
THEOREM NoEndedSessionLost == Spec => []EndedInOnePlace
<1>1. SafetyInv => EndedInOnePlace
  BY DEF SafetyInv, EndedInv
<1>2. QED
  BY <1>1, Safety, PTL

\* Sedimentation is given whole conversations (session.go:228, agent.go:212).
THEOREM SedimentsWhole == Spec => []SedimentedIsFinal
<1>1. SafetyInv => SedimentedIsFinal
  BY DEF SafetyInv, SedimentedInv
<1>2. QED
  BY <1>1, Safety, PTL

-----------------------------------------------------------------------------
(* The limit on active sessions.                                            *)

\* Finiteness is needed to count: only finitely many sessions were opened.
CapacityInv == IsFiniteSet(Active) /\ AtMostMaxSessions

\* activeCountLocked counts keys, the limit is about sessions: KeyOf pairs the
\* two up because a key has one active session, the mapped one.
LEMMA CountIsExact ==
  ASSUME TypeOK, MappedByKey, ActiveIsCurrent, IsFiniteSet(Active)
  PROVE  ActiveCount = Cardinality(Active)
<1> DEFINE Mapped == {k \in Keys : CurrentActive(k)}
           keyOf == [s \in Active |-> KeyOf[s]]
<1>1. keyOf \in [Active -> Mapped]
  BY DEF Active, ActiveIsCurrent, CurrentActive, TypeOK
<1>2. \A s, t \in Active : keyOf[s] = keyOf[t] => s = t
  BY DEF Active, ActiveIsCurrent
<1>3. \A k \in Mapped : \E s \in Active : keyOf[s] = k
  BY DEF Active, CurrentActive, MappedByKey, TypeOK
<1>4. keyOf \in Bijection(Active, Mapped)
  BY <1>1, <1>2, <1>3 DEF Bijection, Injection, Surjection, IsInjective
<1>5. ExistsBijection(Active, Mapped)
  BY <1>4 DEF ExistsBijection
<1>6. QED
  BY <1>5, FS_Bijection DEF ActiveCount

\* A step that starts no session keeps the limit.
LEMMA CapacityFrame ==
  ASSUME CapacityInv, Active' \subseteq Active
  PROVE  CapacityInv'
<1>1. IsFiniteSet(Active') /\ Cardinality(Active') <= Cardinality(Active)
  BY FS_Subset DEF CapacityInv
<1>2. Cardinality(Active) \in Nat /\ Cardinality(Active') \in Nat
  BY <1>1, FS_CardinalityType DEF CapacityInv
<1>3. QED
  BY <1>1, <1>2 DEF CapacityInv, AtMostMaxSessions

\* The consumer, the scanner and the overflow goroutines start no session.
LEMMA BackgroundStartsNothing ==
  ASSUME TypeOK, Background
  PROVE  Active' \subseteq Active
<1>1. ASSUME NEW s \in Sessions, MarkEnding(s) PROVE Active' \subseteq Active
  BY <1>1 DEF MarkEnding, Active, TypeOK
<1>2. ASSUME UNCHANGED state PROVE Active' \subseteq Active
  BY <1>2 DEF Active
<1>3. CASE Consumer
  <2>1. CASE CloseState
    BY <2>1 DEF CloseState, Active, TypeOK
  <2>2. CASE Receive \/ Sediment \/ Unmap \/ ConsumerExit
    BY <1>2, <2>2 DEF Receive, Sediment, Unmap, ConsumerExit, sessionVars
  <2>3. QED
    BY <1>3, <2>1, <2>2 DEF Consumer
<1>4. CASE Scanner
  <2>1. CASE ScanEnd
    BY <1>1, <1>2, <2>1 DEF ScanEnd, TypeOK, sessionVars
  <2>2. CASE ScanStart \/ ScanCheck \/ ScanDone \/ ScanPost \/ ScanExit
    BY <1>2, <2>2
       DEF ScanStart, ScanCheck, ScanDone, ScanPost, ScanExit, PostEnd, sessionVars
  <2>3. QED
    BY <1>4, <2>1, <2>2 DEF Scanner
<1>5. CASE \E s \in Sessions : OverflowSend(s) \/ GoIdle(s)
  BY <1>2, <1>5 DEF OverflowSend, GoIdle, sessionVars
<1>6. QED
  BY <1>3, <1>4, <1>5 DEF Background

\* Only GetOrCreate and BrowserSession start sessions.
LEMMA OnlyOpenStarts ==
  ASSUME TypeOK, [Next]_vars,
         ~ \E k \in Keys, s \in Sessions, h \in Histories : Open(k, s, h)
  PROVE  Active' \subseteq Active
<1>1. CASE \E s \in Sessions : ClientEnd(s)
  BY <1>1 DEF ClientEnd, MarkEnding, Active, TypeOK
<1>2. ASSUME UNCHANGED state PROVE Active' \subseteq Active
  BY <1>2 DEF Active
<1>3. CASE \E s \in Sessions : ClientAdd(s) \/ ClientPost(s)
  BY <1>2, <1>3 DEF ClientAdd, ClientPost, AddMessage, PostEnd, sessionVars
<1>4. CASE Stop
  BY <1>4 DEF Stop, Active
<1>5. CASE Cancel \/ UNCHANGED vars
  BY <1>2, <1>5 DEF Cancel, vars, sessionVars
<1>6. QED
  BY <1>1, <1>3, <1>4, <1>5, BackgroundStartsNothing DEF Next, Client

\* The capacity check and the insertion are one critical section.
LEMMA CapacityInductive ==
  ASSUME SafetyInv, CapacityInv, [Next]_vars
  PROVE  CapacityInv'
<1>1. ASSUME NEW k \in Keys, NEW s \in Sessions, NEW h \in Histories, Open(k, s, h)
      PROVE CapacityInv'
  <2>1. Active' = Active \cup {s} /\ s \notin Active
    BY <1>1 DEF Open, Active, SafetyInv, TypeOK
  <2>2. Cardinality(Active) < MaxSessions
    BY <1>1, CountIsExact DEF Open, SlotFree, SafetyInv, CapacityInv
  <2>3. /\ IsFiniteSet(Active') /\ Cardinality(Active') = Cardinality(Active) + 1
        /\ Cardinality(Active) \in Nat
    BY <2>1, FS_AddElement, FS_CardinalityType DEF CapacityInv
  <2>4. QED
    BY <2>2, <2>3 DEF CapacityInv, AtMostMaxSessions
<1>2. QED
  BY <1>1, OnlyOpenStarts, CapacityFrame DEF SafetyInv

\* The two invariants together hold in every reachable state.
THEOREM Capacity == Spec => [](SafetyInv /\ CapacityInv)
<1>1. Init => CapacityInv
  <2> SUFFICES ASSUME Init PROVE CapacityInv
    OBVIOUS
  <2>1. Active = {}
    BY DEF Init, Active
  <2>2. QED
    BY <2>1, FS_EmptySet DEF CapacityInv, AtMostMaxSessions
<1>2. SafetyInv /\ CapacityInv /\ [Next]_vars => CapacityInv'
  BY CapacityInductive
<1>3. QED
  BY <1>1, <1>2, Safety, PTL DEF Spec

\* However GetOrCreate calls, ends and closes interleave, no more than
\* MaxSessions sessions are active (session.go:192, 361-371).
THEOREM CapacityRespected == Spec => []AtMostMaxSessions
<1>1. CapacityInv => AtMostMaxSessions
  BY DEF CapacityInv
<1>2. QED
  BY <1>1, Capacity, PTL

-----------------------------------------------------------------------------
(* The manager implements the life cycle.                                   *)

\* Every step is a step of the life cycle or changes nothing it can see.
LEMMA StepRefines ==
  ASSUME SafetyInv, CapacityInv, [Next]_vars
  PROVE  [Lifecycle!LifeNext]_<<state, phase = "stopped">>
<1> USE DEF SafetyInv
<1>1. ASSUME NEW k \in Keys, NEW s \in Sessions, NEW h \in Histories, Open(k, s, h)
      PROVE Lifecycle!Start(s)
  <2>1. Cardinality(Active) < MaxSessions
    BY <1>1, CountIsExact DEF Open, SlotFree, CapacityInv
  <2>2. \A t \in Active : KeyOf[t] # KeyOf[s]
    BY <1>1 DEF Open, Replaceable, CurrentActive, Active, ActiveIsCurrent
  <2>3. Lifecycle!LifeActive = Active
    BY DEF Lifecycle!LifeActive, Active
  <2>4. Lifecycle!Cardinality(Active) = Cardinality(Active)
    BY DEF Cardinality, Lifecycle!Cardinality
  <2>5. QED
    BY <1>1, <2>1, <2>2, <2>3, <2>4 DEF Open, Lifecycle!Start
<1>2. ASSUME NEW s \in Sessions, MarkEnding(s), UNCHANGED phase
      PROVE Lifecycle!Finish(s)
  BY <1>2 DEF MarkEnding, Lifecycle!Finish
<1>3. CASE CloseState
  <2>1. consuming \in Sessions /\ consuming \in Waiting /\ phase # "stopped"
    BY <1>3 DEF CloseState, TypeOK, Waiting, InHand, EndedInv
  <2>2. state[consuming] = "ending"
    BY <2>1 DEF EndedInv, EndedInOnePlace
  <2>3. Lifecycle!Retire(consuming)
    BY <1>3, <2>2 DEF CloseState, Lifecycle!Retire
  <2>4. QED
    BY <2>1, <2>3 DEF Lifecycle!LifeNext
<1>4. CASE Stop
  <2> DEFINE Closing == {s \in Sessions : state[s] \in {"active", "ending"}
                                          /\ \E k \in Keys : current[k] = s}
  <2>1. state' = [s \in Sessions |-> IF s \in Closing THEN "closed" ELSE state[s]]
    <3>1. ASSUME NEW s \in Sessions, NEW k \in Keys, current[k] = s
          PROVE  s \in Closing \/ state[s] = "closed"
      BY <3>1 DEF MappedByKey, TypeOK
    <3>2. QED
      BY <1>4, <3>1 DEF Stop
  <2>2. Closing \in SUBSET {s \in Sessions : state[s] \in {"active", "ending"}}
    OBVIOUS
  <2>3. Lifecycle!ShutDown
    BY <1>4, <2>1, <2>2 DEF Stop, Lifecycle!ShutDown
  <2>4. QED
    BY <2>3 DEF Lifecycle!LifeNext
<1>5. CASE Cancel
  BY <1>5 DEF Cancel, sessionVars
<1>6. CASE UNCHANGED vars
  BY <1>6 DEF vars, sessionVars
<1>7. CASE Client
  BY <1>1, <1>2, <1>7
     DEF Client, ClientAdd, AddMessage, ClientEnd, ClientPost, PostEnd,
         sessionVars, Lifecycle!LifeNext
<1>8. CASE Consumer
  BY <1>3, <1>8
     DEF Consumer, Receive, Sediment, Unmap, ConsumerExit, sessionVars
<1>9. CASE Scanner
  <2>1. CASE ScanEnd
    <3>1. doomed \in Sessions
      BY <2>1 DEF ScanEnd, TypeOK
    <3>2. QED
      BY <1>2, <2>1, <3>1 DEF ScanEnd, sessionVars, Lifecycle!LifeNext
  <2>2. CASE ScanStart \/ ScanCheck \/ ScanDone \/ ScanPost \/ ScanExit
    BY <2>2
       DEF ScanStart, ScanCheck, ScanDone, ScanPost, ScanExit, PostEnd, sessionVars
  <2>3. QED
    BY <1>9, <2>1, <2>2 DEF Scanner
<1>10. CASE \E s \in Sessions : OverflowSend(s) \/ GoIdle(s)
  BY <1>10 DEF OverflowSend, GoIdle, sessionVars
<1>11. QED
  BY <1>4, <1>5, <1>6, <1>7, <1>8, <1>9, <1>10 DEF Next, Background

\* The session manager implements the life cycle of session.go:12-20: a session
\* goes through its states in order, closed is final, a key has one active
\* session at a time and the limit holds.
THEOREM Refinement == Spec => ImplementsLifecycle
<1>1. Init => Lifecycle!LifeInit
  BY DEF Init, Lifecycle!LifeInit
<1>2. SafetyInv /\ CapacityInv /\ [Next]_vars
        => [Lifecycle!LifeNext]_<<state, phase = "stopped">>
  BY StepRefines
<1>3. QED
  BY <1>1, <1>2, Capacity, PTL
     DEF Spec, ImplementsLifecycle, Lifecycle!LifeSpec, Lifecycle!lifeVars

===============================================================================
