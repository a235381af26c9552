--------------------------- MODULE ReconnectProofs ---------------------------
(***************************************************************************)
(* Reconnect supervision is safe for any number of sessions, reconnect      *)
(* loops, connect() and disconnect() calls, and any finite max_attempts.    *)
(***************************************************************************)
EXTENDS Reconnect, TLAPS

\* The kinds of values do not overlap.
LEMMA Kinds ==
  /\ MaxAttempts \in Nat \ {0}
  /\ None \notin Sessions \cup Loops \cup Connects \cup Disconnects
  /\ Waiters = Loops \cup Connects /\ Loops \cap Connects = {}
BY ReconnectAssumption DEF Waiters

LEMMA FreshIsNew == NewOnes # {} => Fresh \in Sessions /\ sess[Fresh] = "new"
BY DEF NewOnes, Fresh

LEMMA NewLoopIsNew == (\E l \in Loops : loop[l] = "new") => NewLoop \in Loops /\ loop[NewLoop] = "new"
BY DEF NewLoop

-----------------------------------------------------------------------------
(* Type correctness *)

\* A loop that may still fail has attempts left.
AttemptsLeft ==
  \A l \in Loops : loop[l] \in {"sleep", "attempt", "closePeer"} => failures[l] < MaxAttempts

\* What ConnectionManager.connect leaves behind.
LEMMA JoinType ==
  ASSUME TypeOK, NEW x \in Waiters, NEW creating \in {"CONNECTING", "RECONNECTING"},
         Join(x, creating)
  PROVE  /\ mgr' \in Sessions \cup {None} /\ attempt' \in BOOLEAN /\ closing' \in BOOLEAN
         /\ state' \in {"unset", "DISCONNECTED", "CONNECTING", "CONNECTED", "RECONNECTING",
                        "CLOSING", "CLOSED"}
         /\ wait' \subseteq Waiters /\ result' \in [Waiters -> Results]
<1> USE DEF TypeOK, Join, manager, Results
<1>1. CASE closing
  BY <1>1
<1>2. CASE ~closing /\ Live(mgr) # None
  BY <1>2 DEF Live
<1>3. CASE ~closing /\ Live(mgr) = None
  BY <1>3
<1> QED BY <1>1, <1>2, <1>3

LEMMA AnswerType ==
  ASSUME TypeOK, NEW r \in Results, Answer(r)
  PROVE  wait' \subseteq Waiters /\ result' \in [Waiters -> Results]
BY DEF TypeOK, Answer

LEMMA ClosePeerType ==
  ASSUME TypeOK, ClosePeer
  PROVE  /\ mgr' \in Sessions \cup {None} /\ attempt' \in BOOLEAN /\ closing' \in BOOLEAN
         /\ open' \subseteq Sessions /\ state' = "CLOSING"
         /\ wait' \subseteq Waiters /\ result' \in [Waiters -> Results]
<1>1. CASE attempt
  BY <1>1, AnswerType DEF TypeOK, ClosePeer, Results
<1>2. CASE ~attempt
  BY <1>2 DEF TypeOK, ClosePeer
<1> QED BY <1>1, <1>2

LEMMA PeerClosedType ==
  ASSUME TypeOK, PeerClosed
  PROVE  /\ mgr' = mgr /\ attempt' = attempt /\ closing' = FALSE
         /\ state' \in {state, "CLOSED"}
BY DEF PeerClosed

LEMMA ScheduleStep ==
  ASSUME TypeOK, Schedule
  PROVE  /\ failures' = failures /\ seen' = seen
         /\ \/ entry' = entry /\ loop' = loop
            \/ /\ ~suppressed /\ ~(entry # None /\ Running(entry))
               /\ entry' \in Loops /\ loop[entry'] = "new"
               /\ loop' = [loop EXCEPT ![entry'] = "top"]
<1>1. CASE suppressed \/ known # "fresh" \/ (entry # None /\ Running(entry))
  BY <1>1 DEF Schedule, loops
<1>2. CASE ~(suppressed \/ known # "fresh" \/ (entry # None /\ Running(entry)))
  BY <1>2, NewLoopIsNew DEF Schedule, StartLoop
<1> QED BY <1>1, <1>2

LEMMA TypeOKInit == Init => TypeOK /\ AttemptsLeft
<1> SUFFICES ASSUME Init PROVE TypeOK /\ AttemptsLeft
  OBVIOUS
<1> USE Kinds DEF Init
<1>1. sess \in [Sessions -> {"new", "ready", "ending", "leaving", "ended"}]
  OBVIOUS
<1>2. /\ result \in [Waiters -> Results] /\ loop \in [Loops -> LoopPCs]
      /\ failures \in [Loops -> 0..MaxAttempts] /\ seen \in [Loops -> BOOLEAN]
  BY DEF LoopPCs, Results
<1>3. /\ connect \in [Connects -> {"new", "attempt", "closePeer", "done"}]
      /\ disconnect \in [Disconnects -> {"new", "session", "close", "closing", "done"}]
  OBVIOUS
<1> QED
  BY <1>1, <1>2, <1>3 DEF TypeOK, AttemptsLeft

\* No step leaves the types; in particular no loop makes more attempts than its policy
\* allows.
LEMMA TypeOKStep == TypeOK /\ AttemptsLeft /\ [Next]_vars => TypeOK' /\ AttemptsLeft'
<1> SUFFICES ASSUME TypeOK, AttemptsLeft, [Next]_vars PROVE TypeOK' /\ AttemptsLeft'
  OBVIOUS
<1> USE Kinds DEF TypeOK, AttemptsLeft, vars, table, manager, loops, LoopPCs
<1>1. CASE InboundReady
  BY <1>1, FreshIsNew DEF InboundReady
<1>2. CASE AttemptSucceeds
  <2>1. CASE Live(canon) # None
    <3>1. canon \in Sessions
      BY <2>1 DEF Live
    <3>2. wait' \subseteq Waiters /\ result' \in [Waiters -> Results]
      BY <1>2, <2>1, <3>1, AnswerType DEF AttemptSucceeds, Results
    <3> QED BY <1>2, <2>1, <3>1, <3>2 DEF AttemptSucceeds
  <2>2. CASE Live(canon) = None
    <3>1. Fresh \in Sessions
      BY <1>2, <2>2, FreshIsNew DEF AttemptSucceeds
    <3>2. wait' \subseteq Waiters /\ result' \in [Waiters -> Results]
      BY <1>2, <2>2, <3>1, AnswerType DEF AttemptSucceeds, Results
    <3> QED BY <1>2, <2>2, <3>1, <3>2 DEF AttemptSucceeds
  <2> QED BY <2>1, <2>2
<1>3. CASE AttemptFails
  <2>1. wait' \subseteq Waiters /\ result' \in [Waiters -> Results]
    BY <1>3, AnswerType DEF AttemptFails, Results
  <2> QED BY <1>3, <2>1 DEF AttemptFails, Live
<1>4. CASE Expire \/ Announced \/ Discover
  BY <1>4 DEF Expire, Announced, Discover
<1>5. ASSUME NEW s \in Sessions, ConnectionBreaks(s) \/ SessionEnds(s)
      PROVE  TypeOK' /\ AttemptsLeft'
  BY <1>5 DEF ConnectionBreaks, SessionEnds
<1>6. ASSUME NEW s \in Sessions, SessionEnded(s) PROVE TypeOK' /\ AttemptsLeft'
  <2>1. /\ failures' = failures /\ seen' = seen
        /\ \/ entry' = entry /\ loop' = loop
           \/ /\ entry' \in Loops /\ loop' = [loop EXCEPT ![entry'] = "top"]
    BY <1>6, ScheduleStep DEF SessionEnded
  <2> QED BY <1>6, <2>1 DEF SessionEnded
<1>7. ASSUME NEW c \in Connects, Connect(c) PROVE TypeOK' /\ AttemptsLeft'
  BY <1>7, JoinType DEF Connect
<1>8. ASSUME NEW c \in Connects, ConnectReturns(c) PROVE TypeOK' /\ AttemptsLeft'
  <2>1. CASE result[c] \in {"failed", "cancelled"}
    BY <1>8, <2>1 DEF ConnectReturns, Remember
  <2>2. CASE result[c] \notin {"failed", "cancelled"} /\ canon = result[c]
    <3>1. CancelLoop
      BY <1>8, <2>2 DEF ConnectReturns
    <3>2. /\ mgr' = mgr /\ attempt' = attempt /\ closing' \in BOOLEAN
          /\ state' \in {state, "CLOSED"} /\ wait' \subseteq wait /\ result' = result
          /\ loop' = [l \in Loops |-> IF l = entry /\ Running(l) THEN "done" ELSE loop[l]]
      BY <3>1 DEF CancelLoop, PeerClosed, manager, EndLoops
    <3> QED BY <1>8, <2>2, <3>2 DEF ConnectReturns, Remember, Running
  <2>3. CASE result[c] \notin {"failed", "cancelled"} /\ canon # result[c]
    BY <1>8, <2>3, ClosePeerType DEF ConnectReturns, Remember
  <2> QED BY <2>1, <2>2, <2>3
<1>9. ASSUME NEW c \in Connects, ConnectClosed(c) PROVE TypeOK' /\ AttemptsLeft'
  BY <1>9, PeerClosedType DEF ConnectClosed
<1>10. ASSUME NEW l \in Loops, LoopStep(l) PROVE TypeOK' /\ AttemptsLeft'
  <2>1. CASE LoopTop(l)
    <3>1. CASE suppressed \/ Exhausted(l) \/ known # "fresh"
      BY <2>1, <3>1 DEF LoopTop, Live
    <3>2. CASE ~(suppressed \/ Exhausted(l) \/ known # "fresh")
      <4>1. failures[l] \in 0..MaxAttempts /\ failures[l] < MaxAttempts
        BY <3>2 DEF Exhausted
      <4> QED BY <2>1, <3>2, <4>1 DEF LoopTop, Live
    <3> QED BY <3>1, <3>2
  <2>2. CASE LoopWakes(l)
    BY <2>2, JoinType DEF LoopWakes
  <2>3. CASE LoopResumes(l)
    BY <2>3, ClosePeerType DEF LoopResumes, Remember
  <2>4. CASE LoopClosed(l)
    <3>1. loop' = [loop EXCEPT ![l] = "top"] /\ failures' = [failures EXCEPT ![l] = @ + 1]
      BY <2>4 DEF LoopClosed
    <3>2. /\ failures' \in [Loops -> 0..MaxAttempts] /\ loop' \in [Loops -> LoopPCs]
          /\ AttemptsLeft'
      BY <2>4, <3>1 DEF LoopClosed
    <3> QED BY <2>4, <3>2, PeerClosedType DEF LoopClosed
  <2>5. CASE LoopFinished(l)
    BY <2>5 DEF LoopFinished
  <2> QED BY <1>10, <2>1, <2>2, <2>3, <2>4, <2>5 DEF LoopStep
<1>11. ASSUME NEW d \in Disconnects, Disconnect(d) PROVE TypeOK' /\ AttemptsLeft'
  BY <1>11 DEF Disconnect, CancelLoop, PeerClosed, manager, EndLoops, Running
<1>12. ASSUME NEW d \in Disconnects, DisconnectSession(d) PROVE TypeOK' /\ AttemptsLeft'
  BY <1>12 DEF DisconnectSession
<1>13. ASSUME NEW d \in Disconnects, DisconnectCloses(d) PROVE TypeOK' /\ AttemptsLeft'
  BY <1>13, ClosePeerType DEF DisconnectCloses
<1>14. ASSUME NEW d \in Disconnects, Disconnected(d) PROVE TypeOK' /\ AttemptsLeft'
  BY <1>14, PeerClosedType DEF Disconnected
<1>15. CASE UNCHANGED vars
  BY <1>15
<1> QED
  BY <1>1, <1>2, <1>3, <1>4, <1>5, <1>6, <1>7, <1>8, <1>9, <1>10, <1>11, <1>12, <1>13,
     <1>14, <1>15 DEF Next

\* The state stays well typed; a loop never makes more than max_attempts attempts.
THEOREM TypeCorrect == Spec => []TypeOK
<1>1. Spec => [](TypeOK /\ AttemptsLeft)
  BY TypeOKInit, TypeOKStep, PTL DEF Spec
<1> QED
  BY <1>1, PTL

-----------------------------------------------------------------------------
(* One loop, and none after disconnect() *)

\* What DisconnectHolds rests on: a suppressed peer has no loop, and an attempt that
\* is still in flight is one that a running disconnect() has yet to cancel.
Suppressed ==
  suppressed => /\ \A l \in Loops : ~Running(l)
                /\ attempt => \E d \in Disconnects : disconnect[d] \in {"session", "close"}

\* Only a lost session starts a loop, and only when no other runs and the peer is not
\* suppressed; only a connect() call or a loop starts an attempt.
LEMMA LoopStepInv == TypeOK /\ OneLoop /\ Suppressed /\ [Next]_vars => OneLoop' /\ Suppressed'
<1> SUFFICES ASSUME TypeOK, OneLoop, Suppressed, [Next]_vars PROVE OneLoop' /\ Suppressed'
  OBVIOUS
<1> USE Kinds DEF TypeOK, OneLoop, Suppressed, Running, vars, table, manager, loops
<1>1. CASE InboundReady \/ AttemptSucceeds \/ AttemptFails \/ Expire \/ Announced \/ Discover
  BY <1>1 DEF InboundReady, AttemptSucceeds, AttemptFails, Expire, Announced, Discover
<1>2. ASSUME NEW s \in Sessions, ConnectionBreaks(s) \/ SessionEnds(s)
      PROVE  OneLoop' /\ Suppressed'
  BY <1>2 DEF ConnectionBreaks, SessionEnds
<1>3. ASSUME NEW s \in Sessions, SessionEnded(s) PROVE OneLoop' /\ Suppressed'
  <2>1. \/ entry' = entry /\ loop' = loop
        \/ /\ ~suppressed /\ ~(entry # None /\ Running(entry))
           /\ entry' \in Loops /\ loop' = [loop EXCEPT ![entry'] = "top"]
    BY <1>3, ScheduleStep DEF SessionEnded
  <2>2. UNCHANGED <<suppressed, attempt, disconnect>>
    BY <1>3 DEF SessionEnded
  <2> QED BY <2>1, <2>2
<1>4. ASSUME NEW c \in Connects, Connect(c) PROVE OneLoop' /\ Suppressed'
  BY <1>4 DEF Connect
<1>5. ASSUME NEW c \in Connects, ConnectReturns(c) PROVE OneLoop' /\ Suppressed'
  BY <1>5 DEF ConnectReturns, CancelLoop, PeerClosed, manager, EndLoops, ClosePeer
<1>6. ASSUME NEW c \in Connects, ConnectClosed(c) PROVE OneLoop' /\ Suppressed'
  BY <1>6 DEF ConnectClosed, PeerClosed
<1>7. ASSUME NEW l \in Loops, LoopStep(l) PROVE OneLoop' /\ Suppressed'
  <2>1. CASE LoopTop(l)
    BY <2>1 DEF LoopTop, Exhausted
  <2>2. CASE LoopWakes(l)
    BY <2>2 DEF LoopWakes
  <2>3. CASE LoopResumes(l)
    BY <2>3 DEF LoopResumes, ClosePeer
  <2>4. CASE LoopClosed(l)
    BY <2>4 DEF LoopClosed, PeerClosed
  <2>5. CASE LoopFinished(l)
    BY <2>5 DEF LoopFinished
  <2> QED BY <1>7, <2>1, <2>2, <2>3, <2>4, <2>5 DEF LoopStep
<1>8. ASSUME NEW d \in Disconnects, Disconnect(d) PROVE OneLoop' /\ Suppressed'
  <2>1. \A l \in Loops : ~Running(l)'
    BY <1>8 DEF Disconnect, CancelLoop, PeerClosed, manager, EndLoops
  <2>2. disconnect'[d] = "session"
    BY <1>8 DEF Disconnect
  <2> QED BY <2>1, <2>2
<1>9. ASSUME NEW d \in Disconnects,
             DisconnectSession(d) \/ DisconnectCloses(d) \/ Disconnected(d)
      PROVE  OneLoop' /\ Suppressed'
  BY <1>9 DEF DisconnectSession, DisconnectCloses, Disconnected, ClosePeer, PeerClosed
<1>10. CASE UNCHANGED vars
  BY <1>10
<1> QED
  BY <1>1, <1>2, <1>3, <1>4, <1>5, <1>6, <1>7, <1>8, <1>9, <1>10 DEF Next

LEMMA LoopInv == Spec => [](OneLoop /\ Suppressed)
<1>1. Init => OneLoop /\ Suppressed
  BY DEF Init, OneLoop, Suppressed, Running
<1> QED
  BY <1>1, TypeCorrect, LoopStepInv, PTL DEF Spec

\* However many sessions are lost and connect() and disconnect() calls overlap, at most
\* one reconnect loop runs and it is registered where it can be cancelled.
THEOREM OneLoopAtATime == Spec => []OneLoop
BY LoopInv, PTL

\* Once disconnect() has returned, and until connect() is called, the node neither
\* runs a reconnect loop nor has an attempt in flight.
THEOREM DisconnectIsFinal == Spec => []DisconnectHolds
<1>1. Suppressed => DisconnectHolds
  BY DEF Suppressed, DisconnectHolds, Disconnecting
<1> QED
  BY <1>1, LoopInv, PTL
=============================================================================
