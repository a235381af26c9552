----------------------- MODULE ConnectionManagerProofs -----------------------
(***************************************************************************)
(* Safety of core/manager.py for any number of tasks, inbound connections, *)
(* connect() callers and close calls.                                      *)
(***************************************************************************)
EXTENDS ConnectionManager, TLAPS

\* The kinds of values do not overlap.
LEMMA Kinds ==
  /\ Tasks \subseteq Conns /\ Inbound \subseteq Conns
  /\ Tasks \cap Inbound = {}
  /\ None \notin Conns /\ None \notin Tasks
  /\ Closers \subseteq ClosingCalls /\ All \in ClosingCalls
BY ConstantsAssumption DEF Conns, ClosingCalls

-----------------------------------------------------------------------------
(* Type correctness *)

LEMMA TypeOKInit == Init => TypeOK
<1> SUFFICES ASSUME Init PROVE TypeOK
  OBVIOUS
<1> USE DEF Init
<1>1. phys \in [Conns -> {"absent", "open", "closed"}] /\ tpc \in [Tasks -> TaskPCs]
  BY DEF TaskPCs
<1>2. selected \in [Tasks -> Conns \cup {None}] /\ cancelled \in [Tasks -> BOOLEAN]
  OBVIOUS
<1>3. cpc \in [ClosingCalls -> {"idle", "awaitTask", "awaitClose", "cancelling"}]
  OBVIOUS
<1>4. /\ caller \in [Callers -> Tasks \cup {None}]
      /\ ctask \in [ClosingCalls -> Tasks \cup {None}]
      /\ cconn \in [ClosingCalls -> Conns \cup {None}]
  OBVIOUS
<1> QED
  BY <1>1, <1>2, <1>3, <1>4 DEF TypeOK, States

\* No step of any coroutine leaves the types: in particular adopt() never hands
\* None to the node, and a close call never cancels or closes None.
LEMMA TypeOKStep == TypeOK /\ [Next]_vars => TypeOK'
<1> SUFFICES ASSUME TypeOK, [Next]_vars PROVE TypeOK'
  OBVIOUS
<1> USE Kinds DEF TypeOK, vars, mgr, tasks, calls, node
<1>1. CASE GetById
  BY <1>1 DEF GetById, Live, StateAfterGet, States
<1>2. CASE MarkReconnecting
  BY <1>2 DEF MarkReconnecting, Live, StateAfterGet, States
<1>3. CASE MarkDisconnected
  BY <1>3 DEF MarkDisconnected, Live, StateAfterGet, States
<1>4. ASSUME NEW c \in Callers, Connect(c) PROVE TypeOK'
  BY <1>4 DEF Connect, StateAfterGet, Live, States, TaskPCs
<1>5. ASSUME NEW c \in Callers, ConnectReturns(c) PROVE TypeOK'
  BY <1>5 DEF ConnectReturns
<1>6. ASSUME NEW c \in Callers, ConnectCancelled(c) PROVE TypeOK'
  BY <1>6 DEF ConnectCancelled
<1>7. ASSUME NEW t \in Tasks, TaskStep(t) PROVE TypeOK'
  <2> USE DEF FinishFailed, Raise, Install, Close, Live, States, TaskPCs, Ended, Owning
  <2>1. CASE OpenStarts(t)           BY <2>1 DEF OpenStarts
  <2>2. CASE DialSucceeds(t)         BY <2>2 DEF DialSucceeds
  <2>3. CASE DialFails(t)            BY <2>3 DEF DialFails
  <2>4. ASSUME NEW sel \in Conns, PrepareReturns(t, sel) PROVE TypeOK'
    BY <2>4 DEF PrepareReturns
  <2>5. CASE PrepareRaises(t)        BY <2>5 DEF PrepareRaises
  <2>6. CASE PrepareAbsorbsCancel(t) BY <2>6 DEF PrepareAbsorbsCancel
  <2>7. CASE OpenedClosed(t)
    <3>1. CASE Install(t, selected[t])
      <4>1. CASE Closing              BY <2>7, <3>1, <4>1 DEF OpenedClosed
      <4>2. CASE ~Closing /\ connections \in {None, selected[t]}
        BY <2>7, <3>1, <4>2 DEF OpenedClosed
      <4>3. CASE ~Closing /\ connections \notin {None, selected[t]}
        BY <2>7, <3>1, <4>3 DEF OpenedClosed
      <4> QED BY <4>1, <4>2, <4>3
    <3>2. CASE Raise(t, "failed")       BY <2>7, <3>2 DEF OpenedClosed
    <3> QED BY <2>7, <3>1, <3>2 DEF OpenedClosed
  <2>8. CASE PreviousClosed(t)       BY <2>8 DEF PreviousClosed
  <2>9. CASE PreviousCloseRaises(t)  BY <2>9 DEF PreviousCloseRaises
  <2>10. CASE CleanupReturns(t)      BY <2>10 DEF CleanupReturns
  <2> QED BY <1>7, <2>1, <2>2, <2>3, <2>4, <2>5, <2>6, <2>7, <2>8, <2>9, <2>10 DEF TaskStep
<1>8. ASSUME NEW c \in Inbound, Accept(c) PROVE TypeOK'
  BY <1>8 DEF Accept
<1>9. ASSUME NEW c \in Inbound, Adopt(c) PROVE TypeOK'
  BY <1>9 DEF Adopt, States
<1>10. ASSUME NEW c \in Conns, Retire(c) PROVE TypeOK'
  BY <1>10 DEF Retire, Close
<1>11. ASSUME NEW c \in Conns, ConnectionLost(c) PROVE TypeOK'
  BY <1>11 DEF ConnectionLost, Close, States
<1>12. ASSUME NEW c \in Conns, RemoteCloses(c) PROVE TypeOK'
  BY <1>12 DEF RemoteCloses, Close
<1>13. ASSUME NEW k \in ClosingCalls, StartClose(k) PROVE TypeOK'
  <2>1. closingPeer' \in BOOLEAN /\ closing' \in BOOLEAN /\ swept' \in BOOLEAN
    <3>1. swept' = swept \/ swept' = (states # "unset")  BY <1>13 DEF StartClose
    <3>2. closingPeer' = FALSE \/ closingPeer' = (closingPeer \/ k # All)
      BY <1>13 DEF StartClose
    <3>3. closing' = closing \/ closing' = (closing \/ k = All)
      BY <1>13 DEF StartClose
    <3> QED BY <3>1, <3>2, <3>3, Zenon
  <2>2. CASE inFlight = None /\ connections = None
    BY <1>13, <2>1, <2>2 DEF StartClose, States
  <2>3. CASE inFlight # None
    <3>1. /\ cancelled' = [cancelled EXCEPT ![inFlight] = TRUE]
          /\ cpc' = [cpc EXCEPT ![k] = "awaitTask"]
          /\ ctask' = [ctask EXCEPT ![k] = inFlight]
          /\ cconn' = [cconn EXCEPT ![k] = connections]
          /\ states' = "CLOSING" /\ inFlight' = None /\ connections' = None
          /\ UNCHANGED <<phys, tpc, selected, caller, node, abandoned>>
      BY <1>13, <2>3 DEF StartClose
    <3> QED BY <2>1, <2>3, <3>1 DEF States
  <2>4. CASE inFlight = None /\ connections # None
    BY <1>13, <2>1, <2>4 DEF StartClose, Close, States
  <2> QED BY <2>2, <2>3, <2>4
<1>14. ASSUME NEW k \in ClosingCalls, CloseStep(k) PROVE TypeOK'
  <2>1. CASE CloseConnection(k)
    BY <2>1 DEF CloseConnection, FinishClose, Close, States
  <2>2. CASE CloseReturns(k)
    BY <2>2 DEF CloseReturns, FinishClose, States
  <2>3. CASE CancelledCloseEnds(k)
    BY <2>3 DEF CancelledCloseEnds, FinishClose, States
  <2> QED BY <1>14, <2>1, <2>2, <2>3 DEF CloseStep
<1>15. ASSUME NEW k \in Closers, GatherCancelled(k) PROVE TypeOK'
  BY <1>15 DEF GatherCancelled
<1>16. CASE UNCHANGED vars
  BY <1>16
<1> QED
  BY <1>1, <1>2, <1>3, <1>4, <1>5, <1>6, <1>7, <1>8, <1>9, <1>10, <1>11, <1>12, <1>13,
     <1>14, <1>15, <1>16 DEF Next

\* The manager's state stays well typed in every execution.
THEOREM TypeCorrect == Spec => []TypeOK
BY TypeOKInit, TypeOKStep, PTL DEF Spec

-----------------------------------------------------------------------------
(* No connection leaks *)

\* NoLeak without its quantifier: who answers for the open connection x.
Answered(x) ==
  \/ x = connections
  \/ x \in Tasks /\ tpc[x] = "prepare"
  \/ x \in incoming \cup retiring \cup abandoned
  \/ Held(x)

\* Every step hands an open connection on to somebody: what a task dials it
\* publishes or closes, what publishing or adopting displaces is closed or
\* retired, and what a close call pops it holds until it is closed.
LEMMA NoLeakStep == TypeOK /\ NoLeak /\ [Next]_vars => NoLeak'
<1> SUFFICES ASSUME TypeOK, NoLeak, [Next]_vars, NEW x \in Conns, phys'[x] = "open"
             PROVE  Answered(x)'
  BY DEF NoLeak, Answered
<1>0. phys[x] = "open" => Answered(x)
  BY DEF NoLeak, Answered
<1> USE Kinds DEF TypeOK, mgr, tasks, calls, node
<1>1. CASE GetById
  BY <1>0, <1>1 DEF GetById, Live, Answered, Held
<1>2. CASE MarkReconnecting
  BY <1>0, <1>2 DEF MarkReconnecting, Live, Answered, Held
<1>3. CASE MarkDisconnected
  BY <1>0, <1>3 DEF MarkDisconnected, Live, Answered, Held
<1>4. ASSUME NEW c \in Callers, Connect(c) PROVE Answered(x)'
  BY <1>0, <1>4 DEF Connect, Live, Answered, Held
<1>5. ASSUME NEW c \in Callers, ConnectReturns(c) \/ ConnectCancelled(c)
      PROVE  Answered(x)'
  BY <1>0, <1>5 DEF ConnectReturns, ConnectCancelled, Answered, Held
<1>7. ASSUME NEW t \in Tasks, TaskStep(t) PROVE Answered(x)'
  <2>0. Held(x) => Held(x)'
    BY <1>7 DEF TaskStep, OpenStarts, DialSucceeds, DialFails, PrepareReturns, PrepareRaises,
       PrepareAbsorbsCancel, OpenedClosed, PreviousClosed, PreviousCloseRaises,
       CleanupReturns, Held
  <2> USE <1>0, <2>0 DEF FinishFailed, Raise, Close, Live, Answered
  <2>1. CASE OpenStarts(t)           BY <2>1 DEF OpenStarts
  <2>2. CASE DialSucceeds(t)         BY <2>2 DEF DialSucceeds
  <2>3. CASE DialFails(t)            BY <2>3 DEF DialFails
  <2>4. ASSUME NEW sel \in Conns, PrepareReturns(t, sel) PROVE Answered(x)'
    BY <2>4 DEF PrepareReturns, Install
  <2>5. CASE PrepareRaises(t)        BY <2>5 DEF PrepareRaises
  <2>6. CASE PrepareAbsorbsCancel(t) BY <2>6 DEF PrepareAbsorbsCancel
  <2>7. CASE OpenedClosed(t)         BY <2>7 DEF OpenedClosed, Install
  <2>8. CASE PreviousClosed(t)       BY <2>8 DEF PreviousClosed
  <2>9. CASE PreviousCloseRaises(t)  BY <2>9 DEF PreviousCloseRaises
  <2>10. CASE CleanupReturns(t)      BY <2>10 DEF CleanupReturns
  <2> QED BY <1>7, <2>1, <2>2, <2>3, <2>4, <2>5, <2>6, <2>7, <2>8, <2>9, <2>10 DEF TaskStep
<1>8. ASSUME NEW c \in Inbound, Accept(c) PROVE Answered(x)'
  BY <1>0, <1>8 DEF Accept, Answered, Held
<1>9. ASSUME NEW c \in Inbound, Adopt(c) PROVE Answered(x)'
  BY <1>0, <1>9 DEF Adopt, Answered, Held
<1>10. ASSUME NEW c \in Conns, Retire(c) PROVE Answered(x)'
  BY <1>0, <1>10 DEF Retire, Close, Answered, Held
<1>11. ASSUME NEW c \in Conns, ConnectionLost(c) PROVE Answered(x)'
  BY <1>0, <1>11 DEF ConnectionLost, Close, Answered, Held
<1>12. ASSUME NEW c \in Conns, RemoteCloses(c) PROVE Answered(x)'
  BY <1>0, <1>12 DEF RemoteCloses, Close, Answered, Held
<1>13. ASSUME NEW k \in ClosingCalls, StartClose(k) PROVE Answered(x)'
  <2>1. Held(x) => Held(x)'
    BY <1>13 DEF StartClose, Held
  <2>2. x = connections => Held(x)'
    BY <1>13 DEF StartClose, Close, Held
  <2>3. phys[x] = "open"
    BY <1>13 DEF StartClose, Close
  <2> QED BY <1>0, <1>13, <2>1, <2>2, <2>3 DEF StartClose, Answered
<1>14. ASSUME NEW k \in ClosingCalls, CloseStep(k) PROVE Answered(x)'
  <2>1. CASE CloseConnection(k)
    BY <1>0, <2>1 DEF CloseConnection, FinishClose, Close, Answered, Held
  <2>2. CASE CloseReturns(k)
    BY <1>0, <2>2 DEF CloseReturns, FinishClose, Answered, Held
  <2>3. CASE CancelledCloseEnds(k)
    BY <1>0, <2>3 DEF CancelledCloseEnds, FinishClose, Answered, Held
  <2> QED BY <1>14, <2>1, <2>2, <2>3 DEF CloseStep
<1>15. ASSUME NEW k \in Closers, GatherCancelled(k) PROVE Answered(x)'
  BY <1>0, <1>15 DEF GatherCancelled, Answered, Held
<1>16. CASE UNCHANGED vars
  BY <1>0, <1>16 DEF vars, Answered, Held
<1> QED
  BY <1>1, <1>2, <1>3, <1>4, <1>5, <1>7, <1>8, <1>9, <1>10, <1>11, <1>12, <1>13,
     <1>14, <1>15, <1>16 DEF Next

\* In every execution an open connection is canonical or in somebody's hands.
THEOREM ConnectionsDoNotLeak == Spec => []NoLeak
<1>1. Init => NoLeak
  BY DEF Init, NoLeak
<1> QED
  BY <1>1, TypeCorrect, NoLeakStep, PTL DEF Spec

-----------------------------------------------------------------------------
(* The logical state agrees with the maps *)

\* StateAgrees is not inductive: a finishing close call must know that CLOSING
\* excludes an attempt in flight, that close_all has seen the peer, and that the
\* closing flags kept any connection from being stored meanwhile; a task
\* that ends after publishing that nobody is CONNECTING through it, and one that
\* gave up its own connection that it has another to publish.
StateInv ==
  /\ StateAgrees
  /\ states = "unset" => connections = None /\ inFlight = None
  /\ states = "CLOSING" => inFlight = None
  /\ states = "CONNECTING" => tpc[inFlight] # "closePrev"
  /\ Closing => connections = None
  /\ cpc[All] # "idle" => closing /\ swept
  /\ \A t \in Tasks : tpc[t] = "closeOpened" => selected[t] # None

\* Every locked section leaves state and maps in agreement: get_by_id drops the
\* state with the connection, and an attempt, an adoption, a loss and a close
\* call each write the state that goes with what they store or remove.
LEMMA StateInvStep == TypeOK /\ StateInv /\ [Next]_vars => StateInv'
<1> SUFFICES ASSUME TypeOK, StateInv, [Next]_vars PROVE StateInv'
  OBVIOUS
<1> USE Kinds DEF TypeOK, StateInv, StateAgrees, Closing, mgr, tasks, calls, node
<1>1. CASE GetById
  BY <1>1 DEF GetById, Live, StateAfterGet
<1>2. CASE MarkReconnecting
  BY <1>2 DEF MarkReconnecting, Live, StateAfterGet
<1>3. CASE MarkDisconnected
  BY <1>3 DEF MarkDisconnected, Live, StateAfterGet
<1>4. ASSUME NEW c \in Callers, Connect(c) PROVE StateInv'
  <2>1. CASE inFlight # None
    BY <1>4, <2>1 DEF Connect, Live, StateAfterGet
  <2>2. CASE inFlight = None
    BY <1>4, <2>2 DEF Connect, Live
  <2> QED BY <2>1, <2>2
<1>5. ASSUME NEW c \in Callers, ConnectReturns(c) \/ ConnectCancelled(c)
      PROVE  StateInv'
  BY <1>5 DEF ConnectReturns, ConnectCancelled
<1>6. ASSUME NEW t \in Tasks, TaskStep(t) PROVE StateInv'
  <2> USE DEF FinishFailed, Raise, Close, Live
  <2>1. CASE OpenStarts(t)           BY <2>1 DEF OpenStarts
  <2>2. CASE DialSucceeds(t)         BY <2>2 DEF DialSucceeds
  <2>3. CASE DialFails(t)            BY <2>3 DEF DialFails
  <2>4. ASSUME NEW sel \in Conns, PrepareReturns(t, sel) PROVE StateInv'
    BY <2>4 DEF PrepareReturns, Install
  <2>5. CASE PrepareRaises(t)        BY <2>5 DEF PrepareRaises
  <2>6. CASE PrepareAbsorbsCancel(t) BY <2>6 DEF PrepareAbsorbsCancel
  <2>7. CASE OpenedClosed(t)         BY <2>7 DEF OpenedClosed, Install
  <2>8. CASE PreviousClosed(t)       BY <2>8 DEF PreviousClosed
  <2>9. CASE PreviousCloseRaises(t)  BY <2>9 DEF PreviousCloseRaises
  <2>10. CASE CleanupReturns(t)      BY <2>10 DEF CleanupReturns
  <2> QED BY <1>6, <2>1, <2>2, <2>3, <2>4, <2>5, <2>6, <2>7, <2>8, <2>9, <2>10 DEF TaskStep
<1>7. ASSUME NEW c \in Inbound, Accept(c) PROVE StateInv'
  BY <1>7 DEF Accept
<1>8. ASSUME NEW c \in Inbound, Adopt(c) PROVE StateInv'
  BY <1>8 DEF Adopt
<1>9. ASSUME NEW c \in Conns, Retire(c) \/ RemoteCloses(c) PROVE StateInv'
  BY <1>9 DEF Retire, RemoteCloses
<1>10. ASSUME NEW c \in Conns, ConnectionLost(c) PROVE StateInv'
  BY <1>10 DEF ConnectionLost
<1>11. ASSUME NEW k \in ClosingCalls, StartClose(k) PROVE StateInv'
  <2>1. CASE inFlight = None /\ connections = None
    BY <1>11, <2>1 DEF StartClose
  <2>2. CASE inFlight # None \/ connections # None
    <3>1. cpc'[k] # "idle" /\ \A j \in ClosingCalls : j # k => cpc'[j] = cpc[j]
      BY <1>11, <2>2 DEF StartClose
    <3>2. cpc'[All] # "idle" => closing' /\ swept'
      BY <1>11, <2>2, <3>1 DEF StartClose
    <3> QED BY <1>11, <2>2, <3>1, <3>2 DEF StartClose
  <2> QED BY <2>1, <2>2
<1>12. ASSUME NEW k \in ClosingCalls, CloseStep(k) PROVE StateInv'
  <2>0. ASSUME FinishClose(k), cpc[k] # "idle", UNCHANGED <<tpc, selected, swept>>
        PROVE  StateInv'
    <3>1. states' \in {states, "CLOSED"} /\ states' # "CLOSING"
      BY <2>0 DEF FinishClose
    <3>2. states' = "CLOSED" => connections = None
      BY <2>0 DEF FinishClose
    <3>3. cpc'[All] # "idle" => closing' /\ swept'
      BY <2>0 DEF FinishClose
    <3> QED BY <2>0, <3>1, <3>2, <3>3 DEF FinishClose
  <2>1. CASE CloseConnection(k)
    BY <2>0, <2>1 DEF CloseConnection
  <2>2. CASE CloseReturns(k)
    BY <2>0, <2>2 DEF CloseReturns
  <2>3. CASE CancelledCloseEnds(k)
    BY <2>0, <2>3 DEF CancelledCloseEnds
  <2> QED BY <1>12, <2>1, <2>2, <2>3 DEF CloseStep
<1>13. ASSUME NEW k \in Closers, GatherCancelled(k) PROVE StateInv'
  BY <1>13 DEF GatherCancelled
<1>14. CASE UNCHANGED vars
  BY <1>14 DEF vars
<1> QED
  BY <1>1, <1>2, <1>3, <1>4, <1>5, <1>6, <1>7, <1>8, <1>9, <1>10, <1>11, <1>12, <1>13,
     <1>14 DEF Next

\* In every execution CONNECTED means exactly that a connection is stored,
\* CONNECTING that an attempt is in flight, and CLOSING that a close call runs.
THEOREM StatesAgree == Spec => []StateAgrees
<1>1. Init => StateInv
  BY Kinds DEF Init, StateInv, StateAgrees, Closing
<1>2. StateInv => StateAgrees
  BY DEF StateInv
<1> QED
  BY <1>1, <1>2, TypeCorrect, StateInvStep, PTL DEF Spec

-----------------------------------------------------------------------------
(* One attempt at a time, and a close call wins over the one it popped *)

\* The attempt that close call k popped is out of the manager's maps and still
\* alive only while k waits for it.
Popped(k) ==
  /\ ctask[k] # inFlight /\ tpc[ctask[k]] # "new"
  /\ cpc[k] # "idle"
  /\ cpc[k] = "awaitClose" => tpc[ctask[k]] \in Ended

\* It can only fail: it is cancelled unless it has failed already, or its
\* cancellation was absorbed and close_all's flag will stop it.
Doomed(k) ==
  LET t == ctask[k]
  IN  /\ connections # t
      /\ \/ tpc[t] \in {"cleanup", "failed", "cancelled"}
         \/ cancelled[t] /\ Alive(t)
         \/ k = All /\ t \in Absorbing /\ tpc[t] \in {"prepare", "closeOpened"}

\* What SingleFlight and CloseWins rest on: a task that still attempts something
\* is the one in flight or has been popped by a close call that waits for it.
FlightInv ==
  /\ \A t \in Tasks :
       /\ Alive(t) /\ (\A k \in ClosingCalls : ctask[k] # t) => inFlight = t
       /\ cancelled[t] => inFlight # t /\ tpc[t] # "new"
       /\ inFlight = t => tpc[t] \notin Ended \cup {"new"}
       /\ tpc[t] = "closeOpened" => selected[t] \in Inbound
  /\ cpc[All] # "idle" => closing
  /\ \A k \in ClosingCalls : ctask[k] # None =>
       /\ Popped(k)
       /\ k = All \/ ctask[k] \notin Absorbing => Doomed(k)

\* Only connect() starts an attempt, when none is in flight; a close call cancels
\* the one it pops; and a cancelled task can no longer publish.
LEMMA FlightInvStep == TypeOK /\ FlightInv /\ [Next]_vars => FlightInv'
<1> SUFFICES ASSUME TypeOK, FlightInv, [Next]_vars PROVE FlightInv'
  OBVIOUS
<1> USE Kinds DEF TypeOK, FlightInv, Alive, Popped, Doomed, Ended, mgr, tasks, calls, node
<1>1. CASE GetById
  BY <1>1 DEF GetById, Live
<1>2. CASE MarkReconnecting
  BY <1>2 DEF MarkReconnecting, Live
<1>3. CASE MarkDisconnected
  BY <1>3 DEF MarkDisconnected, Live
<1>4. ASSUME NEW c \in Callers, Connect(c) PROVE FlightInv'
  BY <1>4 DEF Connect
<1>5. ASSUME NEW c \in Callers, ConnectReturns(c) \/ ConnectCancelled(c)
      PROVE  FlightInv'
  BY <1>5 DEF ConnectReturns, ConnectCancelled
<1>6. ASSUME NEW t \in Tasks, TaskStep(t) PROVE FlightInv'
  <2> USE DEF FinishFailed, Raise, Close, Live
  <2>1. CASE OpenStarts(t)           BY <2>1 DEF OpenStarts
  <2>2. CASE DialSucceeds(t)         BY <2>2 DEF DialSucceeds
  <2>3. CASE DialFails(t)            BY <2>3 DEF DialFails
  <2>4. ASSUME NEW sel \in Conns, PrepareReturns(t, sel) PROVE FlightInv'
    BY <2>4 DEF PrepareReturns, Install, Closing
  <2>5. CASE PrepareRaises(t)        BY <2>5 DEF PrepareRaises
  <2>6. CASE PrepareAbsorbsCancel(t) BY <2>6 DEF PrepareAbsorbsCancel
  <2>7. CASE OpenedClosed(t)         BY <2>7 DEF OpenedClosed, Install, Closing
  <2>8. CASE PreviousClosed(t)       BY <2>8 DEF PreviousClosed
  <2>9. CASE PreviousCloseRaises(t)  BY <2>9 DEF PreviousCloseRaises
  <2>10. CASE CleanupReturns(t)      BY <2>10 DEF CleanupReturns
  <2> QED BY <1>6, <2>1, <2>2, <2>3, <2>4, <2>5, <2>6, <2>7, <2>8, <2>9, <2>10 DEF TaskStep
<1>7. ASSUME NEW c \in Inbound, Accept(c) PROVE FlightInv'
  BY <1>7 DEF Accept
<1>8. ASSUME NEW c \in Inbound, Adopt(c) PROVE FlightInv'
  BY <1>8 DEF Adopt
<1>9. ASSUME NEW c \in Conns, Retire(c) \/ RemoteCloses(c) PROVE FlightInv'
  BY <1>9 DEF Retire, RemoteCloses
<1>10. ASSUME NEW c \in Conns, ConnectionLost(c) PROVE FlightInv'
  BY <1>10 DEF ConnectionLost
<1>11. ASSUME NEW k \in ClosingCalls, StartClose(k) PROVE FlightInv'
  <2>1. CASE inFlight = None /\ connections = None
    BY <1>11, <2>1 DEF StartClose
  <2>2. CASE inFlight = None /\ connections # None
    <3>1. /\ connections' = None /\ inFlight' = None
          /\ UNCHANGED <<tpc, selected, cancelled>>
          /\ closing \/ k = All => closing'
          /\ cpc' = [cpc EXCEPT ![k] = "awaitClose"]
          /\ ctask' = [ctask EXCEPT ![k] = None]
      BY <1>11, <2>2 DEF StartClose
    <3>2. cpc[k] = "idle"
      BY <1>11 DEF StartClose
    <3> QED BY <2>2, <3>1, <3>2
  <2>3. ASSUME NEW t \in Tasks, inFlight = t PROVE FlightInv'
    <3>1. /\ connections' = None /\ inFlight' = None
          /\ UNCHANGED <<tpc, selected>>
          /\ closing \/ k = All => closing'
          /\ cancelled' = [cancelled EXCEPT ![t] = TRUE]
          /\ cpc' = [cpc EXCEPT ![k] = "awaitTask"]
          /\ ctask' = [ctask EXCEPT ![k] = t]
      BY <1>11, <2>3 DEF StartClose
    <3>2. cpc[k] = "idle"
      BY <1>11 DEF StartClose
    <3>3. Doomed(k)' /\ Popped(k)'
      BY <2>3, <3>1 DEF TaskPCs, Owning
    <3>4. ASSUME NEW j \in ClosingCalls, ctask'[j] # None
          PROVE  Popped(j)' /\ (j = All \/ ctask'[j] \notin Absorbing => Doomed(j)')
      BY <2>3, <3>1, <3>3, <3>4
    <3> QED BY <2>3, <3>1, <3>2, <3>4
  <2> QED BY <2>1, <2>2, <2>3
<1>12. ASSUME NEW k \in ClosingCalls, CloseStep(k) PROVE FlightInv'
  <2>1. CASE CloseConnection(k)
    BY <2>1 DEF CloseConnection, FinishClose
  <2>2. CASE CloseReturns(k)
    BY <2>2 DEF CloseReturns, FinishClose
  <2>3. CASE CancelledCloseEnds(k)
    BY <2>3 DEF CancelledCloseEnds, FinishClose
  <2> QED BY <1>12, <2>1, <2>2, <2>3 DEF CloseStep
<1>13. ASSUME NEW k \in Closers, GatherCancelled(k) PROVE FlightInv'
  BY <1>13 DEF GatherCancelled
<1>14. CASE UNCHANGED vars
  BY <1>14 DEF vars
<1> QED
  BY <1>1, <1>2, <1>3, <1>4, <1>5, <1>6, <1>7, <1>8, <1>9, <1>10, <1>11, <1>12, <1>13,
     <1>14 DEF Next

\* FlightInv holds in every execution.
LEMMA FlightInvHolds == Spec => []FlightInv
<1>1. Init => FlightInv
  BY Kinds DEF Init, FlightInv, Alive
<1>2. TypeOK /\ FlightInv /\ [Next]_vars => FlightInv'
  BY FlightInvStep
<1> QED
  BY <1>1, <1>2, TypeCorrect, PTL DEF Spec

\* However many callers there are, of two live attempts for a peer one has been popped
\* by a close call that still waits for it, and it is cancelled unless a wait_for has
\* absorbed the cancellation: an attempt outlives no close call.
THEOREM OneAttemptAtATime == Spec => []SingleFlight
<1>1. TypeOK /\ FlightInv => SingleFlight
  <2> SUFFICES ASSUME TypeOK, FlightInv, NEW t \in Tasks, NEW u \in Tasks,
                      t # u, Alive(t), Alive(u)
               PROVE  \E x \in {t, u} :
                        /\ cancelled[x] \/ x \in Absorbing
                        /\ \E k \in ClosingCalls :
                             ctask[k] = x /\ cpc[k] \in {"awaitTask", "cancelling"}
    BY DEF SingleFlight
  <2>1. PICK x \in {t, u}, k \in ClosingCalls : ctask[k] = x
    BY DEF FlightInv
  <2>2. Alive(x) /\ x \in Tasks /\ ctask[k] # None
    BY <2>1, Kinds DEF Alive
  <2>3. Popped(k) /\ (k = All \/ x \notin Absorbing => Doomed(k))
    BY <2>1, <2>2 DEF FlightInv
  <2>4. cpc[k] \in {"awaitTask", "cancelling"}
    BY <2>1, <2>2, <2>3 DEF TypeOK, Popped, Alive, Ended
  <2>5. cancelled[x] \/ x \in Absorbing
    BY <2>1, <2>2, <2>3 DEF Doomed, Alive
  <2> QED BY <2>1, <2>4, <2>5
<1> QED
  BY <1>1, TypeCorrect, FlightInvHolds, PTL

\* An attempt that close_all popped never succeeds and never becomes canonical
\* while the call waits, nor does one that close_peer popped and whose
\* cancellation is delivered, however many close calls overlap.
THEOREM CloseBeatsConnect == Spec => []CloseWins
<1>1. FlightInv => CloseWins
  BY DEF FlightInv, CloseWins, Doomed, Alive
<1> QED
  BY <1>1, FlightInvHolds, PTL
=============================================================================
