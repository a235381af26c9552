-------------------------- MODULE ConnectionManager --------------------------
(***************************************************************************)
(* core/manager.py for one peer: the canonical connection, the shared      *)
(* single-flight open task, the logical state, and close_peer / close_all  *)
(* racing with them.  Every `async with self._lock` body is synchronous,   *)
(* so a step is the code between two awaits of one coroutine.              *)
(*                                                                         *)
(* Task t dials at most one connection, which is therefore called t too.   *)
(* Each task and each inbound connection is used once: the sets Tasks and  *)
(* Inbound bound how many of them a behaviour has.                         *)
(***************************************************************************)
EXTENDS Naturals, FiniteSets

CONSTANTS
  Tasks,         \* _open_connection tasks, and the connections they dial
  Inbound,       \* connections accepted by the listener
  Callers,       \* coroutines that call connect()
  Closers,       \* coroutines that call close_peer()
  All,           \* the close_all() of the node's stop
  None,
  Absorbing      \* tasks whose cancellation a wait_for may absorb: that of Python
                 \* 3.10 and 3.11 returns the result of a finished operation
                 \* although the waiter was cancelled

Conns == Tasks \cup Inbound
ClosingCalls == Closers \cup {All}

ASSUME ConstantsAssumption ==
  /\ Tasks \cap Inbound = {}
  /\ None \notin Conns
  /\ All \notin Closers
  /\ Absorbing \subseteq Tasks

VARIABLES
  connections,   \* _connections[peer]
  inFlight,      \* _in_flight[peer]
  states,        \* _states[peer]; "unset" when the key is absent
  closingPeer,   \* peer \in _closing_peers
  closing,       \* _closing
  phys,          \* what became of each physical connection
  tpc,           \* where each open task is
  selected,      \* the task's local variable
  cancelled,     \* task.cancel() was called and not yet delivered
  caller,        \* the task a connect() call awaits, through shield
  cpc,           \* where each close call is
  ctask, cconn,  \* the task and the connection the close call popped
  swept,         \* the peer is in close_all's peer_ids
  incoming,      \* accepted, and not yet adopted or closed by the incoming task
  retiring,      \* adopt() returned them to the node, which closes them
  abandoned      \* popped by a close_peer that was cancelled before closing them

mgr   == <<connections, inFlight, states, closingPeer, closing>>
tasks == <<tpc, selected, cancelled>>
calls == <<cpc, ctask, cconn, swept, abandoned>>
node  == <<incoming, retiring>>
vars  == <<mgr, phys, tasks, caller, calls, node>>

States == {"unset", "DISCONNECTED", "CONNECTING", "CONNECTED", "RECONNECTING",
           "CLOSING", "CLOSED"}
Ended  == {"done", "failed", "cancelled"}
\* The task runs, and its connection, if it has one, is its own to close.
Owning == {"prepare", "closeOpened"}
TaskPCs == {"new", "spawned", "dial", "closePrev", "cleanup"} \cup Owning \cup Ended

TypeOK ==
  /\ connections \in Conns \cup {None}
  /\ inFlight \in Tasks \cup {None}
  /\ states \in States
  /\ closingPeer \in BOOLEAN
  /\ closing \in BOOLEAN
  /\ phys \in [Conns -> {"absent", "open", "closed"}]
  /\ tpc \in [Tasks -> TaskPCs]
  /\ selected \in [Tasks -> Conns \cup {None}]
  /\ cancelled \in [Tasks -> BOOLEAN]
  /\ caller \in [Callers -> Tasks \cup {None}]
  /\ cpc \in [ClosingCalls -> {"idle", "awaitTask", "awaitClose", "cancelling"}]
  /\ ctask \in [ClosingCalls -> Tasks \cup {None}]
  /\ cconn \in [ClosingCalls -> Conns \cup {None}]
  /\ swept \in BOOLEAN
  /\ incoming \subseteq Inbound
  /\ retiring \subseteq Conns
  /\ abandoned \subseteq Conns

Init ==
  /\ connections = None /\ inFlight = None /\ states = "unset"
  /\ closingPeer = FALSE /\ closing = FALSE
  /\ phys = [c \in Conns |-> "absent"]
  /\ tpc = [t \in Tasks |-> "new"]
  /\ selected = [t \in Tasks |-> None]
  /\ cancelled = [t \in Tasks |-> FALSE]
  /\ caller = [c \in Callers |-> None]
  /\ cpc = [k \in ClosingCalls |-> "idle"]
  /\ ctask = [k \in ClosingCalls |-> None]
  /\ cconn = [k \in ClosingCalls |-> None]
  /\ swept = FALSE /\ incoming = {} /\ retiring = {} /\ abandoned = {}

-----------------------------------------------------------------------------
\* get_by_id: the canonical connection, unless it is closed.
Live == IF connections # None /\ phys[connections] = "open" THEN connections ELSE None

\* The state get_by_id leaves behind: a closed canonical is no longer CONNECTED.
StateAfterGet ==
  IF connections # Live /\ states = "CONNECTED" THEN "DISCONNECTED" ELSE states

\* connect and adopt refuse while the peer or the whole manager is closing.
Closing == closing \/ closingPeer

Close(c) == phys' = [phys EXCEPT ![c] = "closed"]

\* get / get_by_id / state called from the node.
GetById ==
  /\ connections' = Live
  /\ states' = StateAfterGet
  /\ UNCHANGED <<inFlight, closingPeer, closing, phys, tasks, caller, calls, node>>

\* mark_reconnecting and mark_disconnected, called by the reconnect loop.
MarkReconnecting ==
  /\ ~Closing
  /\ connections' = Live
  /\ states' = IF Live = None THEN "RECONNECTING" ELSE StateAfterGet
  /\ UNCHANGED <<inFlight, closingPeer, closing, phys, tasks, caller, calls, node>>

MarkDisconnected ==
  /\ connections' = Live
  /\ states' = IF Live = None /\ ~closingPeer THEN "DISCONNECTED" ELSE StateAfterGet
  /\ UNCHANGED <<inFlight, closingPeer, closing, phys, tasks, caller, calls, node>>

-----------------------------------------------------------------------------
\* Mutant: connect() always creates its own task.
Connect_NotShared(c) ==
  /\ caller[c] = None
  /\ ~Closing
  /\ Live = None
  /\ connections' = None
  /\ \E t \in Tasks :
       /\ tpc[t] = "new"
       /\ tpc' = [tpc EXCEPT ![t] = "spawned"]
       /\ inFlight' = t
       /\ states' = "CONNECTING"
       /\ caller' = [caller EXCEPT ![c] = t]
  /\ UNCHANGED <<closingPeer, closing, phys, selected, cancelled, calls, node>>

\* connect(): join the attempt in flight or create it.  (A call that is refused
\* or finds a live canonical connection returns without awaiting: GetById.)
Connect(c) ==
  /\ caller[c] = None
  /\ ~Closing
  /\ Live = None
  /\ connections' = None
  /\ IF inFlight # None
     THEN /\ caller' = [caller EXCEPT ![c] = inFlight]
          /\ states' = StateAfterGet
          /\ UNCHANGED <<inFlight, tpc>>
     ELSE \E t \in Tasks, s \in {"CONNECTING", "RECONNECTING"} :
            /\ tpc[t] = "new"
            /\ tpc' = [tpc EXCEPT ![t] = "spawned"]
            /\ inFlight' = t
            /\ states' = s
            /\ caller' = [caller EXCEPT ![c] = t]
  /\ UNCHANGED <<closingPeer, closing, phys, selected, cancelled, calls, node>>

\* Mutant: only a successful attempt wakes its waiters.
ConnectReturns_OnlyOnSuccess(c) ==
  /\ caller[c] # None
  /\ tpc[caller[c]] = "done"
  /\ caller' = [caller EXCEPT ![c] = None]
  /\ UNCHANGED <<mgr, phys, tasks, calls, node>>

\* The awaited task ended: the caller gets its connection, error or CancelledError.
ConnectReturns(c) ==
  /\ caller[c] # None
  /\ tpc[caller[c]] \in Ended
  /\ caller' = [caller EXCEPT ![c] = None]
  /\ UNCHANGED <<mgr, phys, tasks, calls, node>>

\* A waiter is cancelled; shield keeps the task running.
ConnectCancelled(c) ==
  /\ caller[c] # None
  /\ caller' = [caller EXCEPT ![c] = None]
  /\ UNCHANGED <<mgr, phys, tasks, calls, node>>

-----------------------------------------------------------------------------
(* _open_connection, task t *)

\* Mutant: a failed attempt reports DISCONNECTED without looking at the canonical.
FinishFailed_Unconditional(t, end) ==
  /\ tpc' = [tpc EXCEPT ![t] = end]
  /\ inFlight' = IF inFlight = t THEN None ELSE inFlight
  /\ states' = IF Closing THEN "CLOSED" ELSE "DISCONNECTED"
  /\ UNCHANGED connections

\* The `finally` of a failed attempt once its connection is closed.
FinishFailed(t, end) ==
  /\ tpc' = [tpc EXCEPT ![t] = end]
  /\ inFlight' = IF inFlight = t THEN None ELSE inFlight
  /\ connections' = Live
  /\ states' = IF Live # None THEN states
               ELSE IF Closing THEN "CLOSED" ELSE "DISCONNECTED"

\* Mutant: a failed attempt forgets to close the connection it opened.
Raise_LeavesOpen(t, end) ==
  /\ cancelled' = [cancelled EXCEPT ![t] = FALSE]
  /\ FinishFailed(t, end)
  /\ UNCHANGED phys

\* An exception after the dial: close `opened`, or finish if that is done.
Raise(t, end) ==
  /\ cancelled' = [cancelled EXCEPT ![t] = FALSE]
  /\ IF phys[t] = "open"
     THEN /\ Close(t)
          /\ tpc' = [tpc EXCEPT ![t] = "cleanup"]
          /\ UNCHANGED <<connections, inFlight, states>>
     ELSE FinishFailed(t, end) /\ UNCHANGED phys

\* Mutant: the closing flags are not re-checked before publishing.
Install_NoRecheck(t, sel) ==
  /\ connections' = sel
  /\ states' = "CONNECTED"
  /\ tpc' = [tpc EXCEPT ![t] = "done"]
  /\ inFlight' = IF inFlight = t THEN None ELSE inFlight
  /\ UNCHANGED <<cancelled, phys>>

\* The locked section that publishes `sel`, re-checking the closing flags.
Install(t, sel) ==
  IF Closing
  THEN Raise(t, "failed")
  ELSE /\ connections' = sel
       /\ states' = "CONNECTED"
       /\ UNCHANGED cancelled
       /\ IF connections \notin {None, sel}
          THEN /\ tpc' = [tpc EXCEPT ![t] = "closePrev"]
               /\ Close(connections)
               /\ UNCHANGED inFlight
          ELSE /\ tpc' = [tpc EXCEPT ![t] = "done"]
               /\ inFlight' = IF inFlight = t THEN None ELSE inFlight
               /\ UNCHANGED phys

\* First step of the task; a task cancelled before it never runs at all.
OpenStarts(t) ==
  /\ tpc[t] = "spawned"
  /\ tpc' = [tpc EXCEPT ![t] = IF cancelled[t] THEN "cancelled" ELSE "dial"]
  /\ UNCHANGED <<mgr, phys, selected, cancelled, caller, calls, node>>

DialSucceeds(t) ==
  /\ tpc[t] = "dial"
  /\ cancelled[t] => t \in Absorbing
  /\ cancelled' = [cancelled EXCEPT ![t] = FALSE]
  /\ tpc' = [tpc EXCEPT ![t] = "prepare"]
  /\ phys' = [phys EXCEPT ![t] = "open"]
  /\ UNCHANGED <<mgr, selected, caller, calls, node>>

\* The transport refuses, times out, or the cancellation is delivered to it.
DialFails(t) ==
  /\ tpc[t] = "dial"
  /\ FinishFailed(t, IF cancelled[t] THEN "cancelled" ELSE "failed")
  /\ cancelled' = [cancelled EXCEPT ![t] = FALSE]
  /\ UNCHANGED <<closingPeer, closing, phys, selected, caller, calls, node>>

\* prepare() returns the opened connection or a READY inbound one.
PrepareReturns(t, sel) ==
  /\ tpc[t] = "prepare"
  /\ ~cancelled[t]
  /\ sel = t \/ (sel \in Inbound /\ phys[sel] = "open")
  /\ selected' = [selected EXCEPT ![t] = sel]
  /\ IF sel # t /\ phys[t] = "open"
     THEN /\ Close(t)
          /\ tpc' = [tpc EXCEPT ![t] = "closeOpened"]
          /\ UNCHANGED <<connections, inFlight, states, cancelled>>
     ELSE Install(t, sel)
  /\ UNCHANGED <<closingPeer, closing, caller, calls, node>>

\* prepare() raises (refused, handshake failed or timed out, cancelled).
PrepareRaises(t) ==
  /\ tpc[t] = "prepare"
  /\ Raise(t, IF cancelled[t] THEN "cancelled" ELSE "failed")
  /\ UNCHANGED <<closingPeer, closing, selected, caller, calls, node>>

\* A cancellation that meets a finished hello exchange is absorbed by its wait_for.
PrepareAbsorbsCancel(t) ==
  /\ t \in Absorbing
  /\ tpc[t] = "prepare"
  /\ cancelled[t]
  /\ cancelled' = [cancelled EXCEPT ![t] = FALSE]
  /\ UNCHANGED <<mgr, phys, tpc, selected, caller, calls, node>>

\* `await opened.close()` of a losing dial returns, or raises.
OpenedClosed(t) ==
  /\ tpc[t] = "closeOpened"
  /\ \/ ~cancelled[t] /\ Install(t, selected[t])
     \/ Raise(t, "failed")
  /\ UNCHANGED <<closingPeer, closing, selected, caller, calls, node>>

\* `await previous.close()` returns: the attempt succeeded.
PreviousClosed(t) ==
  /\ tpc[t] = "closePrev"
  /\ ~cancelled[t]
  /\ tpc' = [tpc EXCEPT ![t] = "done"]
  /\ inFlight' = IF inFlight = t THEN None ELSE inFlight
  /\ UNCHANGED <<connections, states, closingPeer, closing, phys, selected,
                 cancelled, caller, calls, node>>

\* `await previous.close()` raises or is cancelled after the installation.
PreviousCloseRaises(t) ==
  /\ tpc[t] = "closePrev"
  /\ Raise(t, "failed")
  /\ UNCHANGED <<closingPeer, closing, selected, caller, calls, node>>

CleanupReturns(t) ==
  /\ tpc[t] = "cleanup"
  /\ FinishFailed(t, "failed")
  /\ cancelled' = [cancelled EXCEPT ![t] = FALSE]
  /\ UNCHANGED <<closingPeer, closing, phys, selected, caller, calls, node>>

-----------------------------------------------------------------------------
(* adopt() and connection_lost(), called by the node's incoming and reader tasks *)

Accept(c) ==
  /\ phys[c] = "absent"
  /\ phys' = [phys EXCEPT ![c] = "open"]
  /\ incoming' = incoming \cup {c}
  /\ UNCHANGED <<mgr, tasks, caller, calls, retiring>>

\* Mutant: adopt() hands back whatever was stored, also nothing.
Adopt_ReturnsNone(c) ==
  /\ c \in incoming
  /\ ~Closing
  /\ connections' = c
  /\ states' = "CONNECTED"
  /\ incoming' = incoming \ {c}
  /\ retiring' = retiring \cup {connections}
  /\ UNCHANGED <<inFlight, closingPeer, closing, phys, tasks, caller, calls>>

\* The node retires the connection adopt() returns.
Adopt(c) ==
  /\ c \in incoming
  /\ ~Closing
  /\ connections' = c
  /\ states' = "CONNECTED"
  /\ incoming' = incoming \ {c}
  /\ retiring' = retiring \cup ({connections} \ {None, c})
  /\ UNCHANGED <<inFlight, closingPeer, closing, phys, tasks, caller, calls>>

\* The node closes a connection it retires, or an incoming one that lost the
\* selection, failed its handshake or was refused by adopt().
Retire(c) ==
  /\ c \in incoming \cup retiring
  /\ Close(c)
  /\ incoming' = incoming \ {c}
  /\ retiring' = retiring \ {c}
  /\ UNCHANGED <<mgr, tasks, caller, calls>>

\* A reader ends: connection_lost(), then connection.close().
ConnectionLost(c) ==
  /\ phys[c] # "absent"
  /\ IF c \in Tasks THEN tpc[c] = "done" ELSE c \notin incoming
  /\ connections' = IF connections = c THEN None ELSE connections
  /\ states' = IF connections = c /\ ~Closing THEN "DISCONNECTED" ELSE states
  /\ Close(c)
  /\ UNCHANGED <<inFlight, closingPeer, closing, tasks, caller, calls, node>>

\* The remote end or the network closes a connection.  is_closed is true from the end
\* of the stream on: an attempt then leaves its own end unclosed (manager.py:227, 248),
\* which is taken for closed here.
RemoteCloses(c) ==
  /\ phys[c] = "open"
  /\ Close(c)
  /\ UNCHANGED <<mgr, tasks, caller, calls, node>>

-----------------------------------------------------------------------------
(* close_peer (k \in Closers) and close_all (k = All) *)

\* The last locked section of a close call.
FinishClose(k) ==
  /\ cpc' = [cpc EXCEPT ![k] = "idle"]
  /\ ctask' = [ctask EXCEPT ![k] = None]
  /\ cconn' = [cconn EXCEPT ![k] = None]
  /\ closingPeer' = FALSE
  /\ IF k = All
     THEN /\ closing' = FALSE
          /\ states' = IF swept THEN "CLOSED" ELSE states
     ELSE /\ closing' = closing
          /\ states' = IF connections = None /\ inFlight = None THEN "CLOSED" ELSE states
  /\ UNCHANGED <<connections, inFlight>>

\* First locked section: raise the flag, take what is there, cancel the task.
\* With no task to wait for, the connection is closed in the same step; with no
\* connection either, the whole call is one step.
StartClose(k) ==
  /\ cpc[k] = "idle"
  /\ swept' = IF k = All THEN states # "unset" ELSE swept
  /\ inFlight' = None
  /\ connections' = None
  /\ IF inFlight = None /\ connections = None
     THEN /\ states' = IF k = All /\ states = "unset" THEN "unset" ELSE "CLOSED"
          /\ closingPeer' = FALSE
          /\ UNCHANGED <<closing, cpc, ctask, cconn, cancelled, phys>>
     ELSE /\ states' = "CLOSING"
          /\ closingPeer' = (closingPeer \/ k # All)
          /\ closing' = (closing \/ k = All)
          /\ ctask' = [ctask EXCEPT ![k] = inFlight]
          /\ cconn' = [cconn EXCEPT ![k] = connections]
          /\ IF inFlight # None
             THEN /\ cancelled' = [cancelled EXCEPT ![inFlight] = TRUE]
                  /\ cpc' = [cpc EXCEPT ![k] = "awaitTask"]
                  /\ UNCHANGED phys
             ELSE /\ Close(connections)
                  /\ cpc' = [cpc EXCEPT ![k] = "awaitClose"]
                  /\ UNCHANGED cancelled
  /\ UNCHANGED <<tpc, selected, caller, node, abandoned>>

\* The popped task has ended: close the popped connection.
CloseConnection(k) ==
  /\ cpc[k] = "awaitTask"
  /\ tpc[ctask[k]] \in Ended
  /\ IF cconn[k] # None
     THEN /\ Close(cconn[k])
          /\ cpc' = [cpc EXCEPT ![k] = "awaitClose"]
          /\ UNCHANGED <<mgr, ctask, cconn>>
     ELSE FinishClose(k) /\ UNCHANGED phys
  /\ UNCHANGED <<tasks, caller, swept, abandoned, node>>

CloseReturns(k) ==
  /\ cpc[k] = "awaitClose"
  /\ FinishClose(k)
  /\ UNCHANGED <<phys, tasks, caller, swept, abandoned, node>>

\* The coroutine in close_peer is cancelled while it gathers the popped task:
\* gather cancels the task again and raises once the task has ended, ...
GatherCancelled(k) ==
  /\ cpc[k] = "awaitTask"
  /\ cpc' = [cpc EXCEPT ![k] = "cancelling"]
  /\ cancelled' = [cancelled EXCEPT ![ctask[k]] = tpc[ctask[k]] \notin Ended]
  /\ UNCHANGED <<mgr, phys, tpc, selected, caller, ctask, cconn, swept, abandoned, node>>

\* ... and `finally` runs without the popped connection having been closed.
CancelledCloseEnds(k) ==
  /\ cpc[k] = "cancelling"
  /\ tpc[ctask[k]] \in Ended
  /\ FinishClose(k)
  /\ abandoned' = abandoned \cup ({cconn[k]} \ {None})
  /\ UNCHANGED <<phys, tasks, caller, swept, node>>

-----------------------------------------------------------------------------
TaskStep(t) ==
  \/ OpenStarts(t) \/ DialSucceeds(t) \/ DialFails(t)
  \/ \E sel \in Conns : PrepareReturns(t, sel)
  \/ PrepareRaises(t) \/ PrepareAbsorbsCancel(t)
  \/ OpenedClosed(t) \/ PreviousClosed(t) \/ PreviousCloseRaises(t) \/ CleanupReturns(t)

CloseStep(k) == CloseConnection(k) \/ CloseReturns(k) \/ CancelledCloseEnds(k)

Next ==
  \/ GetById \/ MarkReconnecting \/ MarkDisconnected
  \/ \E c \in Callers : Connect(c) \/ ConnectReturns(c) \/ ConnectCancelled(c)
  \/ \E t \in Tasks : TaskStep(t)
  \/ \E c \in Inbound : Accept(c) \/ Adopt(c)
  \/ \E c \in Conns : Retire(c) \/ ConnectionLost(c) \/ RemoteCloses(c)
  \/ \E k \in ClosingCalls : StartClose(k) \/ CloseStep(k)
  \/ \E k \in Closers : GatherCancelled(k)

\* The event loop runs every ready coroutine: a dial and a hello exchange end
\* (their deadlines see to it) and close() returns.
Fairness ==
  /\ \A c \in Callers : WF_vars(ConnectReturns(c))
  /\ \A t \in Tasks : WF_vars(TaskStep(t))
  /\ \A k \in ClosingCalls : WF_vars(CloseStep(k))

Spec == Init /\ [][Next]_vars /\ Fairness

-----------------------------------------------------------------------------
(* Properties *)

\* A connection a close call has popped and not closed yet.
Held(c) == \E k \in ClosingCalls : cpc[k] \in {"awaitTask", "cancelling"} /\ cconn[k] = c

\* No connection leaks: one that is physically open is canonical, or some
\* coroutine still has it in hand and will publish or close it (the open task
\* before `prepare` returns, the incoming task, the node retiring it, a close
\* call), or a close_peer cancelled before it closed it dropped it
\* (manager.py:160-163, the one way to lose a connection).
NoLeak ==
  \A c \in Conns : phys[c] = "open" =>
    \/ c = connections
    \/ c \in Tasks /\ tpc[c] = "prepare"
    \/ c \in incoming \cup retiring \cup abandoned
    \/ Held(c)

\* The logical state and the maps agree: CONNECTED exactly when a canonical
\* connection is stored, CONNECTING only while an attempt is in flight, and
\* CLOSING only while a close call is running, so no state is left stuck.
StateAgrees ==
  /\ (states = "CONNECTED") <=> (connections # None)
  /\ states = "CONNECTING" => inFlight # None
  /\ states = "CLOSING" => \E k \in ClosingCalls : cpc[k] # "idle"

\* The task has not ended and may still publish.
Alive(t) == tpc[t] \in {"spawned", "dial", "prepare", "closeOpened", "closePrev"}

\* One shared attempt per peer: of two tasks that are dialling, preparing or
\* installing, one was popped by a close call that is still waiting for it, and its
\* cancellation is on its way unless a wait_for has absorbed it.  No attempt survives
\* the close call that popped it, beside the one a later connect() starts.
SingleFlight ==
  \A t, u \in Tasks : t # u /\ Alive(t) /\ Alive(u) =>
    \E x \in {t, u} :
      /\ cancelled[x] \/ x \in Absorbing
      /\ \E k \in ClosingCalls : ctask[k] = x /\ cpc[k] \in {"awaitTask", "cancelling"}

\* A close call wins over the attempt it popped: that attempt neither succeeds
\* nor becomes canonical while the call waits for it.  close_all wins even when a
\* wait_for absorbs the cancellation (the flags are re-checked before installing);
\* close_peer then need not: an overlapping close call may have cleared its flag.
CloseWins ==
  \A k \in ClosingCalls : ctask[k] # None /\ (k = All \/ ctask[k] \notin Absorbing) =>
    tpc[ctask[k]] # "done" /\ connections # ctask[k]

\* Nobody waits for ever: every connect() call is answered and every close call
\* returns, although they wait on shared attempts that others adopt, fail or cancel.
CallsAnswered ==
  /\ \A c \in Callers : caller[c] # None ~> caller[c] = None
  /\ \A k \in ClosingCalls : cpc[k] # "idle" ~> cpc[k] = "idle"
=============================================================================
