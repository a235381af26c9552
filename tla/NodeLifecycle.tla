---------------------------- MODULE NodeLifecycle ----------------------------
(***************************************************************************)
(* PaqtoNode.start, stop and network_changed over the LAN adapter: the      *)
(* lifecycle lock, rollback of a failed or cancelled start, the stages of   *)
(* stop, the accept loop and its incoming tasks, the dispatch workers, and  *)
(* handlers that themselves call stop() or network_changed().               *)
(*                                                                          *)
(* Not here: what the incoming tasks and the manager's attempts do          *)
(* (SessionSelection, ConnectionManager), and outgoing connections, which   *)
(* max_connections counts as well.  The event worker is like a dispatch     *)
(* worker.  A start() is cancelled at most once.                            *)
(***************************************************************************)
EXTENDS LanAdapter

CONSTANTS
  Starts, Stops, Changes,  \* calls of start(), stop(), network_changed()
  Workers,                 \* dispatch worker tasks
  HandlerConcurrency,      \* handler_concurrency
  MaxConnections,          \* max_connections
  MaxReentrant,            \* bound: lifecycle calls made by handlers
  MaxReplaced              \* bound: workers that end by an exception

Calls == Starts \cup Stops \cup Changes
Loop  == "acceptLoop"

ASSUME NodeAssumption ==
  /\ Starts \cap (Stops \cup Changes) = {} /\ Stops \cap Changes = {}
  /\ None \notin Calls \cup Workers /\ IsFiniteSet(Workers)
  /\ Inbound \cap Workers = {} /\ Loop \notin Inbound \cup Workers
  /\ {HandlerConcurrency, MaxConnections} \subseteq Nat \ {0}
  /\ {MaxReentrant, MaxReplaced} \subseteq Nat

VARIABLES
  running, generation,     \* _running, _lifecycle_generation
  holder,                  \* the call that holds _lifecycle_lock
  stage,                   \* the await its transition is in
  todo,                    \* the coroutines its gather still waits for
  call,                    \* each call: new, waiting for the lock, holding it, done
  caller,                  \* the worker that made the call (skip_task), or None
  listener,                \* the listener of this transition, later _listener
  discovering,             \* discovery is started
  incoming,                \* _incoming_connections
  tasks,                   \* incoming tasks that have not ended (_reader_tasks)
  accepting,               \* the accept loop: no task, ready, waiting
  cancelling,              \* tasks the transition cancelled and will gather
  worker,                  \* each worker: new, idle in queue.get(), busy, ended
  wgen,                    \* the generation a worker belongs to
  replaced                 \* bound: replacements so far

lifecycle == <<running, generation, holder, stage, todo, listener, discovering>>
calls     == <<call, caller>>
accepts   == <<incoming, tasks, accepting>>
pool      == <<worker, wgen, replaced>>
vars      == <<adapter, lifecycle, calls, accepts, cancelling, pool>>

Stages == {"none", "bind", "announce", "rollback", "cleanup", "gather", "services", "refresh"}
Jobs == {"held", "listener", "discovery", "transport", "sockets"}

Alive(w)   == worker[w] \in {"idle", "busy"}
Current(w) == Alive(w) /\ wgen[w] = generation
InCall(w)  == {k \in Calls : caller[k] = w /\ call[k] # "done"}

TypeOK ==
  /\ AdapterTypeOK
  /\ running \in BOOLEAN /\ generation \in Nat
  /\ holder \in Calls \cup {None} /\ stage \in Stages /\ todo \subseteq Jobs
  /\ (holder = None) <=> (stage = "none")
  /\ call \in [Calls -> {"new", "waiting", "holding", "done"}]
  /\ \A k \in Calls : call[k] = "holding" <=> holder = k
  /\ caller \in [Calls -> Workers \cup {None}]
  /\ listener \in Listeners \cup {None} /\ discovering \in BOOLEAN
  /\ incoming \subseteq Inbound /\ Cardinality(incoming) <= MaxConnections
  /\ tasks \subseteq Inbound
  /\ accepting \in {"none", "ready", "waiting"}
  /\ cancelling \subseteq Inbound \cup Workers \cup {Loop}
  /\ worker \in [Workers -> {"new", "idle", "busy", "ended"}]
  /\ wgen \in [Workers -> Nat] /\ replaced \in 0..MaxReplaced

Init ==
  /\ AdapterInit
  /\ running = FALSE /\ generation = 0
  /\ holder = None /\ stage = "none" /\ todo = {}
  /\ call = [k \in Calls |-> "new"] /\ caller = [k \in Calls |-> None]
  /\ listener = None /\ discovering = FALSE
  /\ incoming = {} /\ tasks = {} /\ accepting = "none" /\ cancelling = {}
  /\ worker = [w \in Workers |-> "new"] /\ wgen = [w \in Workers |-> 0] /\ replaced = 0

-----------------------------------------------------------------------------
(* Calls and the lifecycle lock *)

\* The next call of each kind; those of one kind are interchangeable.
Fresh(k) == \A S \in {Starts, Stops, Changes} :
  k \in S => k = CHOOSE j \in S : call[j] = "new"

\* The host calls; network_changed() requires a running node.
CallFromHost(k) ==
  /\ call[k] = "new" /\ Fresh(k)
  /\ k \in Changes => running
  /\ call' = [call EXCEPT ![k] = "waiting"]
  /\ UNCHANGED <<adapter, lifecycle, caller, accepts, cancelling, pool>>

\* A handler calls stop() or network_changed() and awaits it.
CallFromHandler(w, k) ==
  /\ worker[w] = "busy" /\ InCall(w) = {} /\ w \notin cancelling
  /\ Cardinality({j \in Calls : caller[j] # None}) < MaxReentrant
  /\ call[k] = "new" /\ Fresh(k) /\ k \notin Starts
  /\ k \in Changes => running
  /\ call' = [call EXCEPT ![k] = "waiting"]
  /\ caller' = [caller EXCEPT ![k] = w]
  /\ UNCHANGED <<adapter, lifecycle, accepts, cancelling, pool>>

Done(k) ==
  /\ call' = [call EXCEPT ![k] = "done"]
  /\ holder' = None /\ stage' = "none"

\* start() called by a task that is cancelled before it has the lock.
StartCancelledWaiting(k) ==
  /\ k \in Starts /\ call[k] = "waiting"
  /\ call' = [call EXCEPT ![k] = "done"]
  /\ UNCHANGED <<adapter, lifecycle, caller, accepts, cancelling, pool>>

\* The transport, a fresh listener, and on to start_server.
BeginStart ==
  /\ Unused # {}
  /\ TransportStart(NextOne)
  /\ listener' = NextOne
  /\ stage' = "bind"

\* _stop_locked up to its first await: every owned task but the caller's is
\* cancelled, and the admitted connections are about to be closed.
BeginStop(k) ==
  /\ running' = FALSE
  /\ cancelling' = tasks \cup {w \in Workers : Current(w) /\ w # caller[k]}
                         \cup (IF accepting = "none" THEN {} ELSE {Loop})
  /\ inHand' = inHand \cup incoming
  /\ incoming' = {}
  /\ stage' = "cleanup" /\ todo' = {"held", "listener"}

\* The call gets the lock.  A start() of a running node and a network_changed() of
\* a stopped one raise; a stop() of a stopped node returns.
Acquire(k) ==
  /\ call[k] = "waiting" /\ holder = None
  /\ IF running = (k \in Starts)
     THEN /\ call' = [call EXCEPT ![k] = "done"]
          /\ UNCHANGED <<adapter, lifecycle, accepts, cancelling>>
     ELSE /\ call' = [call EXCEPT ![k] = "holding"]
          /\ holder' = k
          /\ IF k \in Starts
             THEN BeginStart /\ UNCHANGED <<running, todo, inHand, incoming, cancelling>>
             ELSE BeginStop(k) /\ UNCHANGED <<started, tgen, lstate, listener>>
          /\ UNCHANGED <<generation, discovering, conn, via, accepted, waiter, tracked,
                         dialling, tasks, accepting>>
  /\ UNCHANGED <<caller, pool>>

\* transport.start() itself fails: only the transport is rolled back.
TransportFails(k) ==
  /\ \/ k \in Starts /\ call[k] = "waiting" /\ holder = None /\ ~running
     \/ k \in Changes /\ holder = k /\ stage = "services" /\ todo = {}
  /\ call' = [call EXCEPT ![k] = "holding"]
  /\ holder' = k /\ stage' = "rollback" /\ todo' = {"transport"} /\ listener' = None
  /\ UNCHANGED <<adapter, running, generation, discovering, caller, accepts, cancelling, pool>>

-----------------------------------------------------------------------------
(* _start_locked *)

\* start_server returns; discovery.start() begins.
Bound ==
  /\ stage = "bind"
  /\ lstate' = [lstate EXCEPT ![listener] = "open"]
  /\ stage' = "announce"
  /\ UNCHANGED <<started, tgen, conn, via, accepted, waiter, tracked, inHand, dialling,
                 running, generation, holder, todo, listener, discovering, calls,
                 accepts, cancelling, pool>>

\* A stage of the start fails, or its caller is cancelled there: everything that was
\* attempted is cleaned up.  discovery.start() may have started by then.  (asyncio's
\* start_server is taken to bind nothing when it is cancelled; in its last sleep(0) it
\* has bound the socket, which the listener then does not know of: listener.py:117.)
Rollback ==
  /\ stage \in {"bind", "announce"}
  /\ stage' = "rollback"
  /\ todo' = {"listener", "transport"} \cup (IF stage = "announce" THEN {"discovery"} ELSE {})
  /\ discovering' = (stage = "announce")
  /\ UNCHANGED <<adapter, running, generation, holder, listener, calls, accepts,
                 cancelling, pool>>

\* N fresh workers for generation g.
StartWorkers(g, N) ==
  LET fresh == CHOOSE S \in SUBSET {w \in Workers : worker[w] = "new"} : Cardinality(S) = N
  IN  /\ Cardinality({w \in Workers : worker[w] = "new"}) >= N
      /\ worker' = [w \in Workers |-> IF w \in fresh THEN "idle" ELSE worker[w]]
      /\ wgen' = [w \in Workers |-> IF w \in fresh THEN g ELSE wgen[w]]

\* discovery.start() returns: the node runs, with fresh queues, workers and accept
\* loop.  network_changed() goes on to discover().
StartDone ==
  /\ stage = "announce"
  /\ discovering' = TRUE
  /\ running' = TRUE /\ generation' = generation + 1
  /\ StartWorkers(generation + 1, HandlerConcurrency)
  /\ accepting' = "ready"
  /\ IF holder \in Changes
     THEN stage' = "refresh" /\ UNCHANGED <<call, holder>>
     ELSE Done(holder)
  /\ UNCHANGED <<adapter, todo, listener, caller, incoming, tasks, cancelling, replaced>>

\* discover() returns or raises; reconnects are scheduled (Reconnect).
Refreshed ==
  /\ stage = "refresh"
  /\ Done(holder)
  /\ UNCHANGED <<adapter, running, generation, todo, listener, discovering, caller,
                 accepts, cancelling, pool>>

-----------------------------------------------------------------------------
(* The coroutines of the gathers in rollback, cleanup and services *)

Finish(job, more) == todo' = (todo \ {job}) \cup more

\* listener.close(), and connection.close() of what the transition has in hand.
CloseListener ==
  /\ "listener" \in todo
  /\ CloseListeners({listener} \ {None})
  /\ Finish("listener", {"held"})
  /\ UNCHANGED <<started, tgen, conn, via, dialling, running, generation, holder, stage,
                 listener, discovering, calls, accepts, cancelling, pool>>

CloseConnections ==
  /\ "held" \in todo
  /\ CloseHeld
  /\ Finish("held", {})
  /\ UNCHANGED <<started, tgen, listening, dialling, running, generation, holder, stage,
                 listener, discovering, calls, accepts, cancelling, pool>>

StopDiscovery ==
  /\ "discovery" \in todo
  /\ discovering' = FALSE
  /\ Finish("discovery", {})
  /\ UNCHANGED <<adapter, running, generation, holder, stage, listener, calls, accepts,
                 cancelling, pool>>

\* transport.stop(), then the listeners and connections it owns.
StopTransport ==
  /\ "transport" \in todo
  /\ TransportStop
  /\ Finish("transport", {"sockets"})
  /\ UNCHANGED <<conn, listening, dgen, running, generation, holder, stage, listener,
                 discovering, calls, accepts, cancelling, pool>>

CloseSockets ==
  /\ "sockets" \in todo
  /\ CloseListeners({l \in Listeners : lstate[l] # "new"})
  /\ Finish("sockets", {"held"})
  /\ UNCHANGED <<started, tgen, conn, via, dialling, running, generation, holder, stage,
                 listener, discovering, calls, accepts, cancelling, pool>>

\* The rollback is over: start() raises, and network_changed() with it.
RolledBack ==
  /\ stage = "rollback" /\ todo = {}
  /\ listener' = None
  /\ Done(holder)
  /\ UNCHANGED <<adapter, running, generation, todo, discovering, caller, accepts,
                 cancelling, pool>>

\* Everything is closed; now the cancelled tasks are awaited ...
CleanedUp ==
  /\ stage = "cleanup" /\ todo = {}
  /\ stage' = "gather" /\ listener' = None
  /\ UNCHANGED <<adapter, running, generation, holder, todo, discovering, calls, accepts,
                 cancelling, pool>>

\* ... and once they have ended the services are stopped.
Gathered ==
  /\ stage = "gather" /\ cancelling = {}
  /\ stage' = "services" /\ todo' = {"discovery", "transport"}
  /\ UNCHANGED <<adapter, running, generation, holder, listener, discovering, calls, accepts,
                 cancelling, pool>>

\* stop() is done; network_changed() starts again.
Stopped ==
  /\ stage = "services" /\ todo = {}
  /\ IF holder \in Changes
     THEN BeginStart /\ UNCHANGED <<call, holder>>
     ELSE Done(holder) /\ UNCHANGED <<started, tgen, lstate, listener>>
  /\ UNCHANGED <<conn, via, accepted, waiter, tracked, inHand, dialling, running, generation,
                 todo, discovering, caller, accepts, cancelling, pool>>

-----------------------------------------------------------------------------
(* The accept loop and the incoming tasks *)

\* Admit c or close it; the loop goes on.
Admit(c) ==
  /\ accepting' = "ready"
  /\ IF Cardinality(incoming) >= MaxConnections
     THEN Set(c, "closed") /\ UNCHANGED <<incoming, tasks>>
     ELSE incoming' = incoming \cup {c} /\ tasks' = tasks \cup {c} /\ UNCHANGED conn

AcceptQueued(c) ==
  /\ accepting = "ready" /\ Loop \notin cancelling
  /\ c \in accepted /\ accepted' = accepted \ {c}
  /\ Admit(c)
  /\ UNCHANGED <<started, tgen, lstate, via, waiter, tracked, inHand, dialling, lifecycle,
                 calls, cancelling, pool>>

AcceptWaits ==
  /\ accepting = "ready" /\ Loop \notin cancelling
  /\ accepted = {} /\ lstate[listener] = "open"
  /\ accepting' = "waiting" /\ waiter' = "pending"
  /\ UNCHANGED <<started, tgen, conn, lstate, via, accepted, tracked, inHand, dialling,
                 lifecycle, calls, incoming, tasks, cancelling, pool>>

AcceptWakes(c) ==
  /\ accepting = "waiting" /\ Loop \notin cancelling
  /\ waiter = c /\ waiter' = "none"
  /\ Admit(c)
  /\ UNCHANGED <<started, tgen, lstate, via, accepted, tracked, inHand, dialling, lifecycle,
                 calls, cancelling, pool>>

\* The cancellation reaches accept(), also one that was just given a connection.
AcceptCancelled ==
  /\ Loop \in cancelling
  /\ accepting' = "none" /\ waiter' = "none"
  /\ cancelling' = cancelling \ {Loop}
  /\ UNCHANGED <<started, tgen, conn, lstate, via, accepted, tracked, inHand, dialling,
                 lifecycle, calls, incoming, tasks, pool>>

\* _run_incoming_connection ends, by itself or cancelled, and closes its connection.
IncomingEnds(c) ==
  /\ c \in tasks
  /\ tasks' = tasks \ {c}
  /\ incoming' = incoming \ {c}
  /\ cancelling' = cancelling \ {c}
  /\ Set(c, "closed")
  /\ UNCHANGED <<started, tgen, inHand, listening, dialling, lifecycle, calls, accepting, pool>>

-----------------------------------------------------------------------------
(* The dispatch workers *)

\* A message arrives for an idle worker.
HandlerRuns(w) ==
  /\ worker[w] = "idle" /\ w \notin cancelling
  /\ worker' = [worker EXCEPT ![w] = "busy"]
  /\ UNCHANGED <<adapter, lifecycle, calls, accepts, cancelling, wgen, replaced>>

\* Mutant: the worker's loop only asks whether the node runs.
HandlerReturns_AnyGeneration(w) ==
  /\ worker[w] = "busy" /\ InCall(w) = {} /\ w \notin cancelling
  /\ worker' = [worker EXCEPT ![w] = IF running THEN "idle" ELSE "ended"]
  /\ UNCHANGED <<adapter, lifecycle, calls, accepts, cancelling, wgen, replaced>>

\* The handler returns, or raises what the router reports; the loop condition.
HandlerReturns(w) ==
  /\ worker[w] = "busy" /\ InCall(w) = {} /\ w \notin cancelling
  /\ worker' = [worker EXCEPT ![w] =
                  IF running /\ wgen[w] = generation THEN "idle" ELSE "ended"]
  /\ UNCHANGED <<adapter, lifecycle, calls, accepts, cancelling, wgen, replaced>>

\* The handler raises CancelledError by itself, or closing its connection fails: the
\* worker ends, and _handler_finished replaces it if it belongs to the running node.
\* (The callback runs one turn of the loop later, and checks the generation then.)
WorkerDies(w) ==
  /\ worker[w] = "busy" /\ InCall(w) = {} /\ w \notin cancelling
  /\ IF running /\ wgen[w] = generation
     THEN /\ replaced < MaxReplaced /\ replaced' = replaced + 1
          /\ \E new \in Workers :
               /\ worker[new] = "new"
               /\ new = CHOOSE x \in Workers : worker[x] = "new"
               /\ worker' = [worker EXCEPT ![w] = "ended", ![new] = "idle"]
               /\ wgen' = [wgen EXCEPT ![new] = generation]
     ELSE worker' = [worker EXCEPT ![w] = "ended"] /\ UNCHANGED <<wgen, replaced>>
  /\ UNCHANGED <<adapter, lifecycle, calls, accepts, cancelling>>

\* Mutant: a worker that waits for a message swallows its cancellation.
WorkerCancelled_OnlyBusy(w) ==
  /\ w \in cancelling /\ InCall(w) = {} /\ worker[w] = "busy"
  /\ worker' = [worker EXCEPT ![w] = "ended"]
  /\ cancelling' = cancelling \ {w}
  /\ UNCHANGED <<adapter, lifecycle, calls, accepts, wgen, replaced>>

\* stop()'s cancellation ends the worker; inside a lifecycle call the handler
\* holds it back until that call is done (_await_lifecycle_task).
WorkerCancelled(w) ==
  /\ w \in cancelling /\ InCall(w) = {}
  /\ worker' = [worker EXCEPT ![w] = "ended"]
  /\ cancelling' = cancelling \ {w}
  /\ UNCHANGED <<adapter, lifecycle, calls, accepts, wgen, replaced>>

-----------------------------------------------------------------------------
AdapterStep ==
  /\ \/ \E c \in Inbound : ClientArrives(c) \/ HandleClient(c) \/ HandleClientRefused(c)
     \/ \E d \in Dials : DialStart(d) \/ DialDone(d) \/ DialCloses(d)
  /\ UNCHANGED <<lifecycle, calls, accepts, cancelling, pool>>

Transition ==
  \/ Bound \/ StartDone \/ Refreshed
  \/ CloseListener \/ CloseConnections \/ StopDiscovery \/ StopTransport \/ CloseSockets
  \/ RolledBack \/ CleanedUp \/ Gathered \/ Stopped

CancelledTaskEnds ==
  \/ AcceptCancelled
  \/ \E c \in cancelling \cap Inbound : IncomingEnds(c)
  \/ \E w \in Workers : WorkerCancelled(w)

Next ==
  \/ AdapterStep
  \/ \E k \in Calls : CallFromHost(k) \/ Acquire(k) \/ StartCancelledWaiting(k) \/ TransportFails(k)
  \/ \E w \in Workers, k \in Calls : CallFromHandler(w, k)
  \/ Transition \/ Rollback \/ AcceptCancelled
  \/ \E c \in Inbound : AcceptQueued(c) \/ AcceptWakes(c) \/ IncomingEnds(c)
  \/ AcceptWaits
  \/ \E w \in Workers :
       HandlerRuns(w) \/ HandlerReturns(w) \/ WorkerDies(w) \/ WorkerCancelled(w)

\* The event loop runs the transition that holds the lock, whoever waits for the
\* lock, and the tasks that were cancelled.  Nothing else has to happen.
Fairness ==
  /\ WF_vars(Transition) /\ WF_vars(CancelledTaskEnds)
  /\ WF_vars(\E k \in Calls : Acquire(k))

Spec == Init /\ [][Next]_vars /\ Fairness

-----------------------------------------------------------------------------
(* Properties *)

Resources == {"transport", "listener", "discovery", "connection", "task"}

Phase ==
  IF running THEN "running"
  ELSE IF stage \in {"bind", "announce"} THEN "starting"
  ELSE IF holder # None THEN "stopping" ELSE "stopped"

Held ==
  {r \in Resources :
     CASE r = "transport"  -> started
       [] r = "listener"   -> Listening # {}
       [] r = "discovery"  -> discovering
       [] r = "connection" -> \E c \in Conns : IsOpen(c)
       [] r = "task"       -> \/ accepting # "none" \/ tasks # {}
                              \/ \E w \in Workers : worker[w] = "idle"
                              \/ cancelling # {}}

Abstract == INSTANCE Lifecycle
  WITH phase <- Phase, held <- Held, Startup <- {"transport", "listener", "discovery"}

\* The node implements Lifecycle: start(), stop() and network_changed() take place one
\* at a time, and whenever the node is stopped (also after a start that failed or was
\* cancelled half-way, or a stop whose caller was cancelled) the transport, the
\* listener and discovery are down, no connection that a client or a dial got through
\* meanwhile is open, and no task of the node is left.
Implements == Abstract!Spec

\* A running node has exactly handler_concurrency workers of its own generation, and
\* only those wait for messages: a handler that outlives its generation, because it
\* called stop() or network_changed() itself, is not counted and never gets more.
WorkersExact ==
  /\ running => Cardinality({w \in Workers : Current(w)}) = HandlerConcurrency
  /\ \A w \in Workers : worker[w] = "idle" => wgen[w] = generation

\* A dial that began before the transport was stopped is never handed out later, not
\* even when the transport has been started again by the time it gets through.
DialsCurrent == \A d \in Dials \ inHand : IsOpen(d) => started /\ dgen[d] = tgen

Pending   == \E k \in Calls : call[k] \in {"waiting", "holding"}
Reentrant == \E k \in Calls : caller[k] # None

\* Every lifecycle call of the host returns, also while clients, dials and handlers
\* are busy, as long as no handler makes such a call too.
HostCallsReturn == []<>(~Pending \/ Reentrant)

\* Every lifecycle call returns, whoever makes it: only an adapter whose close() or
\* stop() never returns can prevent a shutdown from finishing.
CallsReturn == []<>~Pending
=============================================================================
