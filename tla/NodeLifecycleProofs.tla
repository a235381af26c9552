------------------------- MODULE NodeLifecycleProofs -------------------------
(***************************************************************************)
(* PaqtoNode's start, stop and network_changed over the LAN adapter          *)
(* implement Lifecycle, for any number of calls, clients, dials, listeners   *)
(* and dispatch workers.                                                     *)
(***************************************************************************)
EXTENDS NodeLifecycle, FiniteSetTheorems, TLAPS

-----------------------------------------------------------------------------
(* The inductive invariant *)

\* What each variable is; the sets that are counted are finite.
AdapterTyped ==
  /\ started \in BOOLEAN /\ tgen \in Nat
  /\ lstate \in [Listeners -> {"new", "created", "open", "closed"}]
  /\ conn \in [Conns -> {"absent", "setup", "open", "closed"}]
  /\ via \in [Inbound -> Listeners \cup {None}]
  /\ accepted \subseteq Inbound
  /\ waiter \in Inbound \cup {"none", "pending", "closed"}
  /\ tracked \subseteq Inbound
  /\ dgen \in [Dials -> Nat] /\ tconns \subseteq Dials /\ inHand \subseteq Conns

NodeTyped ==
  /\ running \in BOOLEAN /\ generation \in Nat
  /\ holder \in Calls \cup {None} /\ stage \in Stages /\ todo \subseteq Jobs
  /\ call \in [Calls -> {"new", "waiting", "holding", "done"}]
  /\ caller \in [Calls -> Workers \cup {None}]
  /\ listener \in Listeners \cup {None} /\ discovering \in BOOLEAN
  /\ incoming \subseteq Inbound /\ tasks \subseteq Inbound
  /\ accepting \in {"none", "ready", "waiting"}
  /\ cancelling \subseteq Inbound \cup Workers \cup {Loop}
  /\ worker \in [Workers -> {"new", "idle", "busy", "ended"}]
  /\ wgen \in [Workers -> Nat] /\ replaced \in 0..MaxReplaced

Limits ==
  /\ IsFiniteSet(accepted) /\ Cardinality(accepted) <= MaxPendingAccepts
  /\ IsFiniteSet(incoming) /\ Cardinality(incoming) <= MaxConnections

\* One call has the lock exactly while a transition is under way, and what a
\* transition does depends on its stage.
Locked ==
  /\ (holder = None) <=> (stage = "none")
  /\ \A k \in Calls : (call[k] = "holding") <=> (holder = k)
  /\ running => stage \in {"none", "refresh"}
  /\ stage = "refresh" => running
  /\ todo # {} => stage \in {"rollback", "cleanup", "services"}
  /\ cancelling # {} => stage \in {"cleanup", "gather"}

\* At rest: between two transitions, and not running.
AtRest == stage = "none" /\ ~running

\* Only the listener of the transition is open, and until when.
OneListener ==
  /\ Listening \subseteq {listener}
  /\ stage = "bind" => listener \in Listeners
  /\ stage = "announce" \/ running => listener \in Listening
  /\ stage \in {"gather", "services"} \/ AtRest => listener = None
  /\ stage \in {"cleanup", "rollback"} /\ Listening # {} => "listener" \in todo

\* What is up is down again, or still to do, when the services are stopped.
ServicesUp ==
  /\ stage \in {"bind", "announce"} \/ running => started
  /\ stage \in {"rollback", "services"} =>
       /\ started => "transport" \in todo
       /\ discovering => "discovery" \in todo
  /\ AtRest => ~started /\ ~discovering

\* A client that is being set up reached a listener that was open.
Reached == \A c \in Inbound :
  conn[c] = "setup" => via[c] \in Listeners /\ lstate[via[c]] \in {"open", "closed"}

\* Somebody who will close it knows every open connection.
Known ==
  /\ \A c \in Inbound : IsOpen(c) => c \in tracked \cup inHand
  /\ \A d \in Dials : IsOpen(d) => d \in tconns \cup inHand
  /\ Listening = {} => tracked = {}
  /\ ~started => tconns = {}
  /\ inHand # {} => "held" \in todo \/ "sockets" \in todo

\* A node that does not run has cancelled every task of its own.
TasksCancelled ==
  /\ ~running => tasks \subseteq cancelling
  /\ ~running /\ accepting # "none" => Loop \in cancelling
  /\ ~running => \A w \in Workers : worker[w] = "idle" => w \in cancelling
  /\ running => accepting # "none"

\* Workers belong to a generation that has been; a handler inside a lifecycle call is busy.
WorkersSound ==
  /\ \A w \in Workers : wgen[w] <= generation
  /\ \A w \in Workers : InCall(w) # {} => worker[w] = "busy"

Sound ==
  /\ AdapterTyped /\ NodeTyped /\ Limits /\ Locked /\ OneListener /\ ServicesUp
  /\ Reached /\ Known /\ DialsCurrent /\ TasksCancelled /\ WorkersSound /\ WorkersExact

-----------------------------------------------------------------------------
(* The kinds of steps *)

\* Acquire: the call returns at once, begins to start, or begins to stop.
Returns(k) ==
  /\ call[k] = "waiting" /\ holder = None
  /\ call' = [call EXCEPT ![k] = "done"]
  /\ UNCHANGED <<adapter, lifecycle, accepts, cancelling, caller, pool>>

StartBegins(k) ==
  /\ call[k] = "waiting" /\ holder = None /\ ~running /\ k \in Starts
  /\ call' = [call EXCEPT ![k] = "holding"] /\ holder' = k
  /\ BeginStart
  /\ UNCHANGED <<running, todo, inHand, incoming, cancelling, generation, discovering, conn,
                 via, accepted, waiter, tracked, dialling, tasks, accepting, caller, pool>>

StopBegins(k) ==
  /\ call[k] = "waiting" /\ holder = None /\ running
  /\ call' = [call EXCEPT ![k] = "holding"] /\ holder' = k
  /\ BeginStop(k)
  /\ UNCHANGED <<started, tgen, lstate, listener, generation, discovering, conn,
                 via, accepted, waiter, tracked, dialling, tasks, accepting, caller, pool>>

\* Stopped: stop() is done, or network_changed() starts again.
StopReturns ==
  /\ stage = "services" /\ todo = {} /\ Done(holder)
  /\ UNCHANGED <<adapter, running, generation, todo, listener, discovering, caller, accepts,
                 cancelling, pool>>

StartsAgain ==
  /\ stage = "services" /\ todo = {} /\ holder \in Changes /\ BeginStart
  /\ UNCHANGED <<conn, via, accepted, waiter, tracked, inHand, dialling, running, generation,
                 todo, discovering, caller, accepts, cancelling, pool, call, holder>>

Bookkeeping ==
  \/ \E k \in Calls : CallFromHost(k) \/ StartCancelledWaiting(k) \/ Returns(k)
  \/ \E w \in Workers, k \in Calls : CallFromHandler(w, k)

Begins == \E k \in Calls : StartBegins(k) \/ StopBegins(k) \/ TransportFails(k)

StageStep ==
  Bound \/ Rollback \/ StartDone \/ Refreshed \/ RolledBack \/ CleanedUp \/ Gathered
  \/ StopReturns \/ StartsAgain

JobStep == CloseListener \/ CloseConnections \/ StopDiscovery \/ StopTransport \/ CloseSockets

LoopStep ==
  \/ AcceptCancelled \/ AcceptWaits
  \/ \E c \in Inbound : AcceptQueued(c) \/ AcceptWakes(c) \/ IncomingEnds(c)

WorkerStep ==
  \E w \in Workers : HandlerRuns(w) \/ HandlerReturns(w) \/ WorkerDies(w) \/ WorkerCancelled(w)

LEMMA StepKinds ==
  ASSUME Sound, Next
  PROVE  AdapterStep \/ Bookkeeping \/ Begins \/ StageStep \/ JobStep \/ LoopStep \/ WorkerStep
<1>1. running \in BOOLEAN
  BY DEF Sound, NodeTyped
<1>2. ASSUME NEW k \in Calls, Acquire(k) PROVE Bookkeeping \/ Begins
  <2>1. CASE running = (k \in Starts)
    <3>1. Returns(k)
      BY <1>2, <2>1 DEF Acquire, Returns
    <3> QED BY <3>1 DEF Bookkeeping
  <2>2. CASE running # (k \in Starts) /\ k \in Starts
    <3>1. ~running
      BY <1>1, <2>2
    <3>2. StartBegins(k)
      BY <1>2, <2>2, <3>1 DEF Acquire, StartBegins
    <3> QED BY <3>2 DEF Begins
  <2>3. CASE running # (k \in Starts) /\ k \notin Starts
    <3>1. running
      BY <1>1, <2>3
    <3>2. StopBegins(k)
      BY <1>2, <2>3, <3>1 DEF Acquire, StopBegins
    <3> QED BY <3>2 DEF Begins
  <2> QED BY <2>1, <2>2, <2>3
<1>3. CASE Stopped
  <2>1. CASE holder \in Changes
    BY <1>3, <2>1 DEF Stopped, StartsAgain, StageStep
  <2>2. CASE holder \notin Changes
    BY <1>3, <2>2 DEF Stopped, StopReturns, StageStep, adapter, listening
  <2> QED BY <2>1, <2>2
<1>4. CASE Transition /\ ~Stopped
  BY <1>4 DEF Transition, StageStep, JobStep
<1>5. CASE \E k \in Calls : CallFromHost(k) \/ StartCancelledWaiting(k) \/ TransportFails(k)
  BY <1>5 DEF Bookkeeping, Begins
<1>6. CASE \E w \in Workers, k \in Calls : CallFromHandler(w, k)
  BY <1>6 DEF Bookkeeping
<1>7. CASE Rollback
  BY <1>7 DEF StageStep
<1>8. CASE AcceptCancelled \/ AcceptWaits
           \/ \E c \in Inbound : AcceptQueued(c) \/ AcceptWakes(c) \/ IncomingEnds(c)
  BY <1>8 DEF LoopStep
<1>9. CASE \E w \in Workers :
             HandlerRuns(w) \/ HandlerReturns(w) \/ WorkerDies(w) \/ WorkerCancelled(w)
  BY <1>9 DEF WorkerStep
<1> QED BY <1>2, <1>3, <1>4, <1>5, <1>6, <1>7, <1>8, <1>9 DEF Next

\* What steps of each kind leave alone.
LEMMA AdapterFrame ==
  ASSUME AdapterStep
  PROVE  /\ UNCHANGED <<started, tgen, lstate, inHand>>
         /\ UNCHANGED <<running, generation, holder, stage, todo, listener, discovering>>
         /\ UNCHANGED <<call, caller, incoming, tasks, accepting, cancelling, worker, wgen, replaced>>
<1>1. UNCHANGED <<lifecycle, calls, accepts, cancelling, pool>>
  BY DEF AdapterStep
<1>2. UNCHANGED <<started, tgen, lstate, inHand>>
  BY DEF AdapterStep, ClientArrives, HandleClient, HandleClientRefused, DialStart, DialDone,
         DialCloses, listening
<1> QED BY <1>1, <1>2 DEF lifecycle, calls, accepts, pool

LEMMA BookkeepingFrame ==
  ASSUME Bookkeeping
  PROVE  /\ UNCHANGED <<started, tgen, lstate, conn, via, accepted, waiter, tracked, dgen,
                        tconns, inHand>>
         /\ UNCHANGED <<running, generation, holder, stage, todo, listener, discovering>>
         /\ UNCHANGED <<incoming, tasks, accepting, cancelling, worker, wgen, replaced>>
<1>1. UNCHANGED <<adapter, lifecycle, accepts, cancelling, pool>>
  BY DEF Bookkeeping, CallFromHost, StartCancelledWaiting, Returns, CallFromHandler
<1> QED BY <1>1 DEF adapter, listening, dialling, lifecycle, accepts, pool

LEMMA LoopFrame ==
  ASSUME LoopStep
  PROVE  /\ UNCHANGED <<started, tgen, lstate, via, tracked, dgen, tconns, inHand>>
         /\ UNCHANGED <<running, generation, holder, stage, todo, listener, discovering>>
         /\ UNCHANGED <<call, caller, worker, wgen, replaced>>
<1>1. /\ UNCHANGED <<started, tgen, lstate, via, tracked, inHand, dialling>>
      /\ UNCHANGED <<lifecycle, calls, pool>>
  BY DEF LoopStep, AcceptCancelled, AcceptWaits, AcceptQueued, AcceptWakes, IncomingEnds, listening
<1> QED BY <1>1 DEF dialling, lifecycle, calls, pool

LEMMA WorkerFrame ==
  ASSUME WorkerStep
  PROVE  /\ UNCHANGED <<started, tgen, lstate, conn, via, accepted, waiter, tracked, dgen,
                        tconns, inHand>>
         /\ UNCHANGED <<running, generation, holder, stage, todo, listener, discovering>>
         /\ UNCHANGED <<call, caller, incoming, tasks, accepting>>
<1>1. UNCHANGED <<adapter, lifecycle, calls, accepts>>
  BY DEF WorkerStep, HandlerRuns, HandlerReturns, WorkerDies, WorkerCancelled
<1> QED BY <1>1 DEF adapter, listening, dialling, lifecycle, calls, accepts

LEMMA BeginsFrame ==
  ASSUME Begins
  PROVE  /\ UNCHANGED <<conn, via, accepted, waiter, tracked, dgen, tconns>>
         /\ UNCHANGED <<generation, discovering, caller, tasks, accepting, worker, wgen, replaced>>
BY DEF Begins, StartBegins, StopBegins, TransportFails, adapter, listening, dialling, accepts, pool

LEMMA StageFrame ==
  ASSUME StageStep
  PROVE  /\ UNCHANGED <<conn, via, accepted, waiter, tracked, dgen, tconns, inHand>>
         /\ UNCHANGED <<caller, incoming, tasks, cancelling, replaced>>
BY DEF StageStep, Bound, Rollback, StartDone, Refreshed, RolledBack, CleanedUp, Gathered,
       StopReturns, StartsAgain, adapter, listening, dialling, calls, accepts, pool

LEMMA JobFrame ==
  ASSUME JobStep
  PROVE  /\ UNCHANGED <<via, dgen, running, generation, holder, stage, listener>>
         /\ UNCHANGED <<call, caller, incoming, tasks, accepting, cancelling, worker, wgen, replaced>>
BY DEF JobStep, CloseListener, CloseConnections, StopDiscovery, StopTransport, CloseSockets,
       adapter, listening, dialling, calls, accepts, pool

-----------------------------------------------------------------------------
(* Types *)

LEMMA NextOneIsNew ==
  ASSUME Unused # {}
  PROVE  NextOne \in Listeners /\ lstate[NextOne] = "new"
BY DEF Unused, NextOne

LEMMA CloseListenersType ==
  ASSUME AdapterTyped, NEW S, CloseListeners(S)
  PROVE  /\ lstate' \in [Listeners -> {"new", "created", "open", "closed"}]
         /\ waiter' \in Inbound \cup {"none", "pending", "closed"}
         /\ accepted' \subseteq Inbound /\ tracked' \subseteq Inbound /\ inHand' \subseteq Conns
<1>1. lstate' \in [Listeners -> {"new", "created", "open", "closed"}]
  BY DEF AdapterTyped, CloseListeners
<1>2. CASE \E l \in S : lstate[l] = "open"
  BY <1>1, <1>2 DEF AdapterTyped, CloseListeners, Conns
<1>3. CASE ~(\E l \in S : lstate[l] = "open")
  BY <1>1, <1>3 DEF AdapterTyped, CloseListeners
<1> QED BY <1>2, <1>3

LEMMA AdapterTypedStep ==
  ASSUME Sound, [Next]_vars
  PROVE  AdapterTyped'
<1>0. AdapterTyped /\ incoming \subseteq Inbound /\ tasks \subseteq Inbound
  BY DEF Sound, NodeTyped
<1>1. CASE AdapterStep
  <2>1. UNCHANGED <<started, tgen, lstate, inHand>>
    BY <1>1, AdapterFrame
  <2>2. ASSUME NEW c \in Inbound, ClientArrives(c) PROVE AdapterTyped'
    <3>1. PICK l \in Listeners : via' = [via EXCEPT ![c] = l]
      BY <2>2 DEF ClientArrives, Listening
    <3>2. conn' = [conn EXCEPT ![c] = "setup"] /\ c \in Conns
      BY <2>2 DEF ClientArrives, Set, Conns
    <3> QED BY <1>0, <2>1, <2>2, <3>1, <3>2 DEF ClientArrives, AdapterTyped, dialling
  <2>3. ASSUME NEW c \in Inbound, HandleClient(c) PROVE AdapterTyped'
    <3>1. /\ conn' \in [Conns -> {"absent", "setup", "open", "closed"}]
          /\ accepted' \subseteq Inbound /\ tracked' \subseteq Inbound
          /\ waiter' \in Inbound \cup {"none", "pending", "closed"}
      BY <1>0, <2>3 DEF HandleClient, Set, AdapterTyped
    <3> QED BY <1>0, <2>1, <2>3, <3>1 DEF HandleClient, AdapterTyped, dialling
  <2>4. ASSUME NEW c \in Inbound, HandleClientRefused(c) PROVE AdapterTyped'
    BY <1>0, <2>1, <2>4 DEF HandleClientRefused, Set, AdapterTyped, listening, dialling
  <2>5. ASSUME NEW d \in Dials, DialStart(d) PROVE AdapterTyped'
    BY <1>0, <2>1, <2>5 DEF DialStart, Set, AdapterTyped, listening
  <2>6. ASSUME NEW d \in Dials, DialDone(d) PROVE AdapterTyped'
    BY <1>0, <2>1, <2>6 DEF DialDone, Set, AdapterTyped, listening
  <2>7. ASSUME NEW d \in Dials, DialCloses(d) PROVE AdapterTyped'
    BY <1>0, <2>1, <2>7 DEF DialCloses, Set, AdapterTyped, listening, dialling
  <2> QED BY <1>1, <2>2, <2>3, <2>4, <2>5, <2>6, <2>7 DEF AdapterStep
<1>2. CASE Bookkeeping \/ WorkerStep \/ UNCHANGED vars
  <2>1. UNCHANGED <<started, tgen, lstate, conn, via, accepted, waiter, tracked, dgen,
                    tconns, inHand>>
    BY <1>2, BookkeepingFrame, WorkerFrame DEF vars, adapter, listening, dialling
  <2> QED BY <1>0, <2>1 DEF AdapterTyped
<1>3. CASE Begins
  <2>1. UNCHANGED <<conn, via, accepted, waiter, tracked, dgen, tconns>>
    BY <1>3, BeginsFrame
  <2>2. ASSUME NEW k \in Calls, StartBegins(k) PROVE AdapterTyped'
    BY <1>0, <2>1, <2>2, NextOneIsNew DEF StartBegins, BeginStart, TransportStart, AdapterTyped
  <2>3. ASSUME NEW k \in Calls, StopBegins(k) PROVE AdapterTyped'
    BY <1>0, <2>1, <2>3 DEF StopBegins, BeginStop, AdapterTyped, Conns
  <2>4. ASSUME NEW k \in Calls, TransportFails(k) PROVE AdapterTyped'
    BY <1>0, <2>1, <2>4 DEF TransportFails, adapter, listening, AdapterTyped
  <2> QED BY <1>3, <2>2, <2>3, <2>4 DEF Begins
<1>4. CASE StageStep
  <2>1. UNCHANGED <<conn, via, accepted, waiter, tracked, dgen, tconns, inHand>>
    BY <1>4, StageFrame
  <2>2. CASE Bound
    BY <1>0, <2>1, <2>2 DEF Bound, AdapterTyped
  <2>3. CASE StartsAgain
    BY <1>0, <2>1, <2>3, NextOneIsNew DEF StartsAgain, BeginStart, TransportStart, AdapterTyped
  <2>4. CASE UNCHANGED adapter
    BY <1>0, <2>4 DEF adapter, listening, dialling, AdapterTyped
  <2> QED BY <1>4, <2>2, <2>3, <2>4 DEF StageStep, Rollback, StartDone, Refreshed, RolledBack,
                                       CleanedUp, Gathered, StopReturns
<1>5. CASE JobStep
  <2>1. UNCHANGED <<via, dgen>>
    BY <1>5, JobFrame
  <2>2. CASE CloseListener \/ CloseSockets
    <3>1. /\ \E S : CloseListeners(S)
          /\ UNCHANGED <<started, tgen, conn, tconns>>
      BY <2>2 DEF CloseListener, CloseSockets, dialling
    <3> QED BY <1>0, <2>1, <3>1, CloseListenersType DEF AdapterTyped
  <2>3. CASE CloseConnections
    BY <1>0, <2>1, <2>3 DEF CloseConnections, CloseHeld, listening, dialling, AdapterTyped
  <2>4. CASE StopDiscovery
    BY <1>0, <2>4 DEF StopDiscovery, adapter, listening, dialling, AdapterTyped
  <2>5. CASE StopTransport
    <3>1. tgen' \in Nat
      BY <1>0, <2>5 DEF StopTransport, TransportStop, AdapterTyped
    <3>2. /\ started' = FALSE /\ inHand' = inHand \cup tconns /\ tconns' = {}
          /\ UNCHANGED <<conn, lstate, accepted, waiter, tracked>>
      BY <2>5 DEF StopTransport, TransportStop, listening
    <3> QED BY <1>0, <2>1, <3>1, <3>2 DEF AdapterTyped, Conns
  <2> QED BY <1>5, <2>2, <2>3, <2>4, <2>5 DEF JobStep
<1>6. CASE LoopStep
  <2>1. UNCHANGED <<started, tgen, lstate, via, tracked, dgen, tconns, inHand>>
    BY <1>6, LoopFrame
  <2>2. CASE AcceptCancelled \/ AcceptWaits
    BY <1>0, <2>1, <2>2 DEF AcceptCancelled, AcceptWaits, AdapterTyped
  <2>3. ASSUME NEW c \in Inbound, AcceptQueued(c) \/ AcceptWakes(c) PROVE AdapterTyped'
    <3>1. conn' \in [Conns -> {"absent", "setup", "open", "closed"}]
      BY <1>0, <2>3 DEF AcceptQueued, AcceptWakes, Admit, Set, AdapterTyped
    <3> QED BY <1>0, <2>1, <2>3, <3>1 DEF AcceptQueued, AcceptWakes, AdapterTyped
  <2>4. ASSUME NEW c \in Inbound, IncomingEnds(c) PROVE AdapterTyped'
    BY <1>0, <2>1, <2>4 DEF IncomingEnds, Set, listening, AdapterTyped
  <2> QED BY <1>6, <2>2, <2>3, <2>4 DEF LoopStep
<1> QED BY <1>1, <1>2, <1>3, <1>4, <1>5, <1>6, StepKinds

LEMMA StartWorkersType ==
  ASSUME NodeTyped, NEW g \in Nat, NEW N, StartWorkers(g, N)
  PROVE  /\ worker' \in [Workers -> {"new", "idle", "busy", "ended"}]
         /\ wgen' \in [Workers -> Nat]
BY DEF StartWorkers, NodeTyped

LEMMA NodeTypedStep ==
  ASSUME Sound, [Next]_vars
  PROVE  NodeTyped'
<1>0. NodeTyped /\ Locked
  BY DEF Sound
<1>1. CASE AdapterStep \/ UNCHANGED vars
  <2>1. /\ UNCHANGED <<running, generation, holder, stage, todo, listener, discovering>>
        /\ UNCHANGED <<call, caller, incoming, tasks, accepting, cancelling, worker, wgen, replaced>>
    BY <1>1, AdapterFrame DEF vars, lifecycle, calls, accepts, pool
  <2> QED BY <1>0, <2>1 DEF NodeTyped
<1>2. CASE Bookkeeping
  <2>1. /\ UNCHANGED <<running, generation, holder, stage, todo, listener, discovering>>
        /\ UNCHANGED <<incoming, tasks, accepting, cancelling, worker, wgen, replaced>>
    BY <1>2, BookkeepingFrame
  <2>2. call' \in [Calls -> {"new", "waiting", "holding", "done"}]
    BY <1>0, <1>2 DEF Bookkeeping, CallFromHost, StartCancelledWaiting, Returns, CallFromHandler,
                      NodeTyped
  <2>3. caller' \in [Calls -> Workers \cup {None}]
    BY <1>0, <1>2 DEF Bookkeeping, CallFromHost, StartCancelledWaiting, Returns, CallFromHandler,
                      NodeTyped
  <2> QED BY <1>0, <2>1, <2>2, <2>3 DEF NodeTyped
<1>3. CASE Begins
  <2>1. UNCHANGED <<generation, discovering, caller, tasks, accepting, worker, wgen, replaced>>
    BY <1>3, BeginsFrame
  <2>2. PICK k \in Calls : StartBegins(k) \/ StopBegins(k) \/ TransportFails(k)
    BY <1>3 DEF Begins
  <2>3. call' \in [Calls -> {"new", "waiting", "holding", "done"}] /\ holder' \in Calls \cup {None}
    BY <1>0, <2>2 DEF StartBegins, StopBegins, TransportFails, NodeTyped
  <2>4. CASE StartBegins(k)
    BY <1>0, <2>1, <2>3, <2>4, NextOneIsNew DEF StartBegins, BeginStart, NodeTyped, Stages
  <2>5. CASE StopBegins(k)
    <3>1. cancelling' \subseteq Inbound \cup Workers \cup {Loop}
      BY <1>0, <2>5 DEF StopBegins, BeginStop, NodeTyped
    <3> QED BY <1>0, <2>1, <2>3, <2>5, <3>1 DEF StopBegins, BeginStop, NodeTyped, Stages, Jobs
  <2>6. CASE TransportFails(k)
    BY <1>0, <2>1, <2>3, <2>6 DEF TransportFails, NodeTyped, Stages, Jobs, accepts
  <2> QED BY <2>2, <2>4, <2>5, <2>6
<1>4. CASE StageStep
  <2>1. UNCHANGED <<caller, incoming, tasks, cancelling, replaced>>
    BY <1>4, StageFrame
  <2>2. holder \in Calls
    BY <1>0, <1>4 DEF StageStep, Bound, Rollback, StartDone, Refreshed, RolledBack, CleanedUp,
                      Gathered, StopReturns, StartsAgain, Locked, NodeTyped
  <2>3. /\ holder' \in Calls \cup {None}
        /\ call' \in [Calls -> {"new", "waiting", "holding", "done"}]
    BY <1>0, <1>4, <2>2 DEF StageStep, Bound, Rollback, StartDone, Refreshed, RolledBack, CleanedUp,
                      Gathered, StopReturns, StartsAgain, Done, NodeTyped, calls
  <2>4. CASE Bound \/ Rollback \/ CleanedUp \/ Gathered
    BY <1>0, <2>1, <2>3, <2>4 DEF Bound, Rollback, CleanedUp, Gathered, NodeTyped, Stages, Jobs,
                                  accepts, pool
  <2>5. CASE StartDone
    <3>1. generation' = generation + 1 /\ generation + 1 \in Nat
      BY <1>0, <2>5 DEF StartDone, NodeTyped
    <3>2. /\ worker' \in [Workers -> {"new", "idle", "busy", "ended"}]
          /\ wgen' \in [Workers -> Nat]
      BY <1>0, <2>5, <3>1, StartWorkersType DEF StartDone
    <3>3. stage' \in Stages
      BY <2>5 DEF StartDone, Done, Stages
    <3> QED BY <1>0, <2>1, <2>3, <2>5, <3>1, <3>2, <3>3 DEF StartDone, NodeTyped
  <2>6. CASE Refreshed \/ RolledBack \/ StopReturns
    BY <1>0, <2>1, <2>3, <2>6 DEF Refreshed, RolledBack, StopReturns, Done, NodeTyped, Stages,
                                  accepts, pool
  <2>7. CASE StartsAgain
    BY <1>0, <2>1, <2>3, <2>7, NextOneIsNew DEF StartsAgain, BeginStart, NodeTyped, Stages,
                                  accepts, pool
  <2> QED BY <1>4, <2>4, <2>5, <2>6, <2>7 DEF StageStep
<1>5. CASE JobStep
  <2>1. /\ UNCHANGED <<running, generation, holder, stage, listener>>
        /\ UNCHANGED <<call, caller, incoming, tasks, accepting, cancelling, worker, wgen, replaced>>
    BY <1>5, JobFrame
  <2>2. todo' \subseteq Jobs /\ discovering' \in BOOLEAN
    BY <1>0, <1>5 DEF JobStep, CloseListener, CloseConnections, StopDiscovery, StopTransport,
                      CloseSockets, Finish, NodeTyped, Jobs
  <2> QED BY <1>0, <2>1, <2>2 DEF NodeTyped
<1>6. CASE LoopStep
  <2>1. /\ UNCHANGED <<running, generation, holder, stage, todo, listener, discovering>>
        /\ UNCHANGED <<call, caller, worker, wgen, replaced>>
    BY <1>6, LoopFrame
  <2>2. /\ incoming' \subseteq Inbound /\ tasks' \subseteq Inbound
        /\ accepting' \in {"none", "ready", "waiting"}
        /\ cancelling' \subseteq Inbound \cup Workers \cup {Loop}
    BY <1>0, <1>6 DEF LoopStep, AcceptCancelled, AcceptWaits, AcceptQueued, AcceptWakes, Admit,
                      IncomingEnds, NodeTyped
  <2> QED BY <1>0, <2>1, <2>2 DEF NodeTyped
<1>7. CASE WorkerStep
  <2>1. /\ UNCHANGED <<running, generation, holder, stage, todo, listener, discovering>>
        /\ UNCHANGED <<call, caller, incoming, tasks, accepting>>
    BY <1>7, WorkerFrame
  <2>2. PICK w \in Workers : HandlerRuns(w) \/ HandlerReturns(w) \/ WorkerDies(w) \/ WorkerCancelled(w)
    BY <1>7 DEF WorkerStep
  <2>3. CASE ~WorkerDies(w)
    BY <1>0, <2>1, <2>2, <2>3 DEF HandlerRuns, HandlerReturns, WorkerCancelled, NodeTyped
  <2>4. CASE WorkerDies(w)
    <3>1. /\ worker' \in [Workers -> {"new", "idle", "busy", "ended"}]
          /\ wgen' \in [Workers -> Nat] /\ cancelling' = cancelling
      BY <1>0, <2>4 DEF WorkerDies, NodeTyped
    <3>2. replaced' \in 0..MaxReplaced
      <4>1. MaxReplaced \in Nat /\ replaced \in 0..MaxReplaced
        BY <1>0, NodeAssumption DEF NodeTyped
      <4>2. replaced' = replaced \/ (replaced < MaxReplaced /\ replaced' = replaced + 1)
        BY <2>4 DEF WorkerDies
      <4> QED BY <4>1, <4>2
    <3> QED BY <1>0, <2>1, <3>1, <3>2 DEF NodeTyped
  <2> QED BY <2>3, <2>4
<1> QED BY <1>1, <1>2, <1>3, <1>4, <1>5, <1>6, <1>7, StepKinds

-----------------------------------------------------------------------------
(* The lock and the stages of a transition *)

LEMMA LockedStep ==
  ASSUME Sound, [Next]_vars
  PROVE  Locked'
<1>0. NodeTyped /\ Locked /\ None \notin Calls
  BY NodeAssumption DEF Sound
<1>1. CASE AdapterStep \/ UNCHANGED vars
  <2>1. UNCHANGED <<running, holder, stage, todo, call, cancelling>>
    BY <1>1, AdapterFrame DEF vars, lifecycle, calls
  <2> QED BY <1>0, <2>1 DEF Locked
<1>2. CASE Bookkeeping
  <2>1. UNCHANGED <<running, holder, stage, todo, cancelling>>
    BY <1>2, BookkeepingFrame
  <2>2. \E k \in Calls : /\ call[k] \in {"new", "waiting"}
                         /\ \E v \in {"waiting", "done"} : call' = [call EXCEPT ![k] = v]
    BY <1>2 DEF Bookkeeping, CallFromHost, StartCancelledWaiting, Returns, CallFromHandler
  <2>3. \A j \in Calls : (call'[j] = "holding") <=> (call[j] = "holding")
    BY <1>0, <2>2 DEF NodeTyped
  <2> QED BY <1>0, <2>1, <2>3 DEF Locked
<1>3. CASE Begins
  <2>1. PICK k \in Calls : StartBegins(k) \/ StopBegins(k) \/ TransportFails(k)
    BY <1>3 DEF Begins
  <2>2. /\ call' = [call EXCEPT ![k] = "holding"] /\ holder' = k
        /\ holder = None \/ holder = k
    BY <2>1 DEF StartBegins, StopBegins, TransportFails
  <2>3. \A j \in Calls : (call'[j] = "holding") <=> (holder' = j)
    BY <1>0, <2>2 DEF Locked, NodeTyped
  <2>4. CASE StartBegins(k)
    BY <1>0, <2>2, <2>3, <2>4 DEF StartBegins, BeginStart, Locked
  <2>5. CASE StopBegins(k)
    BY <1>0, <2>2, <2>3, <2>5 DEF StopBegins, BeginStop, Locked
  <2>6. CASE TransportFails(k)
    BY <1>0, <2>2, <2>3, <2>6 DEF TransportFails, Locked
  <2> QED BY <2>1, <2>4, <2>5, <2>6
<1>4. CASE StageStep
  <2>1. UNCHANGED cancelling
    BY <1>4, StageFrame
  <2>2. holder \in Calls
    BY <1>0, <1>4 DEF StageStep, Bound, Rollback, StartDone, Refreshed, RolledBack, CleanedUp,
                      Gathered, StopReturns, StartsAgain, Locked, NodeTyped
  <2>3. ASSUME Done(holder)
        PROVE  /\ \A j \in Calls : (call'[j] = "holding") <=> (holder' = j)
               /\ holder' = None /\ stage' = "none"
    BY <1>0, <2>2, <2>3 DEF Done, Locked, NodeTyped
  <2>4. CASE Bound \/ Rollback \/ CleanedUp \/ Gathered
    BY <1>0, <2>1, <2>4 DEF Bound, Rollback, CleanedUp, Gathered, Locked, calls
  <2>5. CASE StartDone /\ holder \in Changes
    BY <1>0, <2>1, <2>5 DEF StartDone, Locked
  <2>6. CASE StartDone /\ holder \notin Changes
    BY <1>0, <2>1, <2>3, <2>6 DEF StartDone, Locked
  <2>7. CASE Refreshed \/ RolledBack \/ StopReturns
    BY <1>0, <2>1, <2>3, <2>7 DEF Refreshed, RolledBack, StopReturns, Locked
  <2>8. CASE StartsAgain
    BY <1>0, <2>1, <2>8 DEF StartsAgain, BeginStart, Locked
  <2> QED BY <1>4, <2>4, <2>5, <2>6, <2>7, <2>8 DEF StageStep
<1>5. CASE JobStep
  <2>1. UNCHANGED <<running, holder, stage, call, cancelling>>
    BY <1>5, JobFrame
  <2>2. todo # {}
    BY <1>5 DEF JobStep, CloseListener, CloseConnections, StopDiscovery, StopTransport, CloseSockets
  <2> QED BY <1>0, <2>1, <2>2 DEF Locked
<1>6. CASE LoopStep
  <2>1. UNCHANGED <<running, holder, stage, todo, call>>
    BY <1>6, LoopFrame
  <2>2. cancelling' \subseteq cancelling
    BY <1>6 DEF LoopStep, AcceptCancelled, AcceptWaits, AcceptQueued, AcceptWakes, IncomingEnds
  <2> QED BY <1>0, <2>1, <2>2 DEF Locked
<1>7. CASE WorkerStep
  <2>1. UNCHANGED <<running, holder, stage, todo, call>>
    BY <1>7, WorkerFrame
  <2>2. cancelling' \subseteq cancelling
    BY <1>7 DEF WorkerStep, HandlerRuns, HandlerReturns, WorkerDies, WorkerCancelled
  <2> QED BY <1>0, <2>1, <2>2 DEF Locked
<1> QED BY <1>1, <1>2, <1>3, <1>4, <1>5, <1>6, <1>7, StepKinds

-----------------------------------------------------------------------------
(* The listener and the services *)

LEMMA CloseListenersEffect ==
  ASSUME AdapterTyped, NEW S, CloseListeners(S)
  PROVE  /\ Listening' = Listening \ S
         /\ Listening' = {} /\ (Listening = {} => tracked = {}) => tracked' = {}
<1>1. Listening' = Listening \ S
  BY DEF CloseListeners, Listening, AdapterTyped
<1>2. CASE \E l \in S : lstate[l] = "open"
  BY <1>1, <1>2 DEF CloseListeners
<1>3. CASE ~(\E l \in S : lstate[l] = "open")
  <2>1. Listening' = Listening /\ tracked' = tracked
    BY <1>1, <1>3 DEF CloseListeners, Listening
  <2> QED BY <1>1, <2>1
<1> QED BY <1>1, <1>2, <1>3

LEMMA BeginStartEffect ==
  ASSUME AdapterTyped, BeginStart
  PROVE  /\ Listening' = Listening /\ listener' \in Listeners /\ stage' = "bind"
         /\ started' = TRUE
         /\ \A l \in Listeners : lstate[l] \in {"open", "closed"} => lstate'[l] = lstate[l]
BY NextOneIsNew DEF BeginStart, TransportStart, Listening, AdapterTyped

LEMMA OneListenerStep ==
  ASSUME Sound, [Next]_vars
  PROVE  OneListener'
<1>0. /\ AdapterTyped /\ NodeTyped /\ Locked /\ OneListener /\ None \notin Listeners
      /\ \A l \in Listening : l \in Listeners
  BY AdapterAssumption DEF Sound, Listening
<1>1. CASE AdapterStep \/ Bookkeeping \/ LoopStep \/ WorkerStep \/ UNCHANGED vars
  <2>1. UNCHANGED <<lstate, running, stage, todo, listener>>
    BY <1>1, AdapterFrame, BookkeepingFrame, LoopFrame, WorkerFrame
       DEF vars, adapter, listening, lifecycle
  <2> QED BY <1>0, <2>1 DEF OneListener, Listening, AtRest
<1>2. ASSUME NEW k \in Calls, StartBegins(k) PROVE OneListener'
  <2>1. /\ Listening' = Listening /\ listener' \in Listeners /\ stage' = "bind"
        /\ running' = running /\ ~running /\ stage = "none"
    BY <1>0, <1>2, BeginStartEffect DEF StartBegins, Locked
  <2>2. Listening = {}
    BY <1>0, <2>1 DEF OneListener, AtRest
  <2> QED BY <2>1, <2>2 DEF OneListener, AtRest
<1>3. ASSUME NEW k \in Calls, StopBegins(k) PROVE OneListener'
  <2>1. /\ Listening' = Listening /\ listener' = listener /\ stage' = "cleanup"
        /\ running' = FALSE /\ "listener" \in todo'
    BY <1>3 DEF StopBegins, BeginStop, Listening
  <2> QED BY <1>0, <2>1 DEF OneListener, AtRest
<1>4. ASSUME NEW k \in Calls, TransportFails(k) PROVE OneListener'
  <2>1. /\ lstate' = lstate /\ running' = running /\ stage' = "rollback" /\ listener' = None
        /\ stage = "services" \/ AtRest
    BY <1>0, <1>4 DEF TransportFails, adapter, listening, Locked, AtRest
  <2>2. Listening = {} /\ Listening' = Listening /\ ~running
    BY <1>0, <2>1 DEF OneListener, Listening, AtRest, Locked
  <2> QED BY <2>1, <2>2 DEF OneListener, AtRest
<1>5. CASE StageStep
  <2>1. CASE Bound
    <3>1. /\ listener \in Listeners /\ listener' = listener /\ stage = "bind" /\ ~running
          /\ running' = running /\ stage' = "announce"
      BY <1>0, <2>1 DEF Bound, OneListener, Locked
    <3>2. Listening' = Listening \cup {listener}
      BY <1>0, <2>1, <3>1 DEF Bound, Listening, AdapterTyped
    <3> QED BY <1>0, <3>1, <3>2 DEF OneListener, AtRest
  <2>2. CASE Rollback
    <3>1. /\ lstate' = lstate /\ listener' = listener /\ running' = running /\ ~running
          /\ stage' = "rollback" /\ "listener" \in todo'
      BY <1>0, <2>2 DEF Rollback, adapter, listening, Locked
    <3> QED BY <1>0, <3>1 DEF OneListener, Listening, AtRest
  <2>3. CASE StartDone
    <3>1. /\ lstate' = lstate /\ listener' = listener /\ running' = TRUE /\ stage = "announce"
          /\ stage' \in {"refresh", "none"}
      BY <2>3 DEF StartDone, Done, adapter, listening
    <3> QED BY <1>0, <3>1 DEF OneListener, Listening, AtRest
  <2>4. CASE Refreshed
    <3>1. /\ lstate' = lstate /\ listener' = listener /\ running' = running /\ running
          /\ stage' = "none"
      BY <1>0, <2>4 DEF Refreshed, Done, adapter, listening, Locked
    <3> QED BY <1>0, <3>1 DEF OneListener, Listening, AtRest
  <2>5. CASE RolledBack \/ CleanedUp
    <3>1. /\ lstate' = lstate /\ listener' = None /\ running' = running /\ ~running
          /\ stage' \in {"none", "gather"} /\ todo = {} /\ stage \in {"cleanup", "rollback"}
      BY <1>0, <2>5 DEF RolledBack, CleanedUp, Done, adapter, listening, Locked
    <3>2. Listening = {} /\ Listening' = Listening
      BY <1>0, <3>1 DEF OneListener, Listening
    <3> QED BY <3>1, <3>2 DEF OneListener, AtRest
  <2>6. CASE Gathered \/ StopReturns
    <3>1. /\ lstate' = lstate /\ listener' = listener /\ running' = running /\ ~running
          /\ stage' \in {"none", "services"} /\ stage \in {"gather", "services"}
      BY <1>0, <2>6 DEF Gathered, StopReturns, Done, adapter, listening, Locked
    <3> QED BY <1>0, <3>1 DEF OneListener, Listening, AtRest
  <2>7. CASE StartsAgain
    <3>1. /\ Listening' = Listening /\ listener' \in Listeners /\ stage' = "bind"
          /\ running' = running /\ ~running /\ stage = "services"
      BY <1>0, <2>7, BeginStartEffect DEF StartsAgain, Locked
    <3>2. Listening = {}
      BY <1>0, <3>1 DEF OneListener
    <3> QED BY <3>1, <3>2 DEF OneListener, AtRest
  <2> QED BY <1>5, <2>1, <2>2, <2>3, <2>4, <2>5, <2>6, <2>7 DEF StageStep
<1>6. CASE JobStep
  <2>1. UNCHANGED <<running, stage, listener>>
    BY <1>6, JobFrame
  <2>2. todo # {} /\ stage \in {"rollback", "cleanup", "services"} /\ ~running
    BY <1>0, <1>6 DEF JobStep, CloseListener, CloseConnections, StopDiscovery, StopTransport,
                      CloseSockets, Locked
  <2>3. CASE CloseListener
    <3>1. Listening' = Listening \ ({listener} \ {None})
      BY <1>0, <2>3, CloseListenersEffect DEF CloseListener
    <3>2. Listening' = {}
      BY <1>0, <3>1 DEF OneListener
    <3> QED BY <1>0, <2>1, <2>2, <3>2 DEF OneListener, AtRest
  <2>4. CASE CloseSockets
    <3>1. Listening' = Listening \ {l \in Listeners : lstate[l] # "new"}
      BY <1>0, <2>4, CloseListenersEffect DEF CloseSockets
    <3>2. Listening' = {}
      BY <3>1 DEF Listening
    <3> QED BY <1>0, <2>1, <2>2, <3>2 DEF OneListener, AtRest
  <2>5. CASE CloseConnections \/ StopDiscovery \/ StopTransport
    <3>1. lstate' = lstate /\ ("listener" \in todo => "listener" \in todo')
      BY <2>5 DEF CloseConnections, StopDiscovery, StopTransport, Finish, adapter, listening
    <3> QED BY <1>0, <2>1, <2>2, <3>1 DEF OneListener, Listening, AtRest
  <2> QED BY <1>6, <2>3, <2>4, <2>5 DEF JobStep
<1> QED BY <1>1, <1>2, <1>3, <1>4, <1>5, <1>6, StepKinds DEF Begins

LEMMA ServicesUpStep ==
  ASSUME Sound, [Next]_vars
  PROVE  ServicesUp'
<1>0. AdapterTyped /\ NodeTyped /\ Locked /\ ServicesUp
  BY DEF Sound
<1>1. CASE AdapterStep \/ Bookkeeping \/ LoopStep \/ WorkerStep \/ UNCHANGED vars
  <2>1. UNCHANGED <<started, discovering, running, stage, todo>>
    BY <1>1, AdapterFrame, BookkeepingFrame, LoopFrame, WorkerFrame
       DEF vars, adapter, lifecycle
  <2> QED BY <1>0, <2>1 DEF ServicesUp, AtRest
<1>2. CASE Begins
  <2>1. PICK k \in Calls : StartBegins(k) \/ StopBegins(k) \/ TransportFails(k)
    BY <1>2 DEF Begins
  <2>2. CASE StartBegins(k)
    <3>1. started' = TRUE /\ stage' = "bind" /\ running' = running /\ ~running
      BY <2>2 DEF StartBegins, BeginStart, TransportStart
    <3> QED BY <3>1 DEF ServicesUp, AtRest
  <2>3. CASE StopBegins(k)
    <3>1. stage' = "cleanup" /\ running' = FALSE
      BY <2>3 DEF StopBegins, BeginStop
    <3> QED BY <3>1 DEF ServicesUp, AtRest
  <2>4. CASE TransportFails(k)
    <3>1. /\ stage' = "rollback" /\ todo' = {"transport"} /\ running' = running
          /\ UNCHANGED <<started, discovering>>
          /\ (stage = "services" /\ todo = {}) \/ AtRest
      BY <1>0, <2>4 DEF TransportFails, adapter, Locked, AtRest
    <3>2. ~discovering /\ ~running
      BY <1>0, <3>1 DEF ServicesUp, AtRest, Locked
    <3> QED BY <3>1, <3>2 DEF ServicesUp, AtRest
  <2> QED BY <2>1, <2>2, <2>3, <2>4
<1>3. CASE StageStep
  <2>1. CASE Bound
    BY <1>0, <2>1 DEF Bound, ServicesUp, AtRest, Locked
  <2>2. CASE Rollback
    BY <1>0, <2>2 DEF Rollback, ServicesUp, AtRest, Locked
  <2>3. CASE StartDone
    <3>1. /\ started' = started /\ stage = "announce" /\ running' = TRUE
          /\ stage' \in {"refresh", "none"}
      BY <2>3 DEF StartDone, Done, adapter
    <3> QED BY <1>0, <3>1 DEF ServicesUp, AtRest
  <2>4. CASE Refreshed
    <3>1. started' = started /\ running' = running /\ running /\ stage' = "none"
      BY <1>0, <2>4 DEF Refreshed, Done, adapter, Locked
    <3> QED BY <1>0, <3>1 DEF ServicesUp, AtRest
  <2>5. CASE RolledBack \/ StopReturns
    <3>1. /\ UNCHANGED <<started, discovering, running>> /\ ~running /\ stage' = "none"
          /\ stage \in {"rollback", "services"} /\ todo = {}
      BY <1>0, <2>5 DEF RolledBack, StopReturns, Done, adapter, Locked
    <3> QED BY <1>0, <3>1 DEF ServicesUp, AtRest
  <2>6. CASE CleanedUp
    BY <1>0, <2>6 DEF CleanedUp, ServicesUp, AtRest, Locked
  <2>7. CASE Gathered
    <3>1. /\ running' = running /\ ~running /\ stage' = "services"
          /\ todo' = {"discovery", "transport"}
      BY <1>0, <2>7 DEF Gathered, Locked
    <3> QED BY <3>1 DEF ServicesUp, AtRest
  <2>8. CASE StartsAgain
    <3>1. started' = TRUE /\ stage' = "bind" /\ running' = running /\ ~running
      BY <1>0, <2>8 DEF StartsAgain, BeginStart, TransportStart, Locked
    <3> QED BY <3>1 DEF ServicesUp, AtRest
  <2> QED BY <1>3, <2>1, <2>2, <2>3, <2>4, <2>5, <2>6, <2>7, <2>8 DEF StageStep
<1>4. CASE JobStep
  <2>1. UNCHANGED <<running, stage>>
    BY <1>4, JobFrame
  <2>2. stage \in {"rollback", "cleanup", "services"} /\ ~running
    BY <1>0, <1>4 DEF JobStep, CloseListener, CloseConnections, StopDiscovery, StopTransport,
                      CloseSockets, Locked
  <2>3. /\ started' => started /\ ("transport" \in todo => "transport" \in todo')
        /\ discovering' => discovering /\ ("discovery" \in todo => "discovery" \in todo')
    BY <1>4 DEF JobStep, CloseListener, CloseConnections, StopDiscovery, StopTransport,
                CloseSockets, TransportStop, Finish, adapter
  <2> QED BY <1>0, <2>1, <2>2, <2>3 DEF ServicesUp, AtRest
<1> QED BY <1>1, <1>2, <1>3, <1>4, StepKinds
-----------------------------------------------------------------------------
(* The bounded queue and the admitted connections *)

LEMMA OneMore ==
  ASSUME NEW S, IsFiniteSet(S), NEW x, NEW N \in Nat, Cardinality(S) < N
  PROVE  IsFiniteSet(S \cup {x}) /\ Cardinality(S \cup {x}) <= N
BY FS_AddElement, FS_CardinalityType

LEMMA NoMore ==
  ASSUME NEW S, IsFiniteSet(S), NEW T, T \subseteq S, NEW N \in Nat, Cardinality(S) <= N
  PROVE  IsFiniteSet(T) /\ Cardinality(T) <= N
<1>1. IsFiniteSet(T) /\ Cardinality(T) <= Cardinality(S)
  BY FS_Subset
<1>2. Cardinality(S) \in Nat /\ Cardinality(T) \in Nat
  BY <1>1, FS_CardinalityType
<1> QED BY <1>1, <1>2

LEMMA LimitsStep ==
  ASSUME Sound, [Next]_vars
  PROVE  Limits'
<1>0. /\ IsFiniteSet(accepted) /\ Cardinality(accepted) <= MaxPendingAccepts
      /\ IsFiniteSet(incoming) /\ Cardinality(incoming) <= MaxConnections
      /\ MaxPendingAccepts \in Nat /\ MaxConnections \in Nat
      /\ Cardinality(accepted) \in Nat /\ Cardinality(incoming) \in Nat
  BY FS_CardinalityType, AdapterAssumption, NodeAssumption DEF Sound, Limits
<1>1. \/ accepted' \subseteq accepted
      \/ \E c : accepted' = accepted \cup {c} /\ Cardinality(accepted) < MaxPendingAccepts
  <2>1. CASE AdapterStep
    <3>1. CASE \E c \in Inbound : HandleClient(c)
      BY <1>0, <3>1 DEF HandleClient
    <3>2. CASE ~(\E c \in Inbound : HandleClient(c))
      BY <2>1, <3>2 DEF AdapterStep, ClientArrives, HandleClientRefused, DialStart, DialDone,
                        DialCloses, listening
    <3> QED BY <3>1, <3>2
  <2>2. CASE Bookkeeping \/ Begins \/ StageStep \/ WorkerStep \/ UNCHANGED vars
    BY <2>2, BookkeepingFrame, BeginsFrame, StageFrame, WorkerFrame DEF vars, adapter, listening
  <2>3. CASE JobStep
    BY <2>3 DEF JobStep, CloseListener, CloseConnections, StopDiscovery, StopTransport,
                CloseSockets, CloseListeners, adapter, listening
  <2>4. CASE LoopStep
    BY <2>4 DEF LoopStep, AcceptCancelled, AcceptWaits, AcceptQueued, AcceptWakes, IncomingEnds,
                listening
  <2> QED BY <2>1, <2>2, <2>3, <2>4, StepKinds
<1>2. \/ incoming' \subseteq incoming
      \/ \E c : incoming' = incoming \cup {c} /\ Cardinality(incoming) < MaxConnections
  <2>1. CASE AdapterStep \/ Bookkeeping \/ StageStep \/ JobStep \/ WorkerStep \/ UNCHANGED vars
    BY <2>1, AdapterFrame, BookkeepingFrame, StageFrame, JobFrame, WorkerFrame DEF vars, accepts
  <2>2. CASE Begins
    BY <2>2 DEF Begins, StartBegins, StopBegins, BeginStop, TransportFails, accepts
  <2>3. CASE LoopStep
    BY <1>0, <2>3 DEF LoopStep, AcceptCancelled, AcceptWaits, AcceptQueued, AcceptWakes, Admit,
                      IncomingEnds
  <2> QED BY <2>1, <2>2, <2>3, StepKinds
<1>3. IsFiniteSet(accepted') /\ Cardinality(accepted') <= MaxPendingAccepts
  BY <1>0, <1>1, OneMore, NoMore
<1>4. IsFiniteSet(incoming') /\ Cardinality(incoming') <= MaxConnections
  BY <1>0, <1>2, OneMore, NoMore
<1> QED BY <1>3, <1>4 DEF Limits

-----------------------------------------------------------------------------
(* Connections: whoever stops closes them, and dials of an earlier start stay closed *)

\* What close() of listeners makes of the connections.
LEMMA CloseListenersKnown ==
  ASSUME AdapterTyped, NEW S, CloseListeners(S)
  PROVE  /\ inHand \subseteq inHand' /\ inHand' \subseteq inHand \cup tracked
         /\ tracked \cup inHand \subseteq tracked' \cup inHand'
         /\ \A l \in Listeners : lstate[l] \in {"open", "closed"} => lstate'[l] \in {"open", "closed"}
<1>1. \A l \in Listeners : lstate[l] \in {"open", "closed"} => lstate'[l] \in {"open", "closed"}
  BY DEF AdapterTyped, CloseListeners
<1>2. CASE \E l \in S : lstate[l] = "open"
  BY <1>1, <1>2 DEF CloseListeners
<1>3. CASE ~(\E l \in S : lstate[l] = "open")
  BY <1>1, <1>3 DEF CloseListeners
<1> QED BY <1>2, <1>3

\* A listener that is open stays open until it is closed, and then stays closed.
LEMMA ListenersAge ==
  ASSUME Sound, [Next]_vars
  PROVE  \A l \in Listeners : lstate[l] \in {"open", "closed"} => lstate'[l] \in {"open", "closed"}
<1>0. AdapterTyped
  BY DEF Sound
<1>1. CASE AdapterStep \/ Bookkeeping \/ LoopStep \/ WorkerStep \/ UNCHANGED vars
  BY <1>1, AdapterFrame, BookkeepingFrame, LoopFrame, WorkerFrame DEF vars, adapter, listening
<1>2. CASE Begins
  <2>1. PICK k \in Calls : StartBegins(k) \/ StopBegins(k) \/ TransportFails(k)
    BY <1>2 DEF Begins
  <2>2. CASE StartBegins(k)
    BY <1>0, <2>2, BeginStartEffect DEF StartBegins
  <2>3. CASE StopBegins(k) \/ TransportFails(k)
    BY <2>3 DEF StopBegins, TransportFails, adapter, listening
  <2> QED BY <2>1, <2>2, <2>3
<1>3. CASE StageStep
  <2>1. CASE Bound
    BY <1>0, <2>1 DEF Bound, AdapterTyped
  <2>2. CASE StartsAgain
    BY <1>0, <2>2, BeginStartEffect DEF StartsAgain
  <2>3. CASE ~Bound /\ ~StartsAgain
    BY <1>3, <2>3 DEF StageStep, Rollback, StartDone, Refreshed, RolledBack, CleanedUp, Gathered,
                      StopReturns, adapter, listening
  <2> QED BY <2>1, <2>2, <2>3
<1>4. CASE JobStep
  <2>1. CASE CloseListener \/ CloseSockets
    BY <1>0, <2>1, CloseListenersKnown DEF CloseListener, CloseSockets
  <2>2. CASE CloseConnections \/ StopDiscovery \/ StopTransport
    BY <2>2 DEF CloseConnections, StopDiscovery, StopTransport, adapter, listening
  <2> QED BY <1>4, <2>1, <2>2 DEF JobStep
<1> QED BY <1>1, <1>2, <1>3, <1>4, StepKinds

LEMMA ReachedStep ==
  ASSUME Sound, [Next]_vars
  PROVE  Reached'
<1>0. AdapterTyped /\ Reached /\ Inbound \cap Dials = {}
  BY AdapterAssumption DEF Sound
<1>1. \A l \in Listeners : lstate[l] \in {"open", "closed"} => lstate'[l] \in {"open", "closed"}
  BY ListenersAge
<1>2. CASE \E c \in Inbound : ClientArrives(c)
  <2>1. PICK c \in Inbound : ClientArrives(c)
    BY <1>2
  <2>2. PICK l \in Listening : via' = [via EXCEPT ![c] = l]
    BY <2>1 DEF ClientArrives
  <2>3. l \in Listeners /\ lstate[l] = "open"
    BY <2>2 DEF Listening
  <2>4. via'[c] = l /\ \A x \in Inbound \ {c} : via'[x] = via[x] /\ conn'[x] = conn[x]
    BY <1>0, <2>1, <2>2 DEF ClientArrives, Set, AdapterTyped, Conns
  <2> QED BY <1>0, <1>1, <2>3, <2>4 DEF Reached
<1>3. ASSUME via' = via, \A c \in Inbound : conn'[c] = "setup" => conn[c] = "setup"
      PROVE  Reached'
  BY <1>0, <1>1, <1>3 DEF Reached
<1>4. CASE AdapterStep /\ ~(\E c \in Inbound : ClientArrives(c))
  <2>1. via' = via
    BY <1>4 DEF AdapterStep, HandleClient, HandleClientRefused, DialStart, DialDone,
                DialCloses, listening
  <2>2. \/ \E c \in Inbound : \E v \in {"open", "closed"} : conn' = [conn EXCEPT ![c] = v]
        \/ \E d \in Dials : \E v \in {"setup", "open", "closed"} : conn' = [conn EXCEPT ![d] = v]
    BY <1>4 DEF AdapterStep, HandleClient, HandleClientRefused, DialStart, DialDone, DialCloses, Set
  <2>3. \A c \in Inbound : conn'[c] = "setup" => conn[c] = "setup"
    BY <1>0, <2>2 DEF AdapterTyped, Conns
  <2> QED BY <1>3, <2>1, <2>3
<1>5. CASE Bookkeeping \/ Begins \/ StageStep \/ WorkerStep \/ UNCHANGED vars
  <2>1. via' = via /\ conn' = conn
    BY <1>5, BookkeepingFrame, BeginsFrame, StageFrame, WorkerFrame DEF vars, adapter, listening
  <2> QED BY <1>3, <2>1
<1>6. CASE JobStep
  <2>1. via' = via
    BY <1>6, JobFrame
  <2>2. \A c \in Inbound : conn'[c] = "setup" => conn[c] = "setup"
    BY <1>0, <1>6 DEF JobStep, CloseListener, CloseConnections, StopDiscovery, StopTransport,
                      CloseSockets, CloseHeld, adapter, Conns, AdapterTyped
  <2> QED BY <1>3, <2>1, <2>2
<1>7. CASE LoopStep
  <2>1. via' = via
    BY <1>7, LoopFrame
  <2>2. conn' = conn \/ \E c \in Inbound : conn' = [conn EXCEPT ![c] = "closed"]
    BY <1>7 DEF LoopStep, AcceptCancelled, AcceptWaits, AcceptQueued, AcceptWakes, Admit,
                IncomingEnds, Set
  <2>3. \A c \in Inbound : conn'[c] = "setup" => conn[c] = "setup"
    BY <1>0, <2>2 DEF AdapterTyped, Conns
  <2> QED BY <1>3, <2>1, <2>3
<1> QED BY <1>2, <1>4, <1>5, <1>6, <1>7, StepKinds

LEMMA KnownStep ==
  ASSUME Sound, [Next]_vars
  PROVE  Known'
<1>0. /\ AdapterTyped /\ NodeTyped /\ Locked /\ Reached /\ Known /\ Inbound \cap Dials = {}
      /\ todo = {} => inHand = {}
  BY AdapterAssumption DEF Sound, Known
<1>1. CASE AdapterStep
  <2>1. UNCHANGED <<started, lstate, inHand, todo>> /\ Listening' = Listening
    BY <1>1, AdapterFrame DEF Listening
  <2>2. ASSUME NEW c \in Inbound, HandleClient(c), conn'[c] = "open" PROVE Known'
    <3>1. conn' = [conn EXCEPT ![c] = "open"] \/ conn' = [conn EXCEPT ![c] = "closed"]
      BY <2>2 DEF HandleClient, Set
    <3>2. conn[c] = "setup" /\ conn' = [conn EXCEPT ![c] = "open"]
      BY <1>0, <2>2, <3>1 DEF HandleClient, Conns, AdapterTyped
    <3>3. /\ tracked' = {x \in tracked : IsOpen(x)} \cup {c} /\ lstate[via[c]] # "closed"
          /\ tconns' = tconns
      BY <1>0, <2>2, <3>2 DEF HandleClient, Set, Conns, AdapterTyped, dialling
    <3>4. Listening # {}
      BY <1>0, <3>2, <3>3 DEF Reached, Listening
    <3>5. \A x \in Conns \ {c} : conn'[x] = conn[x]
      BY <1>0, <3>2 DEF AdapterTyped
    <3>6. \A x \in Inbound : conn'[x] = "open" => x \in tracked' \cup inHand'
      BY <1>0, <2>1, <3>3, <3>5 DEF Known, IsOpen, Conns
    <3>7. \A d \in Dials : conn'[d] = "open" => d \in tconns' \cup inHand'
      BY <1>0, <2>1, <3>3, <3>5 DEF Known, IsOpen, Conns
    <3> QED BY <1>0, <2>1, <3>3, <3>4, <3>6, <3>7 DEF Known, IsOpen
  <2>3. ASSUME NEW d \in Dials, DialDone(d), conn'[d] = "open" PROVE Known'
    <3>1. conn' = [conn EXCEPT ![d] = "open"] \/ conn' = [conn EXCEPT ![d] = "closed"]
      BY <2>3 DEF DialDone, Set
    <3>2. conn' = [conn EXCEPT ![d] = "open"]
      BY <1>0, <2>3, <3>1 DEF Conns, AdapterTyped
    <3>3. started /\ tconns' = {x \in tconns : IsOpen(x)} \cup {d} /\ tracked' = tracked
      BY <1>0, <2>3, <3>2 DEF DialDone, Set, Conns, AdapterTyped, listening
    <3>4. \A x \in Conns \ {d} : conn'[x] = conn[x]
      BY <1>0, <3>2 DEF AdapterTyped
    <3>5. \A x \in Inbound : conn'[x] = "open" => x \in tracked' \cup inHand'
      BY <1>0, <2>1, <3>3, <3>4 DEF Known, IsOpen, Conns
    <3>6. \A x \in Dials : conn'[x] = "open" => x \in tconns' \cup inHand'
      BY <1>0, <2>1, <3>3, <3>4 DEF Known, IsOpen, Conns
    <3> QED BY <1>0, <2>1, <3>3, <3>5, <3>6 DEF Known, IsOpen
  <2>4. ASSUME NEW x \in Conns, NEW v \in {"setup", "closed"}, conn' = [conn EXCEPT ![x] = v],
               UNCHANGED <<tracked, tconns>>
        PROVE  Known'
    <3>1. \A y \in Conns : conn'[y] = "open" => conn[y] = "open"
      BY <1>0, <2>4 DEF AdapterTyped
    <3> QED BY <1>0, <2>1, <2>4, <3>1 DEF Known, IsOpen, Conns
  <2>5. ASSUME NEW c \in Inbound, HandleClient(c), conn'[c] # "open" PROVE Known'
    <3>1. conn' = [conn EXCEPT ![c] = "closed"] /\ UNCHANGED <<tracked, tconns>>
      BY <1>0, <2>5 DEF HandleClient, Set, Conns, AdapterTyped, dialling
    <3> QED BY <2>4, <3>1 DEF Conns
  <2>6. ASSUME NEW d \in Dials, DialDone(d), conn'[d] # "open" PROVE Known'
    <3>1. conn' = [conn EXCEPT ![d] = "closed"] /\ UNCHANGED <<tracked, tconns>>
      BY <1>0, <2>6 DEF DialDone, Set, Conns, AdapterTyped, listening
    <3> QED BY <2>4, <3>1 DEF Conns
  <2>7. ASSUME NEW c \in Inbound, ClientArrives(c) \/ HandleClientRefused(c) PROVE Known'
    <3>1. /\ \E v \in {"setup", "closed"} : conn' = [conn EXCEPT ![c] = v]
          /\ UNCHANGED <<tracked, tconns>>
      BY <2>7 DEF ClientArrives, HandleClientRefused, Set, listening, dialling
    <3> QED BY <2>4, <3>1 DEF Conns
  <2>8. ASSUME NEW d \in Dials, DialStart(d) \/ DialCloses(d) PROVE Known'
    <3>1. /\ \E v \in {"setup", "closed"} : conn' = [conn EXCEPT ![d] = v]
          /\ UNCHANGED <<tracked, tconns>>
      BY <2>8 DEF DialStart, DialCloses, Set, listening, dialling
    <3> QED BY <2>4, <3>1 DEF Conns
  <2> QED BY <1>1, <2>2, <2>3, <2>5, <2>6, <2>7, <2>8 DEF AdapterStep
<1>2. CASE Bookkeeping \/ WorkerStep \/ UNCHANGED vars
  <2>1. UNCHANGED <<started, lstate, conn, tracked, tconns, inHand, todo>>
    BY <1>2, BookkeepingFrame, WorkerFrame DEF vars, adapter, listening, dialling, lifecycle
  <2> QED BY <1>0, <2>1 DEF Known, IsOpen, Listening
<1>3. CASE Begins
  <2>1. UNCHANGED <<conn, tracked, tconns>>
    BY <1>3, BeginsFrame
  <2>2. PICK k \in Calls : StartBegins(k) \/ StopBegins(k) \/ TransportFails(k)
    BY <1>3 DEF Begins
  <2>3. CASE StartBegins(k)
    <3>1. started' = TRUE /\ Listening' = Listening /\ UNCHANGED <<todo, inHand>>
      BY <1>0, <2>3, BeginStartEffect DEF StartBegins
    <3> QED BY <1>0, <2>1, <3>1 DEF Known, IsOpen
  <2>4. CASE StopBegins(k)
    <3>1. /\ inHand \subseteq inHand' /\ "held" \in todo' /\ started' = started
          /\ Listening' = Listening
      BY <2>4 DEF StopBegins, BeginStop, Listening
    <3> QED BY <1>0, <2>1, <3>1 DEF Known, IsOpen
  <2>5. CASE TransportFails(k)
    <3>1. UNCHANGED <<started, lstate, inHand>> /\ todo = {}
      BY <1>0, <2>5 DEF TransportFails, adapter, listening, Locked
    <3> QED BY <1>0, <2>1, <3>1 DEF Known, IsOpen, Listening
  <2> QED BY <2>2, <2>3, <2>4, <2>5
<1>4. CASE StageStep
  <2>1. UNCHANGED <<conn, tracked, tconns, inHand>>
    BY <1>4, StageFrame
  <2>2. todo = {}
    BY <1>0, <1>4 DEF StageStep, Bound, Rollback, StartDone, Refreshed, RolledBack, CleanedUp,
                      Gathered, StopReturns, StartsAgain, Locked
  <2>3. started => started'
    BY <1>0, <1>4, BeginStartEffect
       DEF StageStep, Bound, Rollback, StartDone, Refreshed, RolledBack, CleanedUp, Gathered,
           StopReturns, StartsAgain, adapter
  <2>4. Listening \subseteq Listening'
    <3>1. CASE Bound
      BY <1>0, <3>1 DEF Bound, Listening, AdapterTyped
    <3>2. CASE StartsAgain
      BY <1>0, <3>2, BeginStartEffect DEF StartsAgain
    <3>3. CASE ~Bound /\ ~StartsAgain
      BY <1>4, <3>3 DEF StageStep, Rollback, StartDone, Refreshed, RolledBack, CleanedUp, Gathered,
                        StopReturns, adapter, listening, Listening
    <3> QED BY <3>1, <3>2, <3>3
  <2> QED BY <1>0, <2>1, <2>2, <2>3, <2>4 DEF Known, IsOpen
<1>5. CASE JobStep
  <2>1. CASE CloseListener \/ CloseSockets
    <3>1. UNCHANGED <<started, conn, tconns>> /\ "held" \in todo'
      BY <2>1 DEF CloseListener, CloseSockets, Finish, dialling
    <3>2. PICK S : CloseListeners(S)
      BY <2>1 DEF CloseListener, CloseSockets
    <3>3. inHand \subseteq inHand' /\ tracked \cup inHand \subseteq tracked' \cup inHand'
      BY <1>0, <3>2, CloseListenersKnown
    <3>4. Listening' = {} => tracked' = {}
      BY <1>0, <3>2, CloseListenersEffect DEF Known
    <3> QED BY <1>0, <3>1, <3>3, <3>4 DEF Known, IsOpen
  <2>2. CASE CloseConnections
    <3>1. UNCHANGED <<started, lstate, tracked, tconns>> /\ inHand' = {}
      BY <2>2 DEF CloseConnections, CloseHeld, listening, dialling
    <3>2. \A x \in Conns : conn'[x] = "open" => conn[x] = "open" /\ x \notin inHand
      BY <2>2 DEF CloseConnections, CloseHeld, IsOpen
    <3> QED BY <1>0, <3>1, <3>2 DEF Known, IsOpen, Conns, Listening
  <2>3. CASE StopDiscovery
    <3>1. /\ UNCHANGED <<started, lstate, conn, tracked, tconns, inHand>>
          /\ todo' = todo \ {"discovery"}
      BY <2>3 DEF StopDiscovery, Finish, adapter, listening, dialling
    <3> QED BY <1>0, <3>1 DEF Known, IsOpen, Listening
  <2>4. CASE StopTransport
    <3>1. /\ UNCHANGED <<conn, lstate, tracked>> /\ inHand' = inHand \cup tconns
          /\ tconns' = {} /\ "sockets" \in todo'
      BY <2>4 DEF StopTransport, TransportStop, Finish, listening
    <3> QED BY <1>0, <3>1 DEF Known, IsOpen, Listening
  <2> QED BY <1>5, <2>1, <2>2, <2>3, <2>4 DEF JobStep
<1>6. CASE LoopStep
  <2>1. UNCHANGED <<started, lstate, tracked, tconns, inHand, todo>>
    BY <1>6, LoopFrame
  <2>2. conn' = conn \/ \E c \in Inbound : conn' = [conn EXCEPT ![c] = "closed"]
    BY <1>6 DEF LoopStep, AcceptCancelled, AcceptWaits, AcceptQueued, AcceptWakes, Admit,
                IncomingEnds, Set
  <2>3. \A x \in Conns : conn'[x] = "open" => conn[x] = "open"
    BY <1>0, <2>2 DEF AdapterTyped, Conns
  <2> QED BY <1>0, <2>1, <2>3 DEF Known, IsOpen, Conns, Listening
<1> QED BY <1>1, <1>2, <1>3, <1>4, <1>5, <1>6, StepKinds

LEMMA DialsCurrentStep ==
  ASSUME Sound, [Next]_vars
  PROVE  DialsCurrent'
<1>0. /\ AdapterTyped /\ Locked /\ ServicesUp /\ Known /\ DialsCurrent /\ Inbound \cap Dials = {}
  BY AdapterAssumption DEF Sound
<1>1. ASSUME UNCHANGED <<started, tgen, dgen>>, inHand \subseteq inHand',
             \A d \in Dials : conn'[d] = "open" => conn[d] = "open"
      PROVE  DialsCurrent'
  BY <1>0, <1>1 DEF DialsCurrent, IsOpen
<1>2. ASSUME UNCHANGED <<conn, inHand>>, ~started PROVE DialsCurrent'
  BY <1>0, <1>2 DEF DialsCurrent, IsOpen
<1>3. CASE AdapterStep
  <2>1. UNCHANGED <<started, tgen, inHand>>
    BY <1>3, AdapterFrame
  <2>2. ASSUME NEW c \in Inbound, ClientArrives(c) \/ HandleClient(c) \/ HandleClientRefused(c)
        PROVE  DialsCurrent'
    <3>1. dgen' = dgen /\ \E v : conn' = [conn EXCEPT ![c] = v]
      BY <2>2 DEF ClientArrives, HandleClient, HandleClientRefused, Set, dialling
    <3>2. \A d \in Dials : conn'[d] = conn[d]
      BY <1>0, <3>1 DEF AdapterTyped, Conns
    <3> QED BY <1>1, <2>1, <3>1, <3>2
  <2>3. ASSUME NEW d \in Dials, DialStart(d) \/ DialDone(d) \/ DialCloses(d) PROVE DialsCurrent'
    <3>1. CASE DialStart(d)
      <4>1. /\ \A x \in Dials \ {d} : conn'[x] = conn[x] /\ dgen'[x] = dgen[x]
            /\ conn'[d] = "setup"
        BY <1>0, <3>1 DEF DialStart, Set, AdapterTyped, Conns
      <4> QED BY <1>0, <2>1, <4>1 DEF DialsCurrent, IsOpen
    <3>2. CASE DialDone(d)
      <4>1. dgen' = dgen /\ \A x \in Dials \ {d} : conn'[x] = conn[x]
        BY <1>0, <3>2 DEF DialDone, Set, AdapterTyped, Conns
      <4>2. conn'[d] = "open" => started /\ dgen[d] = tgen
        BY <1>0, <3>2 DEF DialDone, Set, AdapterTyped, Conns
      <4> QED BY <1>0, <2>1, <4>1, <4>2 DEF DialsCurrent, IsOpen
    <3>3. CASE DialCloses(d)
      <4>1. dgen' = dgen /\ \A x \in Dials : conn'[x] = "open" => conn[x] = "open"
        BY <1>0, <3>3 DEF DialCloses, Set, AdapterTyped, Conns, dialling
      <4> QED BY <1>1, <2>1, <4>1
    <3> QED BY <2>3, <3>1, <3>2, <3>3
  <2> QED BY <1>3, <2>2, <2>3 DEF AdapterStep
<1>4. CASE Bookkeeping \/ WorkerStep \/ UNCHANGED vars
  <2>1. UNCHANGED <<started, tgen, conn, dgen, inHand>>
    BY <1>4, BookkeepingFrame, WorkerFrame DEF vars, adapter, dialling
  <2> QED BY <1>1, <2>1
<1>5. CASE Begins
  <2>1. PICK k \in Calls : StartBegins(k) \/ StopBegins(k) \/ TransportFails(k)
    BY <1>5 DEF Begins
  <2>2. CASE StartBegins(k)
    <3>1. UNCHANGED <<conn, inHand>> /\ ~started
      BY <1>0, <2>2 DEF StartBegins, Locked, ServicesUp, AtRest
    <3> QED BY <1>2, <3>1
  <2>3. CASE StopBegins(k) \/ TransportFails(k)
    <3>1. UNCHANGED <<started, tgen, conn, dgen>> /\ inHand \subseteq inHand'
      BY <2>3 DEF StopBegins, BeginStop, TransportFails, adapter, dialling
    <3> QED BY <1>1, <3>1
  <2> QED BY <2>1, <2>2, <2>3
<1>6. CASE StageStep
  <2>1. UNCHANGED <<conn, dgen, inHand>>
    BY <1>6, StageFrame
  <2>2. CASE StartsAgain
    <3>1. ~started
      BY <1>0, <2>2 DEF StartsAgain, ServicesUp
    <3> QED BY <1>2, <2>1, <3>1
  <2>3. CASE ~StartsAgain
    <3>1. UNCHANGED <<started, tgen>>
      BY <1>6, <2>3 DEF StageStep, Bound, Rollback, StartDone, Refreshed, RolledBack, CleanedUp,
                        Gathered, StopReturns, adapter
    <3> QED BY <1>1, <2>1, <3>1
  <2> QED BY <2>2, <2>3
<1>7. CASE JobStep
  <2>1. CASE CloseListener \/ CloseSockets
    <3>1. UNCHANGED <<started, tgen, conn, dgen>> /\ \E S : CloseListeners(S)
      BY <2>1 DEF CloseListener, CloseSockets, dialling
    <3>2. inHand \subseteq inHand'
      BY <1>0, <3>1, CloseListenersKnown
    <3> QED BY <1>1, <3>1, <3>2
  <2>2. CASE CloseConnections
    <3>1. UNCHANGED <<started, tgen, dgen>> /\ inHand' = {}
      BY <2>2 DEF CloseConnections, CloseHeld, dialling
    <3>2. \A d \in Dials : conn'[d] = "open" => conn[d] = "open" /\ d \notin inHand
      BY <2>2 DEF CloseConnections, CloseHeld, IsOpen, Conns
    <3> QED BY <1>0, <3>1, <3>2 DEF DialsCurrent, IsOpen
  <2>3. CASE StopDiscovery
    <3>1. UNCHANGED <<started, tgen, conn, dgen, inHand>>
      BY <2>3 DEF StopDiscovery, adapter, dialling
    <3> QED BY <1>1, <3>1
  <2>4. CASE StopTransport
    <3>1. conn' = conn /\ inHand' = inHand \cup tconns
      BY <2>4 DEF StopTransport, TransportStop
    <3> QED BY <1>0, <3>1 DEF DialsCurrent, Known, IsOpen
  <2> QED BY <1>7, <2>1, <2>2, <2>3, <2>4 DEF JobStep
<1>8. CASE LoopStep
  <2>1. UNCHANGED <<started, tgen, dgen, inHand>>
    BY <1>8, LoopFrame
  <2>2. conn' = conn \/ \E c \in Inbound : conn' = [conn EXCEPT ![c] = "closed"]
    BY <1>8 DEF LoopStep, AcceptCancelled, AcceptWaits, AcceptQueued, AcceptWakes, Admit,
                IncomingEnds, Set
  <2>3. \A d \in Dials : conn'[d] = conn[d]
    BY <1>0, <2>2 DEF AdapterTyped, Conns
  <2> QED BY <1>1, <2>1, <2>3
<1> QED BY <1>3, <1>4, <1>5, <1>6, <1>7, <1>8, StepKinds

-----------------------------------------------------------------------------
(* Tasks and workers *)

LEMMA TasksCancelledStep ==
  ASSUME Sound, [Next]_vars
  PROVE  TasksCancelled'
<1>0. /\ NodeTyped /\ Locked /\ TasksCancelled /\ WorkersSound /\ WorkersExact
      /\ Inbound \cap Workers = {} /\ Loop \notin Inbound /\ Loop \notin Workers
  BY NodeAssumption DEF Sound
<1>1. running => cancelling = {}
  BY <1>0 DEF Locked
<1>2. CASE AdapterStep \/ Bookkeeping \/ JobStep \/ UNCHANGED vars
  <2>1. UNCHANGED <<running, tasks, accepting, cancelling, worker>>
    BY <1>2, AdapterFrame, BookkeepingFrame, JobFrame DEF vars, lifecycle, accepts, pool
  <2> QED BY <1>0, <2>1 DEF TasksCancelled
<1>3. CASE Begins
  <2>1. UNCHANGED <<tasks, accepting, worker>>
    BY <1>3, BeginsFrame
  <2>2. PICK k \in Calls : StartBegins(k) \/ StopBegins(k) \/ TransportFails(k)
    BY <1>3 DEF Begins
  <2>3. CASE StartBegins(k) \/ TransportFails(k)
    <3>1. UNCHANGED <<running, cancelling>>
      BY <2>3 DEF StartBegins, TransportFails
    <3> QED BY <1>0, <2>1, <3>1 DEF TasksCancelled
  <2>4. CASE StopBegins(k)
    <3>1. /\ running' = FALSE /\ call[k] = "waiting"
          /\ cancelling' = tasks \cup {w \in Workers : Current(w) /\ w # caller[k]}
                                 \cup (IF accepting = "none" THEN {} ELSE {Loop})
      BY <2>4 DEF StopBegins, BeginStop
    <3>2. ASSUME NEW w \in Workers, worker[w] = "idle" PROVE Current(w) /\ w # caller[k]
      <4>1. Current(w)
        BY <1>0, <3>2 DEF WorkersExact, Current, Alive
      <4>2. w = caller[k] => k \in InCall(w)
        BY <3>1 DEF InCall
      <4> QED BY <1>0, <3>2, <4>1, <4>2 DEF WorkersSound
    <3> QED BY <2>1, <3>1, <3>2 DEF TasksCancelled
  <2> QED BY <2>2, <2>3, <2>4
<1>4. CASE StageStep
  <2>1. CASE StartDone
    BY <2>1 DEF StartDone, TasksCancelled
  <2>2. CASE ~StartDone
    <3>1. UNCHANGED <<running, tasks, accepting, cancelling, worker>>
      BY <1>4, <2>2 DEF StageStep, Bound, Rollback, Refreshed, RolledBack, CleanedUp, Gathered,
                        StopReturns, StartsAgain, accepts, pool
    <3> QED BY <1>0, <3>1 DEF TasksCancelled
  <2> QED BY <2>1, <2>2
<1>5. CASE LoopStep
  <2>1. UNCHANGED <<running, worker>>
    BY <1>5, LoopFrame
  <2>2. CASE AcceptCancelled
    <3>1. /\ ~running /\ tasks' = tasks /\ accepting' = "none"
          /\ cancelling' = cancelling \ {Loop}
      BY <1>1, <2>2 DEF AcceptCancelled
    <3> QED BY <1>0, <2>1, <3>1 DEF TasksCancelled, NodeTyped
  <2>3. CASE AcceptWaits \/ \E c \in Inbound : AcceptQueued(c) \/ AcceptWakes(c)
    <3>1. accepting # "none" /\ Loop \notin cancelling /\ accepting' # "none"
      BY <2>3 DEF AcceptWaits, AcceptQueued, AcceptWakes, Admit
    <3>2. running
      BY <1>0, <3>1 DEF TasksCancelled, NodeTyped
    <3> QED BY <2>1, <3>1, <3>2 DEF TasksCancelled
  <2>4. CASE \E c \in Inbound : IncomingEnds(c)
    <3>1. PICK c \in Inbound : /\ tasks' = tasks \ {c} /\ cancelling' = cancelling \ {c}
                               /\ accepting' = accepting
      BY <2>4 DEF IncomingEnds
    <3>2. c \notin Workers /\ c # Loop
      BY <1>0
    <3> QED BY <1>0, <2>1, <3>1, <3>2 DEF TasksCancelled
  <2> QED BY <1>5, <2>2, <2>3, <2>4 DEF LoopStep
<1>6. CASE WorkerStep
  <2>1. UNCHANGED <<running, tasks, accepting>>
    BY <1>6, WorkerFrame
  <2>2. PICK w \in Workers : HandlerRuns(w) \/ HandlerReturns(w) \/ WorkerDies(w) \/ WorkerCancelled(w)
    BY <1>6 DEF WorkerStep
  <2>3. CASE WorkerCancelled(w)
    <3>1. cancelling' = cancelling \ {w} /\ w \notin Inbound /\ w # Loop /\ w \in cancelling
      BY <1>0, <2>3 DEF WorkerCancelled
    <3>2. worker'[w] = "ended" /\ \A x \in Workers \ {w} : worker'[x] = worker[x]
      BY <1>0, <2>3 DEF WorkerCancelled, NodeTyped
    <3> QED BY <1>0, <1>1, <2>1, <3>1, <3>2 DEF TasksCancelled, NodeTyped
  <2>4. CASE ~WorkerCancelled(w)
    <3>1. cancelling' = cancelling
      BY <2>2, <2>4 DEF HandlerRuns, HandlerReturns, WorkerDies
    <3>2. ~running => \A x \in Workers : worker'[x] = "idle" => worker[x] = "idle"
      BY <1>0, <2>2, <2>4 DEF HandlerRuns, HandlerReturns, WorkerDies, NodeTyped
    <3> QED BY <1>0, <2>1, <3>1, <3>2 DEF TasksCancelled
  <2> QED BY <2>3, <2>4
<1> QED BY <1>2, <1>3, <1>4, <1>5, <1>6, StepKinds

\* N of at least N elements can be chosen.
LEMMA SubsetOfSize ==
  ASSUME NEW S, IsFiniteSet(S), NEW N \in Nat, Cardinality(S) >= N
  PROVE  \E T \in SUBSET S : Cardinality(T) = N
<1>1. PICK f : f \in Bijection(1..Cardinality(S), S)
  BY FS_CardinalityType DEF ExistsBijection
<1>2. Cardinality(S) \in Nat
  BY FS_CardinalityType
<1> DEFINE T == {f[i] : i \in 1..N}
           g == [i \in 1..N |-> f[i]]
<1>3. \A i \in 1..N : i \in 1..Cardinality(S)
  BY <1>2
<1>4. f \in [1..Cardinality(S) -> S]
      /\ \A i, j \in 1..Cardinality(S) : f[i] = f[j] => i = j
  BY <1>1 DEF Bijection, Injection, IsInjective
<1>5. T \subseteq S
  BY <1>3, <1>4
<1>6. g \in Bijection(1..N, T)
  BY <1>3, <1>4 DEF Bijection, Injection, Surjection, IsInjective
<1>7. IsFiniteSet(1..N) /\ Cardinality(1..N) = N
  BY FS_Interval
<1>8. Cardinality(T) = N
  <2>1. ExistsBijection(1..N, T)
    BY <1>6 DEF ExistsBijection
  <2> HIDE DEF T
  <2> QED BY <1>7, <2>1, FS_Bijection
<1> QED BY <1>5, <1>8

\* The workers a start brings up: N new ones, idle in the new generation.
LEMMA StartWorkersEffect ==
  ASSUME NodeTyped, NEW g, NEW N \in Nat, StartWorkers(g, N)
  PROVE  \E S \in SUBSET Workers :
           /\ Cardinality(S) = N /\ \A w \in S : worker[w] = "new"
           /\ \A w \in S : worker'[w] = "idle" /\ wgen'[w] = g
           /\ \A w \in Workers \ S : worker'[w] = worker[w] /\ wgen'[w] = wgen[w]
<1> DEFINE new == {w \in Workers : worker[w] = "new"}
           S   == CHOOSE T \in SUBSET new : Cardinality(T) = N
<1>1. Cardinality(new) >= N
  BY DEF StartWorkers
<1>2. IsFiniteSet(new)
  BY NodeAssumption, FS_Subset
<1>3. S \in SUBSET new /\ Cardinality(S) = N
  <2> HIDE DEF new
  <2>1. \E T \in SUBSET new : Cardinality(T) = N
    BY <1>1, <1>2, SubsetOfSize
  <2> QED BY <2>1
<1>4. /\ worker' = [w \in Workers |-> IF w \in S THEN "idle" ELSE worker[w]]
      /\ wgen' = [w \in Workers |-> IF w \in S THEN g ELSE wgen[w]]
  BY DEF StartWorkers
<1> HIDE DEF S
<1> QED BY <1>3, <1>4

LEMMA WorkersSoundStep ==
  ASSUME Sound, [Next]_vars
  PROVE  WorkersSound'
<1>0. NodeTyped /\ Locked /\ WorkersSound
  BY DEF Sound
<1>1. CASE AdapterStep \/ JobStep \/ LoopStep \/ UNCHANGED vars
  <2>1. UNCHANGED <<generation, call, caller, worker, wgen>>
    BY <1>1, AdapterFrame, JobFrame, LoopFrame DEF vars, lifecycle, calls, pool
  <2> QED BY <1>0, <2>1 DEF WorkersSound, InCall
<1>2. CASE Bookkeeping
  <2>1. UNCHANGED <<generation, worker, wgen>>
    BY <1>2, BookkeepingFrame
  <2>2. CASE \E k \in Calls : CallFromHost(k) \/ StartCancelledWaiting(k) \/ Returns(k)
    <3>1. PICK k \in Calls : /\ caller' = caller /\ call[k] # "done"
                             /\ \E v : call' = [call EXCEPT ![k] = v]
      BY <2>2 DEF CallFromHost, StartCancelledWaiting, Returns
    <3>2. \A j \in Calls : call'[j] # "done" => call[j] # "done"
      BY <1>0, <3>1 DEF NodeTyped
    <3>3. \A w \in Workers : InCall(w)' \subseteq InCall(w)
      BY <3>1, <3>2 DEF InCall
    <3> QED BY <1>0, <2>1, <3>3 DEF WorkersSound
  <2>3. CASE \E w \in Workers, k \in Calls : CallFromHandler(w, k)
    <3>1. PICK v \in Workers, k \in Calls : CallFromHandler(v, k)
      BY <2>3
    <3>2. /\ worker[v] = "busy" /\ caller'[k] = v
          /\ \A j \in Calls \ {k} : caller'[j] = caller[j] /\ call'[j] = call[j]
      BY <1>0, <3>1 DEF CallFromHandler, NodeTyped
    <3>3. \A w \in Workers \ {v} : InCall(w)' \subseteq InCall(w)
      BY <3>2 DEF InCall
    <3> QED BY <1>0, <2>1, <3>2, <3>3 DEF WorkersSound
  <2> QED BY <1>2, <2>2, <2>3 DEF Bookkeeping
<1>3. CASE Begins
  <2>1. UNCHANGED <<generation, caller, worker, wgen>>
    BY <1>3, BeginsFrame
  <2>2. PICK k \in Calls : call' = [call EXCEPT ![k] = "holding"] /\ call[k] # "done"
    BY <1>0, <1>3 DEF Begins, StartBegins, StopBegins, TransportFails, Locked
  <2>3. \A j \in Calls : call'[j] # "done" => call[j] # "done"
    BY <1>0, <2>2 DEF NodeTyped
  <2>4. \A w \in Workers : InCall(w)' \subseteq InCall(w)
    BY <2>1, <2>3 DEF InCall
  <2> QED BY <1>0, <2>1, <2>4 DEF WorkersSound
<1>4. CASE StageStep
  <2>1. caller' = caller
    BY <1>4, StageFrame
  <2>2. call' = call \/ call' = [call EXCEPT ![holder] = "done"]
    BY <1>4 DEF StageStep, Bound, Rollback, StartDone, Refreshed, RolledBack, CleanedUp, Gathered,
                StopReturns, StartsAgain, Done, calls
  <2>3. \A j \in Calls : call'[j] # "done" => call[j] # "done"
    BY <1>0, <2>2 DEF NodeTyped
  <2>4. \A w \in Workers : InCall(w)' \subseteq InCall(w)
    BY <2>1, <2>3 DEF InCall
  <2>5. CASE StartDone
    <3>1. generation' = generation + 1 /\ StartWorkers(generation + 1, HandlerConcurrency)
      BY <2>5 DEF StartDone
    <3>2. PICK S \in SUBSET Workers :
            /\ Cardinality(S) = HandlerConcurrency /\ \A w \in S : worker[w] = "new"
            /\ \A w \in S : worker'[w] = "idle" /\ wgen'[w] = generation + 1
            /\ \A w \in Workers \ S : worker'[w] = worker[w] /\ wgen'[w] = wgen[w]
      BY <1>0, <3>1, StartWorkersEffect, NodeAssumption
    <3>3. \A w \in Workers : wgen[w] \in Nat /\ wgen[w] <= generation /\ generation \in Nat
      BY <1>0 DEF WorkersSound, NodeTyped
    <3>4. \A w \in Workers : wgen'[w] <= generation'
      BY <3>1, <3>2, <3>3
    <3>5. \A w \in Workers : worker[w] = "busy" => worker'[w] = "busy"
      BY <3>2
    <3> QED BY <1>0, <2>4, <3>4, <3>5 DEF WorkersSound
  <2>6. CASE ~StartDone
    <3>1. UNCHANGED <<generation, worker, wgen>>
      BY <1>4, <2>6 DEF StageStep, Bound, Rollback, Refreshed, RolledBack, CleanedUp, Gathered,
                        StopReturns, StartsAgain, pool
    <3> QED BY <1>0, <2>4, <3>1 DEF WorkersSound
  <2> QED BY <2>5, <2>6
<1>5. CASE WorkerStep
  <2>1. UNCHANGED <<generation, call, caller>> /\ \A w \in Workers : InCall(w)' = InCall(w)
    BY <1>5, WorkerFrame DEF InCall
  <2>2. PICK w \in Workers : HandlerRuns(w) \/ HandlerReturns(w) \/ WorkerDies(w) \/ WorkerCancelled(w)
    BY <1>5 DEF WorkerStep
  <2>3. \A x \in Workers : wgen'[x] = wgen[x] \/ wgen'[x] = generation
    BY <1>0, <2>2 DEF HandlerRuns, HandlerReturns, WorkerDies, WorkerCancelled, NodeTyped
  <2>4. \A x \in Workers : wgen'[x] <= generation
    <3>1. generation \in Nat /\ \A x \in Workers : wgen[x] <= generation
      BY <1>0 DEF NodeTyped, WorkersSound
    <3> QED BY <2>3, <3>1
  <2>5. \A x \in Workers : worker[x] = "busy" /\ InCall(x) # {} => worker'[x] = "busy"
    BY <1>0, <2>2 DEF HandlerRuns, HandlerReturns, WorkerDies, WorkerCancelled, NodeTyped
  <2> QED BY <1>0, <2>1, <2>4, <2>5 DEF WorkersSound
<1> QED BY <1>1, <1>2, <1>3, <1>4, <1>5, StepKinds

LEMMA WorkersExactStep ==
  ASSUME Sound, [Next]_vars
  PROVE  WorkersExact'
<1>0. NodeTyped /\ Locked /\ TasksCancelled /\ WorkersSound /\ WorkersExact
  BY DEF Sound
<1> DEFINE Ours == {w \in Workers : Current(w)}
<1>1. ASSUME running' => running, UNCHANGED <<generation, worker, wgen>> PROVE WorkersExact'
  <2>1. Ours' = Ours
    BY <1>1 DEF Current, Alive
  <2> QED BY <1>0, <1>1, <2>1 DEF WorkersExact
<1>2. CASE AdapterStep \/ Bookkeeping \/ JobStep \/ LoopStep \/ UNCHANGED vars
  <2>1. UNCHANGED <<running, generation, worker, wgen>>
    BY <1>2, AdapterFrame, BookkeepingFrame, JobFrame, LoopFrame DEF vars, lifecycle, pool
  <2> QED BY <1>1, <2>1
<1>3. CASE Begins
  <2>1. UNCHANGED <<generation, worker, wgen>>
    BY <1>3, BeginsFrame
  <2>2. running' => running
    BY <1>3 DEF Begins, StartBegins, StopBegins, BeginStop, TransportFails
  <2> QED BY <1>1, <2>1, <2>2
<1>4. CASE StageStep
  <2>1. CASE StartDone
    <3>1. /\ generation' = generation + 1 /\ StartWorkers(generation + 1, HandlerConcurrency)
          /\ stage = "announce"
      BY <2>1 DEF StartDone
    <3>2. PICK S \in SUBSET Workers :
            /\ Cardinality(S) = HandlerConcurrency
            /\ \A w \in S : worker'[w] = "idle" /\ wgen'[w] = generation + 1
            /\ \A w \in Workers \ S : worker'[w] = worker[w] /\ wgen'[w] = wgen[w]
      BY <1>0, <3>1, StartWorkersEffect, NodeAssumption
    <3>3. \A w \in Workers : worker[w] # "idle"
      BY <1>0, <3>1 DEF Locked, TasksCancelled, NodeTyped
    <3>4. \A w \in Workers : wgen[w] # generation + 1
      <4>1. generation \in Nat /\ \A w \in Workers : wgen[w] \in Nat /\ wgen[w] <= generation
        BY <1>0 DEF NodeTyped, WorkersSound
      <4> QED BY <4>1
    <3>5. \A w \in Workers : Current(w)' <=> w \in S
      BY <3>1, <3>2, <3>4 DEF Current, Alive
    <3>6. Ours' = S
      BY <3>5
    <3>7. \A w \in Workers : worker'[w] = "idle" => wgen'[w] = generation'
      BY <3>1, <3>2, <3>3
    <3> QED BY <3>2, <3>6, <3>7 DEF WorkersExact
  <2>2. CASE ~StartDone
    <3>1. UNCHANGED <<running, generation, worker, wgen>>
      BY <1>4, <2>2 DEF StageStep, Bound, Rollback, Refreshed, RolledBack, CleanedUp, Gathered,
                        StopReturns, StartsAgain, pool
    <3> QED BY <1>1, <3>1
  <2> QED BY <2>1, <2>2
<1>5. CASE WorkerStep
  <2>1. UNCHANGED <<running, generation>>
    BY <1>5, WorkerFrame
  <2>2. PICK w \in Workers : HandlerRuns(w) \/ HandlerReturns(w) \/ WorkerDies(w) \/ WorkerCancelled(w)
    BY <1>5 DEF WorkerStep
  <2>3. ASSUME running => \A x \in Workers : Current(x)' <=> Current(x),
               \A x \in Workers : worker'[x] = "idle" => wgen'[x] = generation
        PROVE  WorkersExact'
    <3>1. running => Ours' = Ours
      BY <2>3
    <3> QED BY <1>0, <2>1, <2>3, <3>1 DEF WorkersExact
  <2>4. CASE HandlerRuns(w)
    <3>1. /\ worker[w] = "idle" /\ worker'[w] = "busy" /\ wgen' = wgen
          /\ \A x \in Workers \ {w} : worker'[x] = worker[x]
      BY <1>0, <2>4 DEF HandlerRuns, NodeTyped
    <3> QED BY <1>0, <2>1, <2>3, <3>1 DEF Current, Alive, WorkersExact
  <2>5. CASE HandlerReturns(w)
    <3>1. /\ worker[w] = "busy" /\ wgen' = wgen
          /\ worker'[w] = IF running /\ wgen[w] = generation THEN "idle" ELSE "ended"
          /\ \A x \in Workers \ {w} : worker'[x] = worker[x]
      BY <1>0, <2>5 DEF HandlerReturns, NodeTyped
    <3> QED BY <1>0, <2>1, <2>3, <3>1 DEF Current, Alive, WorkersExact
  <2>6. CASE WorkerCancelled(w)
    <3>1. ~running
      BY <1>0, <2>6 DEF WorkerCancelled, Locked
    <3>2. /\ worker'[w] = "ended" /\ wgen' = wgen
          /\ \A x \in Workers \ {w} : worker'[x] = worker[x]
      BY <1>0, <2>6 DEF WorkerCancelled, NodeTyped
    <3> QED BY <1>0, <2>1, <2>3, <3>1, <3>2 DEF WorkersExact
  <2>7. CASE WorkerDies(w) /\ ~(running /\ wgen[w] = generation)
    <3>1. /\ worker[w] = "busy" /\ worker'[w] = "ended" /\ wgen' = wgen
          /\ \A x \in Workers \ {w} : worker'[x] = worker[x]
      BY <1>0, <2>7 DEF WorkerDies, NodeTyped
    <3> QED BY <1>0, <2>1, <2>3, <2>7, <3>1 DEF Current, Alive, WorkersExact
  <2>8. CASE WorkerDies(w) /\ running /\ wgen[w] = generation
    <3>1. PICK new \in Workers :
            /\ worker[new] = "new" /\ worker[w] = "busy"
            /\ worker' = [worker EXCEPT ![w] = "ended", ![new] = "idle"]
            /\ wgen' = [wgen EXCEPT ![new] = generation]
      BY <2>8 DEF WorkerDies
    <3>2. /\ new # w /\ worker'[w] = "ended" /\ worker'[new] = "idle" /\ wgen'[new] = generation
          /\ \A x \in Workers \ {w, new} : worker'[x] = worker[x] /\ wgen'[x] = wgen[x]
      BY <1>0, <3>1 DEF NodeTyped
    <3>3. w \in Ours /\ new \notin Ours /\ Ours' = (Ours \ {w}) \cup {new}
      BY <2>1, <2>8, <3>1, <3>2 DEF Current, Alive
    <3>4. \A x \in Workers : worker'[x] = "idle" => wgen'[x] = generation
      BY <1>0, <3>2 DEF WorkersExact
    <3>5. IsFiniteSet(Ours)
      BY NodeAssumption, FS_Subset
    <3> HIDE DEF Ours
    <3>6. IsFiniteSet(Ours \ {w}) /\ Cardinality(Ours \ {w}) = Cardinality(Ours) - 1
      BY <3>3, <3>5, FS_RemoveElement
    <3>7. Cardinality(Ours') = Cardinality(Ours \ {w}) + 1
      BY <3>3, <3>6, FS_AddElement
    <3>8. Cardinality(Ours) \in Nat
      BY <3>5, FS_CardinalityType
    <3>9. Cardinality(Ours') = Cardinality(Ours)
      BY <3>6, <3>7, <3>8
    <3> USE DEF Ours
    <3> QED BY <1>0, <2>1, <2>8, <3>4, <3>9 DEF WorkersExact
  <2> QED BY <2>2, <2>4, <2>5, <2>6, <2>7, <2>8
<1> QED BY <1>2, <1>3, <1>4, <1>5, StepKinds

-----------------------------------------------------------------------------
(* The invariant holds *)

LEMMA InitSound ==
  ASSUME Init
  PROVE  Sound
<1>1. AdapterTyped /\ Listening = {}
  BY DEF Init, AdapterInit, AdapterTyped, Listening, Conns
<1>2. NodeTyped
  <2>1. replaced \in 0..MaxReplaced
    BY NodeAssumption DEF Init
  <2> QED BY <2>1 DEF Init, NodeTyped, Stages, Jobs
<1>3. Limits
  BY FS_EmptySet, AdapterAssumption, NodeAssumption DEF Init, AdapterInit, Limits
<1>4. Locked
  BY NodeAssumption DEF Init, Locked
<1>5. OneListener /\ ServicesUp
  BY <1>1 DEF Init, AdapterInit, OneListener, ServicesUp, AtRest
<1>6. Reached /\ Known /\ DialsCurrent
  BY DEF Init, AdapterInit, Reached, Known, DialsCurrent, IsOpen, Conns
<1>7. TasksCancelled
  BY DEF Init, TasksCancelled
<1>8. WorkersSound
  BY NodeAssumption DEF Init, WorkersSound, InCall
<1>9. WorkersExact
  BY DEF Init, WorkersExact
<1> QED BY <1>1, <1>2, <1>3, <1>4, <1>5, <1>6, <1>7, <1>8, <1>9 DEF Sound

LEMMA StepSound ==
  ASSUME Sound, [Next]_vars
  PROVE  Sound'
BY AdapterTypedStep, NodeTypedStep, LimitsStep, LockedStep, OneListenerStep, ServicesUpStep,
   ReachedStep, KnownStep, DialsCurrentStep, TasksCancelledStep, WorkersSoundStep,
   WorkersExactStep DEF Sound

\* The inductive invariant is an invariant of the node.
LEMMA SoundHolds == Spec => []Sound
BY InitSound, StepSound, PTL DEF Spec

\* TypeOK: the lifecycle lock has one owner, at most one listener is open, and the accept
\* queue and the admitted connections stay within their limits.
THEOREM TypeCorrect == Spec => []TypeOK
<1>1. ASSUME Sound PROVE TypeOK
  <2>1. Cardinality({l \in Listeners : lstate[l] = "open"}) <= 1
    <3>1. Listening \in SUBSET {listener}
      BY <1>1 DEF Sound, OneListener
    <3>2. IsFiniteSet({listener}) /\ Cardinality({listener}) = 1
      BY FS_Singleton
    <3>3. Cardinality(Listening) <= Cardinality({listener})
      BY <3>1, <3>2, FS_Subset
    <3> QED BY <3>2, <3>3 DEF Listening
  <2>2. AdapterTypeOK
    BY <1>1, <2>1 DEF Sound, AdapterTyped, Limits, AdapterTypeOK
  <2> QED BY <1>1, <2>2 DEF Sound, NodeTyped, Limits, Locked, TypeOK
<1> QED BY <1>1, SoundHolds, PTL

\* WorkersExact: a running node has exactly handler_concurrency workers of its generation,
\* whichever handlers stopped it, outlived a generation or died, and only those wait.
THEOREM WorkersAreExact == Spec => []WorkersExact
<1>1. Sound => WorkersExact
  BY DEF Sound
<1> QED BY <1>1, SoundHolds, PTL

\* DialsCurrent: a dial that began before a transport.stop() is not handed out afterwards.
THEOREM DialsStayCurrent == Spec => []DialsCurrent
<1>1. Sound => DialsCurrent
  BY DEF Sound
<1> QED BY <1>1, SoundHolds, PTL

-----------------------------------------------------------------------------
(* The node implements Lifecycle *)

Up == {"transport", "listener", "discovery"}  \* what only a start brings up

\* What the node holds, resource by resource.
HeldIs ==
  /\ Held \subseteq Resources
  /\ ("transport" \in Held) <=> started
  /\ ("listener" \in Held) <=> (Listening # {})
  /\ ("discovery" \in Held) <=> discovering
  /\ ("connection" \in Held) <=> (\E c \in Conns : IsOpen(c))
  /\ ("task" \in Held) <=> (\/ accepting # "none" \/ tasks # {}
                            \/ \E w \in Workers : worker[w] = "idle"
                            \/ cancelling # {})

LEMMA HeldMembers == HeldIs /\ HeldIs'
<1>1. HeldIs
  <2>1. Held \subseteq Resources
    BY DEF Held
  <2>2. ("transport" \in Held) <=> started
    BY DEF Held, Resources
  <2>3. ("listener" \in Held) <=> (Listening # {})
    BY DEF Held, Resources
  <2>4. ("discovery" \in Held) <=> discovering
    BY DEF Held, Resources
  <2>5. ("connection" \in Held) <=> (\E c \in Conns : IsOpen(c))
    BY DEF Held, Resources
  <2>6. ("task" \in Held) <=> (\/ accepting # "none" \/ tasks # {}
                               \/ \E w \in Workers : worker[w] = "idle"
                               \/ cancelling # {})
    BY DEF Held, Resources
  <2> QED BY <2>1, <2>2, <2>3, <2>4, <2>5, <2>6 DEF HeldIs
<1> QED BY <1>1, PTL

\* A node at rest holds nothing; nor does one that has stopped its services, before
\* network_changed() starts it again.
RestsEmpty == AtRest \/ (stage = "services" /\ todo = {}) => Held = {}

LEMMA NothingHeld == (Sound => RestsEmpty) /\ (Sound => RestsEmpty)'
<1>1. ASSUME Sound, AtRest \/ (stage = "services" /\ todo = {}) PROVE Held = {}
  <2>1. ~running /\ todo = {} /\ cancelling = {}
    BY <1>1 DEF Sound, Locked, AtRest
  <2>2. Listening = {}
    BY <1>1, AdapterAssumption DEF Sound, OneListener, Listening
  <2>3. ~started /\ ~discovering
    BY <1>1 DEF Sound, ServicesUp
  <2>4. \A c \in Conns : ~IsOpen(c)
    BY <1>1, <2>1, <2>2, <2>3 DEF Sound, Known, Conns
  <2>5. accepting = "none" /\ tasks = {} /\ \A w \in Workers : worker[w] # "idle"
    BY <1>1, <2>1 DEF Sound, TasksCancelled
  <2>6. \A r \in Resources : r \notin Held
    BY <2>1, <2>2, <2>3, <2>4, <2>5, HeldMembers DEF HeldIs, Resources
  <2> QED BY <2>6, HeldMembers DEF HeldIs
<1>2. Sound => RestsEmpty
  BY <1>1 DEF RestsEmpty
<1> QED BY <1>2, PTL

\* The phase a state shows.
Shows ==
  /\ Phase \in {"stopped", "starting", "running", "stopping"}
  /\ (Phase = "stopped") <=> AtRest
  /\ (Phase = "starting") <=> (stage \in {"bind", "announce"})
  /\ (Phase = "running") <=> running
  /\ (Phase = "stopping") <=> (stage \in {"rollback", "cleanup", "gather", "services"})

LEMMA PhaseShows == (Sound => Shows) /\ (Sound => Shows)'
<1>1. ASSUME Sound PROVE Shows
  <2>1. stage \in Stages /\ running \in BOOLEAN
    BY <1>1 DEF Sound, NodeTyped
  <2>2. /\ running => stage \in {"none", "refresh"}
        /\ stage = "refresh" => running
        /\ (holder = None) <=> (stage = "none")
    BY <1>1 DEF Sound, Locked
  <2> QED BY <2>1, <2>2 DEF Phase, AtRest, Stages, Shows
<1> QED BY <1>1, PTL

\* A step inside a phase: nothing that only a start brings up comes up, unless the
\* node is starting, and a node at rest stays empty.
LEMMA WithinPhase ==
  ASSUME Sound, Sound', UNCHANGED <<running, stage>>,
         \/ stage \in {"bind", "announce"}
         \/ /\ started' => started
            /\ discovering' => discovering
            /\ Listening' # {} => Listening # {}
  PROVE  [Abstract!Next]_<<Phase, Held>>
<1>1. Shows /\ Shows' /\ RestsEmpty /\ RestsEmpty'
  BY PhaseShows, NothingHeld
<1>2. Phase' = Phase
  BY <1>1 DEF Shows, AtRest
<1>3. CASE AtRest
  <2>1. AtRest'
    BY <1>3 DEF AtRest
  <2>2. Held = {} /\ Held' = {}
    BY <1>1, <1>3, <2>1 DEF RestsEmpty
  <2> QED BY <1>2, <2>2
<1>4. CASE ~AtRest
  <2>1. Phase # "stopped"
    BY <1>1, <1>4 DEF Shows
  <2>2. Held' \in SUBSET Resources
    BY HeldMembers DEF HeldIs
  <2>3. Phase # "starting" => Held' \cap Up \subseteq Held
    BY <1>1, HeldMembers DEF Shows, HeldIs, Up
  <2>4. Abstract!Work
    BY <1>2, <2>1, <2>2, <2>3 DEF Abstract!Work, Up
  <2> QED BY <2>4 DEF Abstract!Next
<1> QED BY <1>3, <1>4

LEMMA Simulates ==
  ASSUME Sound, Sound', [Next]_vars
  PROVE  [Abstract!Next]_<<Phase, Held>>
<1>0. /\ Shows /\ Shows' /\ RestsEmpty /\ RestsEmpty' /\ HeldIs /\ HeldIs'
      /\ AdapterTyped /\ Locked /\ OneListener
  BY PhaseShows, NothingHeld, HeldMembers DEF Sound
<1>1. CASE AdapterStep \/ Bookkeeping \/ LoopStep \/ WorkerStep \/ UNCHANGED vars
  <2>1. UNCHANGED <<running, stage, started, discovering, lstate>>
    BY <1>1, AdapterFrame, BookkeepingFrame, LoopFrame, WorkerFrame
       DEF vars, adapter, listening, lifecycle
  <2>2. Listening' = Listening
    BY <2>1 DEF Listening
  <2> QED BY <2>1, <2>2, WithinPhase
<1>2. CASE JobStep
  <2>1. UNCHANGED <<running, stage>>
    BY <1>2, JobFrame
  <2>2. started' => started
    BY <1>2 DEF JobStep, CloseListener, CloseConnections, StopDiscovery, StopTransport,
                CloseSockets, TransportStop, adapter
  <2>3. discovering' => discovering
    BY <1>2 DEF JobStep, CloseListener, CloseConnections, StopDiscovery, StopTransport, CloseSockets
  <2>4. Listening' \subseteq Listening
    <3>1. CASE CloseListener \/ CloseSockets
      BY <1>0, <3>1, CloseListenersEffect DEF CloseListener, CloseSockets
    <3>2. CASE CloseConnections \/ StopDiscovery \/ StopTransport
      BY <3>2 DEF CloseConnections, StopDiscovery, StopTransport, adapter, listening, Listening
    <3> QED BY <1>2, <3>1, <3>2 DEF JobStep
  <2> QED BY <2>1, <2>2, <2>3, <2>4, WithinPhase
<1>3. ASSUME NEW k \in Calls, StartBegins(k) PROVE Abstract!Begin
  <2>1. AtRest /\ Held = {} /\ stage' = "bind"
    BY <1>0, <1>3 DEF StartBegins, BeginStart, Locked, AtRest, RestsEmpty
  <2>2. UNCHANGED <<conn, tasks, accepting, cancelling, worker>>
    BY <1>3 DEF StartBegins, pool
  <2>3. "connection" \notin Held' /\ "task" \notin Held'
    BY <1>0, <2>1, <2>2 DEF HeldIs, IsOpen
  <2>4. Held' \subseteq Up
    BY <1>0, <2>3 DEF HeldIs, Resources, Up
  <2>5. Phase = "stopped" /\ Phase' = "starting"
    BY <1>0, <2>1 DEF Shows
  <2> QED BY <2>4, <2>5 DEF Abstract!Begin, Up
<1>4. ASSUME NEW k \in Calls, StopBegins(k) PROVE Abstract!Stop
  <2>1. running /\ stage' = "cleanup"
    BY <1>4 DEF StopBegins, BeginStop
  <2>2. UNCHANGED <<started, lstate, discovering, conn>> /\ Listening' = Listening
    BY <1>4 DEF StopBegins, Listening
  <2>3. accepting # "none"
    BY <2>1 DEF Sound, TasksCancelled
  <2>4. \A r \in Resources : r \in Held' => r \in Held
    BY <1>0, <2>2, <2>3 DEF HeldIs, IsOpen, Resources
  <2>5. Held' \subseteq Held
    BY <1>0, <2>4 DEF HeldIs
  <2>6. Phase = "running" /\ Phase' = "stopping"
    BY <1>0, <2>1 DEF Shows
  <2> QED BY <2>5, <2>6 DEF Abstract!Stop
<1>5. ASSUME NEW k \in Calls, TransportFails(k) PROVE [Abstract!Next]_<<Phase, Held>>
  <2>1. /\ stage' = "rollback"
        /\ AtRest \/ (stage = "services" /\ todo = {})
    BY <1>0, <1>5 DEF TransportFails, Locked, AtRest
  <2>2. /\ UNCHANGED <<started, lstate, discovering, conn, tasks, accepting, cancelling, worker>>
        /\ Listening' = Listening
    BY <1>5 DEF TransportFails, adapter, listening, accepts, pool, Listening
  <2>3. Held = {}
    BY <1>0, <2>1 DEF RestsEmpty
  <2>4. \A r \in Resources : r \in Held' => r \in Held
    BY <1>0, <2>2 DEF HeldIs, IsOpen, Resources
  <2>5. Held' = {} /\ Phase' = "stopping"
    BY <1>0, <2>1, <2>3, <2>4 DEF HeldIs, Shows
  <2>6. CASE AtRest
    <3>1. Abstract!Refused
      BY <1>0, <2>5, <2>6 DEF Abstract!Refused, Shows
    <3> QED BY <3>1 DEF Abstract!Next
  <2>7. CASE stage = "services"
    <3>1. Phase' = Phase
      BY <1>0, <2>5, <2>7 DEF Shows
    <3> QED BY <2>3, <2>5, <3>1
  <2> QED BY <2>1, <2>6, <2>7
<1>6. CASE StageStep
  <2>1. CASE Bound
    <3>1. stage = "bind" /\ stage' = "announce"
      BY <2>1 DEF Bound
    <3>2. Phase = "starting" /\ Phase' = "starting"
      BY <1>0, <3>1 DEF Shows
    <3>3. Abstract!Work
      BY <1>0, <3>2 DEF Abstract!Work, HeldIs
    <3> QED BY <3>3 DEF Abstract!Next
  <2>2. CASE Rollback
    <3>1. stage \in {"bind", "announce"} /\ stage' = "rollback"
      BY <2>2 DEF Rollback
    <3>2. UNCHANGED <<conn, tasks, accepting, cancelling, worker>>
      BY <2>2 DEF Rollback, adapter, accepts, pool
    <3>3. \A r \in Resources : r \in Held' => r \in Held \cup Up
      BY <1>0, <3>2 DEF HeldIs, IsOpen, Resources, Up
    <3>4. Held' \subseteq Held \cup Up
      BY <1>0, <3>3 DEF HeldIs
    <3>5. Abstract!GiveUp
      BY <1>0, <3>1, <3>4 DEF Abstract!GiveUp, Shows, Up
    <3> QED BY <3>5 DEF Abstract!Next
  <2>3. CASE StartDone
    <3>1. stage = "announce" /\ running' = TRUE /\ discovering' = TRUE
      BY <2>3 DEF StartDone
    <3>2. started' /\ Listening' # {}
      BY <3>1 DEF Sound, ServicesUp, OneListener
    <3>3. Up \subseteq Held'
      BY <1>0, <3>1, <3>2 DEF HeldIs, Up
    <3>4. Abstract!Started
      BY <1>0, <3>1, <3>3 DEF Abstract!Started, Shows, Up
    <3> QED BY <3>4 DEF Abstract!Next
  <2>4. CASE Refreshed \/ CleanedUp \/ Gathered
    <3>1. UNCHANGED <<started, lstate, discovering>> /\ Listening' = Listening
      BY <2>4 DEF Refreshed, CleanedUp, Gathered, adapter, listening, Listening
    <3>2. /\ Phase' = Phase /\ Phase # "stopped" /\ Phase # "starting"
      <4>1. CASE Refreshed
        BY <1>0, <4>1 DEF Refreshed, Locked, Shows
      <4>2. CASE CleanedUp \/ Gathered
        BY <1>0, <4>2 DEF CleanedUp, Gathered, Shows
      <4> QED BY <2>4, <4>1, <4>2
    <3>3. Held' \cap Up \subseteq Held
      BY <1>0, <3>1 DEF HeldIs, Up
    <3>4. Abstract!Work
      BY <1>0, <3>2, <3>3 DEF Abstract!Work, HeldIs, Up
    <3> QED BY <3>4 DEF Abstract!Next
  <2>5. CASE RolledBack \/ StopReturns
    <3>1. stage \in {"rollback", "services"} /\ AtRest'
      BY <1>0, <2>5 DEF RolledBack, StopReturns, Done, Locked, AtRest
    <3>2. Held' = {}
      BY <1>0, <3>1 DEF RestsEmpty
    <3>3. Abstract!Release
      BY <1>0, <3>1, <3>2 DEF Abstract!Release, Shows
    <3> QED BY <3>3 DEF Abstract!Next
  <2>6. CASE StartsAgain
    <3>1. stage = "services" /\ Held = {} /\ stage' = "bind"
      BY <1>0, <2>6 DEF StartsAgain, BeginStart, RestsEmpty
    <3>2. UNCHANGED <<conn, tasks, accepting, cancelling, worker>>
      BY <2>6 DEF StartsAgain, accepts, pool
    <3>3. "connection" \notin Held' /\ "task" \notin Held'
      BY <1>0, <3>1, <3>2 DEF HeldIs, IsOpen
    <3>4. Held' \subseteq Up
      BY <1>0, <3>3 DEF HeldIs, Resources, Up
    <3>5. Phase = "stopping" /\ Phase' = "starting"
      BY <1>0, <3>1 DEF Shows
    <3>6. Abstract!Release
      BY <3>4, <3>5 DEF Abstract!Release, Up
    <3> QED BY <3>6 DEF Abstract!Next
  <2> QED BY <1>6, <2>1, <2>2, <2>3, <2>4, <2>5, <2>6 DEF StageStep
<1>7. CASE Begins
  BY <1>3, <1>4, <1>5, <1>7 DEF Begins, Abstract!Next
<1> QED BY <1>1, <1>2, <1>6, <1>7, StepKinds

\* Implements: start(), stop() and network_changed() take place one at a time, the network
\* comes up only while the node starts, and a stopped node holds no resource: after a stop
\* and after a start that failed or was cancelled at any of its stages.
THEOREM Refines == Spec => Implements
<1>1. Init => Abstract!Init
  <2>1. Init => Phase = "stopped"
    BY NodeAssumption DEF Init, Phase
  <2>2. Init => Held = {}
    BY InitSound, NothingHeld DEF Init, RestsEmpty, AtRest
  <2> QED BY <2>1, <2>2 DEF Abstract!Init
<1>2. Sound /\ Sound' /\ [Next]_vars => [Abstract!Next]_<<Phase, Held>>
  BY Simulates
<1> QED BY <1>1, <1>2, SoundHolds, PTL DEF Spec, Implements, Abstract!Spec
=============================================================================
