------------------------------ MODULE LanAdapter ------------------------------
(***************************************************************************)
(* lan/transport.py and lan/listener.py: the transport's lifecycle and      *)
(* generation, the listener's accept queue and waiter, client connections   *)
(* handed over, refused or closed, and dials that race stop().  The node    *)
(* creates one listener per start and accepts from one task, so accepted,   *)
(* tracked and waiter are those of the open listener.                       *)
(***************************************************************************)
EXTENDS Naturals, FiniteSets

CONSTANTS
  Listeners,          \* TcpListener objects, one per start attempt
  Inbound,            \* connections that clients open
  Dials,              \* calls of LanTransport.connect, and what they open
  MaxPendingAccepts,  \* max_pending_accepts
  None

Conns == Inbound \cup Dials

ASSUME AdapterAssumption ==
  /\ Inbound \cap Dials = {}
  /\ None \notin Conns \cup Listeners
  /\ MaxPendingAccepts \in Nat

VARIABLES
  started,    \* LanTransport._started
  tgen,       \* LanTransport._lifecycle_generation
  lstate,     \* each TcpListener: not created, created, _server set, _closed
  conn,       \* each connection: absent, being set up, open or closed
  via,        \* the listener a client reached
  accepted,   \* TcpListener._accepted
  waiter,     \* the future in _accept_waiters: pending, its result, or closed
  tracked,    \* TcpListener._connections
  dgen,       \* the generation a dial read when it began
  tconns,     \* LanTransport._connections
  inHand      \* connections that a close() or stop() under way is about to close

listening == <<lstate, via, accepted, waiter, tracked>>
dialling  == <<dgen, tconns>>
adapter   == <<started, tgen, conn, inHand, listening, dialling>>

AdapterTypeOK ==
  /\ started \in BOOLEAN /\ tgen \in Nat
  /\ lstate \in [Listeners -> {"new", "created", "open", "closed"}]
  /\ conn \in [Conns -> {"absent", "setup", "open", "closed"}]
  /\ via \in [Inbound -> Listeners \cup {None}]
  /\ accepted \subseteq Inbound /\ Cardinality(accepted) <= MaxPendingAccepts
  /\ waiter \in Inbound \cup {"none", "pending", "closed"}
  /\ tracked \subseteq Inbound
  /\ dgen \in [Dials -> Nat] /\ tconns \subseteq Dials
  /\ inHand \subseteq Conns
  /\ Cardinality({l \in Listeners : lstate[l] = "open"}) <= 1

AdapterInit ==
  /\ started = FALSE /\ tgen = 0
  /\ lstate = [l \in Listeners |-> "new"]
  /\ conn = [c \in Conns |-> "absent"]
  /\ via = [c \in Inbound |-> None]
  /\ accepted = {} /\ waiter = "none" /\ tracked = {}
  /\ dgen = [d \in Dials |-> 0] /\ tconns = {} /\ inHand = {}

IsOpen(c) == conn[c] = "open"
Set(c, s) == conn' = [conn EXCEPT ![c] = s]

-----------------------------------------------------------------------------
(* TcpListener *)

Unused    == {l \in Listeners : lstate[l] = "new"}
NextOne   == CHOOSE l \in Unused : TRUE
Listening == {l \in Listeners : lstate[l] = "open"}

\* The server accepts a client; its _handle_client task has not run yet.
ClientArrives(c) ==
  /\ conn[c] = "absent"
  /\ \E l \in Listening : via' = [via EXCEPT ![c] = l]
  /\ Set(c, "setup")
  /\ UNCHANGED <<started, tgen, lstate, accepted, waiter, tracked, inHand, dialling>>

\* Mutant: the accept queue takes one connection too many.
HandleClient_QueueOffByOne(c) ==
  /\ conn[c] = "setup" /\ c \in Inbound
  /\ lstate[via[c]] # "closed" /\ Cardinality(accepted) <= MaxPendingAccepts
  /\ Set(c, "open")
  /\ accepted' = accepted \cup {c} /\ tracked' = tracked \cup {c}
  /\ UNCHANGED <<started, tgen, lstate, via, waiter, inHand, dialling>>

\* _handle_client: give the connection to the waiter, queue it, or close it when
\* the listener is closed or the queue is full.
HandleClient(c) ==
  /\ conn[c] = "setup" /\ c \in Inbound
  /\ LET live == {x \in tracked : IsOpen(x)}
     IN  IF lstate[via[c]] = "closed"
         THEN Set(c, "closed") /\ UNCHANGED <<accepted, waiter, tracked>>
         ELSE IF waiter = "pending"
         THEN Set(c, "open") /\ waiter' = c /\ tracked' = live \cup {c} /\ UNCHANGED accepted
         ELSE IF Cardinality(accepted) >= MaxPendingAccepts
         THEN Set(c, "closed") /\ UNCHANGED <<accepted, waiter, tracked>>
         ELSE /\ Set(c, "open") /\ accepted' = accepted \cup {c}
              /\ tracked' = live \cup {c} /\ UNCHANGED waiter
  /\ UNCHANGED <<started, tgen, lstate, via, inHand, dialling>>

\* The peer's address or certificate is refused.
HandleClientRefused(c) ==
  /\ conn[c] = "setup" /\ c \in Inbound
  /\ Set(c, "closed")
  /\ UNCHANGED <<started, tgen, listening, inHand, dialling>>

\* Mutant: close() forgets the connections it has handed out.
CloseListeners_KeepsHandedOut(S) ==
  /\ lstate' = [l \in Listeners |-> IF l \in S THEN "closed" ELSE lstate[l]]
  /\ IF \E l \in S : lstate[l] = "open"
     THEN /\ waiter' = IF waiter = "pending" THEN "closed" ELSE waiter
          /\ inHand' = inHand \cup accepted
          /\ accepted' = {} /\ tracked' = {}
     ELSE UNCHANGED <<waiter, inHand, accepted, tracked>>

\* _close up to its first await: no more clients, the waiter fails, and every
\* connection it still tracks will be closed.
CloseListeners(S) ==
  /\ lstate' = [l \in Listeners |-> IF l \in S THEN "closed" ELSE lstate[l]]
  /\ IF \E l \in S : lstate[l] = "open"
     THEN /\ waiter' = IF waiter = "pending" THEN "closed" ELSE waiter
          /\ inHand' = inHand \cup tracked
          /\ accepted' = {} /\ tracked' = {}
     ELSE UNCHANGED <<waiter, inHand, accepted, tracked>>

\* The connections in hand are closed.
CloseHeld ==
  /\ conn' = [c \in Conns |-> IF c \in inHand /\ IsOpen(c) THEN "closed" ELSE conn[c]]
  /\ inHand' = {}

-----------------------------------------------------------------------------
(* LanTransport *)

\* start() and create_listener(), which do not suspend.
TransportStart(l) ==
  /\ started' = TRUE
  /\ tgen' = IF started THEN tgen ELSE tgen + 1
  /\ lstate' = [lstate EXCEPT ![l] = "created"]

\* stop() up to its first await; its listeners are closed by CloseListeners.
TransportStop ==
  /\ started' = FALSE
  /\ tgen' = tgen + 1
  /\ inHand' = inHand \cup tconns
  /\ tconns' = {}

DialStart(d) ==
  /\ conn[d] = "absent" /\ started
  /\ Set(d, "setup")
  /\ dgen' = [dgen EXCEPT ![d] = tgen]
  /\ UNCHANGED <<started, tgen, inHand, listening, tconns>>

\* Mutant: only _started is compared, not the generation.
DialDone_OnlyStarted(d) ==
  /\ conn[d] = "setup" /\ d \in Dials
  /\ IF ~started
     THEN Set(d, "closed") /\ UNCHANGED tconns
     ELSE Set(d, "open") /\ tconns' = {x \in tconns : IsOpen(x)} \cup {d}
  /\ UNCHANGED <<started, tgen, inHand, listening, dgen>>

\* The TCP and TLS handshakes succeed: a stop() since the dial began closes it.
DialDone(d) ==
  /\ conn[d] = "setup" /\ d \in Dials
  /\ IF ~started \/ tgen # dgen[d]
     THEN Set(d, "closed") /\ UNCHANGED tconns
     ELSE Set(d, "open") /\ tconns' = {x \in tconns : IsOpen(x)} \cup {d}
  /\ UNCHANGED <<started, tgen, inHand, listening, dgen>>

\* The dial fails, times out, is cancelled or its certificate is refused; or
\* whoever dialled closes the connection.
DialCloses(d) ==
  /\ conn[d] \in {"setup", "open"} /\ d \in Dials
  /\ Set(d, "closed")
  /\ UNCHANGED <<started, tgen, inHand, listening, dialling>>
=============================================================================
