# Paqto: a TLA+ model of the node and its LAN adapter

Paqto is an asyncio library for peer-to-peer messaging on a local network. A
`PaqtoNode` discovers peers, opens and accepts connections, negotiates a
protocol session on each, keeps exactly one canonical READY session per peer,
and sends messages, requests, ACKs and heartbeats over it. Everything runs on
one event loop: code between two `await`s is atomic, and everything hard about
the program is what happens *between* them: cancelled callers, close calls
racing open attempts, two nodes dialling each other, teardown racing senders,
handlers that stop the node that runs them.

This project models those parts in TLA+, checks them with TLC on small
instances (safety, liveness, and that the node's lifecycle implements an
abstract one), and proves with TLAPS every safety property those runs check, the
refinement included, for any number of tasks, calls, peers and connections.

## Inventory

| Component | State | Operations | What is hard, and what correct means |
|---|---|---|---|
| `core/manager.py` ConnectionManager | canonical connection, task in flight, logical state, closing flags | connect, open task, adopt, connection_lost, close_peer, close_all, mark_* | shared attempt, cancelled waiters, close racing open: no leak, one attempt, state agrees with the maps, close wins, everybody is answered |
| `core/node.py` outbound channel | bounded queue, writer task, current frame, futures | _queue_frame, _outbound_worker, _close_outbound_channel, stop | backpressure, timeouts and teardown racing the writer: every frame is answered once, no lost wake-up, no sender stuck |
| `core/node.py` session selection and readers | session tables, readers, incoming and outgoing tasks | connect, _prepare_outgoing_connection, _run_incoming_connection, _select_ready_connection, _retire_replaced_connection, _connection_ended | two nodes decide independently: they agree, losers are closed, the winner is read, things settle |
| `core/protocol.py` handshake and frames | none (a value per session) | negotiate_protocol, encode/decode | both ends agree on version, serializer, capabilities and size, or the connection is closed |
| `core/node.py` correlations | pending requests, ACKs and pings | request, reply, _resolve_*, _fail_pending_* | late, duplicate or foreign answers never complete a call; limits hold; every wait ends |
| `core/node.py` reconnect and disconnect | reconnect tasks, suppression set, known peers | _schedule_reconnect, _reconnect_loop, disconnect | at most one loop, none for a suppressed peer, attempts bounded |
| `core/node.py` lifecycle | running flag, generation, owned tasks | start, stop, network_changed | rollback, serialisation, cancellation-safe transitions, nothing survives a stop |
| `core/node.py`, `core/router.py`, `core/events.py` dispatch and events | bounded inbound and event queues, workers | _enqueue_dispatch, _dispatch_worker, _emit_event | readers blocked by slow handlers; a full event queue drops the new event |
| `lan/discovery.py` | cache of announcements, TTL | start, announce, receive, discover, stop | freshness, a full cache that refuses new peers until entries expire, generation across restarts |
| `lan/listener.py`, `lan/transport.py`, `lan/connection.py` | accept queue, TLS upgrades, TCP stream | accept, connect, send_frame, receive_frame, close | close racing accept, bounded pending upgrades, frame limits |
| `lan/security.py` | none (a value per connection) | security_info_from_writer | an end believes only what a verified certificate and its resolver prove |
| serializers, addresses, TLS contexts, config validation, value types | none | | stateless; not modelled |

The node calls the manager (`connect`, `adopt`, `connection_lost`,
`close_peer`, `close_all`); the manager calls back into the node through
`prepare` (`_prepare_outgoing_connection`) from inside the open task. Session
selection creates an outbound channel when it registers a session; a reader's
end tears it down and may schedule a reconnect loop, which dials what discovery
last observed. `start()` brings up transport, listener and discovery in this
order, `stop()` takes everything down, and both can be called by a message
handler, that is from inside a task they manage. Two nodes interact only through
the streams between them (hello, messages, ACKs, PINGs, the end of a stream) and
through the datagrams of discovery.

`PROJECT.json` lists the components with their status, the hazards with their
lines, and the map from every definition to the code it stands for.

## Modules

| Module | Models |
|---|---|
| `ConnectionManager` | `core/manager.py` for one peer |
| `ConnectionManagerProofs` | TLAPS proofs about it |
| `OutboundChannel` | the writer queue of one READY connection |
| `OutboundChannelProofs` | TLAPS proofs about it |
| `Correlations` | one node's pending requests, ACKs and heartbeat PINGs |
| `CorrelationsProofs` | TLAPS proofs about them |
| `SessionSelection` | two nodes, their dials, the duplicate resolution and the readers |
| `SessionSelectionProofs` | TLAPS proofs about it |
| `Session` | one connection between two nodes: TLS identity, hello, traffic, inbound queue and handlers, heartbeat |
| `SessionProofs` | TLAPS proofs about it |
| `Reconnect` | one node and one peer: `connect()`, `disconnect()`, lost sessions and the reconnect loop |
| `ReconnectProofs` | TLAPS proofs about it |
| `LanAdapter` | `lan/transport.py` and `lan/listener.py`: accept queue, dials, close and stop |
| `NodeLifecycle` | `start()`, `stop()`, `network_changed()` over `LanAdapter`, the accept loop and the dispatch workers |
| `Lifecycle` | what the lifecycle promises, abstractly; `NodeLifecycle` is shown to implement it |
| `NodeLifecycleProofs` | TLAPS proofs about `NodeLifecycle`, and that it implements `Lifecycle` |
| `Discovery` | `lan/discovery.py` and the node's `_known_peers` |
| `DiscoveryProofs` | TLAPS proofs about it |
| `MC...` | instances for TLC, with symmetry where only safety is checked and the sets are large enough to need it |

`NodeLifecycle` composes the node with its adapter (it EXTENDS `LanAdapter` and
every transition calls the adapter's operations). The other modules meet in what
they leave to each other: `Session` is the inside of a connection that
`SessionSelection` chooses, `OutboundChannel` the inside of its `out` queue,
`Correlations` of its waiting calls; `Reconnect` and `SessionSelection` reduce
the manager to the variables they read.

### ConnectionManager

Every `async with self._lock` body is synchronous and the lock is never held
across an `await`, so an action is one stretch of code between awaits. An open
task `t` dials one connection, also called `t`. Its program counter `tpc[t]`
follows `_open_connection`: `spawned` (created, no step yet), `dial`,
`prepare`, `closeOpened` (it lost to an inbound connection and closes its own),
`closePrev` (published, closing what it displaced), `cleanup` (closing what it
opened on a failure) and the three ends. `Install` is the locked section that
re-checks the closing flags; `FinishFailed` the `finally` of a failed attempt.
`StartClose`, `CloseConnection`, `CloseReturns` are the stages of `close_peer`
(a member of `Closers`) and `close_all` (`All`); `GatherCancelled` is the
cancellation of a coroutine inside `close_peer`. `prepare` is left
nondeterministic: it returns the dialled connection, an open inbound one, or
raises. The node's part (accepting, retiring, the reader that reports a loss)
is reduced to what the manager sees.

`Absorbing` is a fact about the Python version: `asyncio.wait_for` of 3.10 and
3.11 returns a result that is ready even if the waiter was cancelled in the same
turn, so a cancelled attempt can go on. It is the set of tasks to which that may
happen; the run has one that it may happen to and one that it may not, and the
proofs hold for any subset.

### OutboundChannel

A call of `_queue_frame` is also its frame and its future. `asyncio.Queue` is
modelled by its two relevant structures, the items and the blocked putters,
with its wake-up rule: each `get_nowait` wakes the first putter, a woken putter
re-checks, and a cancelled one that was woken passes the wake-up on. `LoopTop`
is the writer's loop condition and `queue.get()`; `WriterEnds` its `finally`.
`Reader` is the call the connection's own reader makes for an ACK or PONG. It
has no deadline, and the reader's own teardown cannot start while it is inside.

### SessionSelection

`step[n][c]` says where node `n`'s task for connection `c` is: the dial, the
hello exchange, retiring the loser, publishing in the manager, reading, ending.
A node's session tables are abstracted to `canon`, its canonical connection, as
a session is only registered once any other session of the peer has been
deactivated. The manager is reduced to `mgr`, `inFlight` and `closing` and the
code paths reachable here. A stream end is delivered separately at each side
(`DeliverEof`), after what was sent before it. `_cancel_heartbeat`,
`_close_outbound_channel` and the manager's `connection_lost` inside
`_retire_replaced_connection` are one step up to the loser's `close()`.
`ClosePeer` delivers the cancellation of an attempt in flight at once.
`MaxFaults` bounds the link failures, idle timeouts and cancelled callers of
`connect()`; `gaveUp` remembers that a caller found no session for the connection
it was given and called `close_peer` (see "Also seen"), after which the nodes
need not be connected.

### Correlations

A call is a `send()` with ACK, a `request()` (with ACK or without) or one PING
of a heartbeat loop, and stands for its message or ping id, which is unique;
`form[k]` says which. `pc[k]` is the await it is in: `queue` (`_queue_frame`),
`ack`, `answer`, or `close` (the heartbeat closing its connection). A wait that
ends early takes the steps it takes in asyncio, between which the reader can run:
`DeadlinePasses` (the timer is due), `Timeout` (its callback in `wait_for` cancels
the future unless it is done) or `Cancelled`, and, when the task resumes,
`Raised`, or for a PING `PingTimeout` (the `close()`) and `PingCloses`. An answer
read after the deadline passed may or may not be returned: Python 3.12 and later
raise `TimeoutError` all the same. The three
tables are the sets `pendReq`, `pendAck`, `pendPing`; `fut` and `ackFut` are the
futures in them. `Call` and `Ping` register and queue in one step, as the code
has no await in between; `Finish` is the `finally` clauses. `_queue_frame` is
reduced to its outcomes (it returns once the frame is written, or raises); how
it gets there is `OutboundChannel`. A frame whose caller has given up may still
be written and answered, so `ReceiveReply`, `ReceiveAck` and `ReceivePong` let
any reader read an answer to any written frame: late, repeated, in any order, on
another connection. The code compares peer ids as well as connections, and as a
connection belongs to one peer for life the second comparison implies the first.

`Teardown` is what losing the selection, a reader's end and `disconnect()` have
in common up to awaiting the heartbeat task they cancelled; `TeardownCloses`
follows it. `Displace` is the selection finding the old connection closed, which
removes its session and fails nobody. `IncomingEnds` is an incoming task that
ends before it reads. A session is READY before its reader starts
(`ReaderStarts`): calls may be made in between.

### Session

Two ends, `dialler` and `listener`, each with its own configuration, join over a
`TcpConnection` whose sockets hold `Buffer` frames each way. One frame more may be
in the sender's transport: the writer then waits in `drain()` (`Full`). `close()`
flushes: `wire` keeps what was written, the socket is closed (`SocketClosed`) when
the sockets hold it all, and `wait_closed()` waits for that without a deadline, so
a handler worker that closes the connection stays in `close`. The other end reads
what was flushed and then the end of the stream (`AtEof`); data sent to a closed
socket is answered by a `Reset`. `Authenticated` and
`ProvenId` are what an end concludes from the certificate it is shown;
`Negotiate` makes the checks of `negotiate_protocol` in their order and computes
the session from the end's own configuration and the other's hello. A READY
end's reader (`reader[n]`) receives a frame, answers it (an ACK or PONG it waits
to see written), puts a message in the inbound queue (waiting or refusing, by
policy) and ends on a frame outside the session's limits or on the end of the
stream. Handlers end, fail, reply, or make a request and wait for its reply,
which the same reader has to deliver. The heartbeat is one PING: its deadline
runs from the moment `_queue_frame` returns. Sizes are numbers and a frame is
its kind, id and size; JSON and length prefixes are abstracted to well-formed
frames. A stuck TLS shutdown, which Python 3.11 and later abort after
`ssl_shutdown_timeout`, is not modelled. The callers of `_queue_frame` do not outnumber `max_outbound_queue`;
`OutboundChannel` is about that limit.

### Reconnect

One node and one peer. A session is registered (`ready`), ends as the canonical
one (`ending`) or after it was replaced (`leaving`), and the last step of
`_connection_ended` decides whether a loop is scheduled. A loop's program counter
follows `_reconnect_loop`: the checks at its top, the backoff sleep, the attempt
it shares with `connect()` calls through the manager, and the `close_peer` after
an attempt that gave no session. Its local copy of the observation is fresh or
not (`seen`), independently of `_known_peers`. `disconnect()` has an action for
each stretch between its awaits. `CancelLoop` is a loop that is cancelled by
`connect()` or `disconnect()`; one that was inside `close_peer` runs its `finally`
and clears the closing flag. `max_attempts` is finite (`MaxAttempts`): its default,
`None` (`config.py:50`), retries as long as the observation is fresh. The manager is its canonical connection, the
attempt in flight, the closing flag and the logical state. The length of a
backoff delay is left out: a delay ends.

### LanAdapter and NodeLifecycle

`LanAdapter` has the listener's accept queue and its waiter, the clients that
`_handle_client` hands over, queues or refuses, and the transport's dials, which
compare the generation they began in with the current one when they get through.
`NodeLifecycle` adds the lifecycle lock (`holder`), the transition that holds it
(`stage`, the await it is in; `todo`, what its gather still waits for), the
accept loop with its incoming tasks and the limit on connections, and the
dispatch workers with their generation. A transition runs in a task of its own
that its caller awaits under a shield, so cancelling the caller of `stop()` or
`network_changed()` changes nothing in the model; a `start()` can be cancelled at
every await and then rolls back. `CallFromHandler` is a handler that calls one of
the three: its worker is the one the transition does not cancel (`skip_task`),
and a worker inside such a call holds back its own cancellation.

`Lifecycle` is the abstract specification: a node is stopped, starting, running
or stopping and holds resources; only a start brings up the transport, the
listener and discovery, and a stopped node holds nothing, connections and tasks
included. `Implements == Abstract!Spec` is the refinement, with `Phase` and
`Held` as the mapping.

Left out: outgoing connections, which the limit counts as well; the event worker,
which is treated like a dispatch worker; a second cancellation of one `start()`.

### Discovery

One node sees remote peers come up, go down and move. Their announcements arrive,
are lost, repeated, or arrive after they moved (`late`). `cache` is the bounded
`_discovered`, which drops expired entries when a new peer announces itself and
refuses the peer if it is still full (`discovery.py:290-293`); `known` is the node's
`_known_peers`. A cached observation is a mutable object that `discover()` hands
out, so `known` and a `connect()` call in progress hold `Shared`, a reference to
it, until the cache drops the object and the last value stays with them. Ages
count ticks up to one past the longer TTL. `discover()` remembers the generation
it began in. `connect(peer)` looks its target up in `known` (`Connect`);
`connect(discovered)` uses the object it is given (`ConnectTo`): the cached one, or
one the application has kept or made (`Own`), also from before a restart. The fields
`gen` and `given` of an observation say in which run it was made and handed in. `Start`, `Stop`, `StopKnown` and `StopDone` are the parts of the
lifecycle that discovery sees. The wall clock does not step back, a TTL is not
`None`, and a malformed packet changes nothing and is not enumerated.

## Runs

All passing runs explore their whole state space.

| Run | Checks | Result |
|---|---|---|
| `manager` | TypeOK, NoLeak, StateAgrees, SingleFlight, CloseWins, CallsAnswered | pass |
| `outbound` | TypeOK, NoLostWakeup, ReturnedMeansWritten, Accounted, under either backpressure policy | pass |
| `outbound_orphan` | CallEnds | violated (finding 1) |
| `selection` | TypeOK, Agreement, Complete, Settles | pass |
| `selection_no_reader` | HasReader | violated (finding 2) |
| `correlations` | TypeOK, TablesExact, Owned, ExactConnection, NoFalseAlarm | pass |
| `lifecycle` | TypeOK, WorkersExact, DialsCurrent, Implements (the refinement), HostCallsReturn | pass |
| `lifecycle_deadlock` | CallsReturn, with two handlers that call `stop()` | violated (finding 3) |
| `reconnect` | TypeOK, OneLoop, DisconnectHolds, ReconnectingEnds | pass |
| `discovery` | TypeOK, NoGhosts, NewestWins, Tracked | pass |
| `session` | TypeOK, SessionsAgree, NoRefusal, NotStuck | pass |
| `session_ack_deadlock` | HeartbeatEnds | violated (finding 4) |

What the passing runs show, beyond the types:

- `manager`: an open connection always has somebody who will publish or close it;
  the logical state agrees with the maps; attempts are shared, and beside a
  new one only an attempt whose close call is still waiting for it; a close call beats
  the attempt it popped; every `connect()` and close call returns.
- `outbound`: no wake-up is lost, a call that returned was written, and every
  frame is in the queue, in the writer's hand, or answered.
- `selection`: after link failures, idle timeouts or a cancelled caller the nodes
  settle, and then agree on the canonical connection, have closed all others and
  have it published.
- `correlations`: an answer completes only its own call on its own connection,
  the tables are exact and bounded, a lost session leaves nobody waiting, and a wait
  times out, the heartbeat's included, only if its answer had not been read when its
  deadline passed.
- `lifecycle`: a stopped node holds nothing, whichever start failed, was
  cancelled, or was stopped while clients and dials were getting through; a
  running one has exactly its workers; a dial of an earlier generation is never
  handed out; the host's calls return.
- `reconnect`: one loop at a time and always where it can be cancelled; none, and
  no attempt, after `disconnect()`; a peer is not RECONNECTING for ever while its
  observation is fresh, given a finite `max_attempts`.
- `discovery`: nothing observed before a stop is known after it, unless the
  application hands it to `connect()` again; an observation is never replaced by an
  older one; a peer that stays is found again under its
  address and one that left is forgotten.
- `session`: two READY ends computed the same session, neither with a peer other
  than the expected and the proven one; no reader refuses what an honest peer
  sends, whatever the two configurations; readers that wait for a handler or for
  their ACK to be written go on, even when that handler waits for a reply behind them
  in the stream, and closes return. The exception is named in the property: a
  connection that is `Jammed`, with both transports full and neither end reading,
  stays so. That is finding 4, and TLC reaches it here too, with both ends READY and
  with both closed and waiting for their flush.

Bounds. Manager: two open tasks let an attempt that a close call cancelled
overlap with its successor; one inbound connection is enough to displace, be
displaced and be adopted in turn; one `close_peer` and `close_all` overlap.
Outbound: on a queue of one frame three callers, one of them the reader, have
every order of full, woken, overtaken and cancelled putters, and two teardowns
meet `stop()`; `Init` chooses the policy. Selection: three connections, two
dialled by the smaller peer, three `connect()` calls and one fault contain a
simultaneous open, a same-direction duplicate and a redial after a failure.
Correlations: a request with ACK, which makes every kind of wait and counts against
both limits, beside a send or a PING, or two requests, or two PINGs (`Mixes`), on two
connections, one of them accepted, with limits of one, so that the tables fill up and an answer can come on
the wrong connection or after its call has ended. Lifecycle: one call of each
kind, of which one may come from a handler, with two clients for an accept queue
and a connection limit of one (handed over, queued, refused), one dial that can
straddle a restart, and three workers (the first, its replacement after a failure
or a restart). Reconnect: two sessions and two loops, so that a loop can meet its
successor and a session its replacement, and two attempts per loop. Discovery: two
peers compete for a cache of one entry, one of them moves once, the TTLs differ,
the node runs twice, and the application may hand in an observation of that peer
which it has kept, at its first address and as old as `connect()` accepts; the proofs
are for any such observations. Session: all pairs of three configurations (a usual one; a
small, strict one without ACKs; another version), three TLS situations and a
dialler led to the right or the wrong peer, with three messages, the first of which
has a nested request, into an inbound queue of one, over sockets that hold one frame
each way, so that writers block in `drain()` and closes wait for their flush.

Tasks, connections, sessions and calls are used once, so most of the systems stop
when they run out of them: where that is a terminal state the configurations
switch deadlock checking off, and the liveness properties say what must have
happened. `manager` and `discovery` never stop and are checked for deadlock.

Fairness. The event loop runs every ready task, so each task's own steps are
weakly fair. Dials, hello exchanges and attempts have deadlines, so they end, well
or badly. TCP delivers what was sent, or the end of the stream. Nothing is assumed
about users: `connect()`, close calls, cancellations and link failures may happen
or not. In particular:

- `OutboundChannel`: a call with a send timeout is eventually cancelled if it does
  not end, and so is the reader's call after `stop()`.
- `NodeLifecycle`: the transition that holds the lock, the tasks it cancelled, and
  whoever waits for the lock. Clients, dials and handlers need not do anything: a
  handler that never returns is cancelled by the transition.
- `Reconnect`: timers fire, attempts and close calls end; sessions need not break
  and observations need not come.
- `Discovery`: time passes and late datagrams leave the network. `Tracked` also
  needs an application that calls `discover()` again and again, a network that
  does not lose every answer, and a discovery window shorter than the TTL (strong
  fairness of an announcement during a call, and of a call ending with an answer).
- `Session`: handlers end, the deadlines of `request()`, `reply()` and of the
  heartbeat fire; a closed socket with unread data in it resets the connection
  (`Reset` under a full transport); nobody has to send.

`Correlations` has safety properties only and assumes no fairness.

## Findings

Each of these is a run that TLC must find violated, and `PROJECT.json` quotes
the documentation it disagrees with.

1. With the WAIT policy, the writer's last drain wakes blocked senders, who
   then put their frames in a queue without a writer and wait for ever. When
   the sender is the reader (ACK, PONG) there is no deadline, so the session is
   never torn down (`node.py:1633`).
2. A `connect()` whose only caller is cancelled leaves a READY session without
   a reader; later `connect()` calls return it as it is (`node.py:683`).
3. Two handlers that call `stop()` at the same time deadlock the node. The
   transition of the first cancels and awaits the worker of the second, which
   holds its cancellation back until its own transition is done, which waits for
   the lifecycle lock (`node.py:465`, `523-530`). The same program on the real
   library does not stop.
4. Two nodes that send to each other over full socket buffers stop for good: each
   reader waits for its ACK to be written and reads nothing meanwhile
   (`node.py:1043`). The heartbeat waits behind the same writer, and its deadline
   only starts when the PING has been written (`node.py:1216-1218`), so it does not
   close the connection. Two real nodes on the loopback interface with large
   concurrent sends show the same.

Also seen while modelling, without a run of their own:

- Overlapping close calls share one flag: the first to finish removes the peer
  from `_closing_peers`, and an attempt whose cancellation was absorbed is then
  installed while the other close call waits for it (`manager.py:167`). This is
  why `CloseWins` exempts a `close_peer` whose attempt absorbs its cancellation.
- `close_peer` cancelled while it gathers the attempt it popped never closes the
  connection it popped (`manager.py:160-163`). `NoLeak` names this as its one
  exemption, `abandoned`.
- `disconnect()` cancels the attempt that other `connect()` callers share; they
  get a CancelledError though nobody cancelled them (`manager.py:161`).
- In a simultaneous open, the node whose dial has just succeeded can find its
  session replaced when `connect()` resumes; it then calls `close_peer`, which
  refuses the winner as well, and both connections are lost (`node.py:677`,
  `gaveUp`). When the attempt was a reconnect loop's, the loop ends with it and
  none is scheduled again (`node.py:1324`).
- The reader of a connection that lost the selection can end before the winner
  is published in the manager; it then reports DISCONNECTED and schedules a
  reconnect (`node.py:1139-1156`).
- An attempt cancelled inside `_retire_replaced_connection`, after it registered
  its session, leaves the session and its writer behind (`node.py:920`).
- When a new session displaces one whose connection is closed, the calls that
  wait on the old one are left to its reader (`node.py:1086`). An outbound
  connection without a reader (finding 2) leaves them to their deadlines.
- A second cancellation of `start()` during the gather of its rollback ends the
  rollback there (`node.py:340`).
- A loop that `connect()` cancelled may leave the state at RECONNECTING when the
  observation expires before the attempt (`docs/reliability.md:21` says otherwise);
  `ReconnectingEnds` therefore assumes an observation that stays fresh.
- A wall clock that steps back makes `_remember` keep the older of two
  observations (`node.py:2061`).
- `stop()` forgets, but `docs/discovery.md:91-92` goes further: "A later `start()`
  therefore requires new discovery before opening a new outgoing session". A
  `DiscoveredPeer` that the application kept and that is still fresh can be handed to
  `connect()`, which dials and remembers it (`node.py:2067`, `675`).
- `close()` has no deadline for the flush (`lan/connection.py:149`): whoever closes a
  connection whose peer does not read waits with it.
- `is_closed` is also true at the end of the peer's stream (`at_eof`). The manager
  takes such a connection for closed and does not close its own socket
  (`manager.py:227`, `248`); in the model it counts as closed.
- A `start_server` cancelled in its last `sleep(0)` leaves a listening socket
  behind (`listener.py:117`); the model rolls back to none.
- A worker that dies is replaced by its done callback, one turn of the loop later
  (`node.py:1444-1458`); `WorkerDies` does both at once.
- A reader blocked on a full inbound queue stops all reading of its connection,
  ACKs and replies included. This is documented (`docs/reliability.md:148-149`);
  `NotStuck` shows that it ends, by the deadline of the handler's request.

## Proofs

### ConnectionManagerProofs

The proofs assume only `ConstantsAssumption`: tasks, inbound connections and
`None` are distinct, and `All` is not a `close_peer` call. The sets may be empty
or infinite.

- `TypeCorrect`: `Spec => []TypeOK`.
- `ConnectionsDoNotLeak`: `Spec => []NoLeak`. NoLeak is inductive relative to
  the types: each step hands an open connection on to someone who answers for
  it.
- `StatesAgree`: `Spec => []StateAgrees`. The strengthening `StateInv` adds
  that CLOSING excludes an attempt in flight, that the closing flags exclude a
  stored connection, that close_all has seen any peer it must finish at CLOSED,
  that nobody is CONNECTING through a task that has published already, and that
  a task that closed its own connection has another one to publish.
- `OneAttemptAtATime` and `CloseBeatsConnect`: SingleFlight and CloseWins. Two
  attempts can be alive at once: a close call has popped one, is still waiting for
  it, and its cancellation is on its way or was absorbed. SingleFlight says that
  this is the only case. Both follow from `FlightInv`: a task that
  is alive and that no close call has popped is the one in flight; a popped task
  is out of the maps as long as its close call waits (`Popped`); and, for
  `close_all` and for tasks whose cancellation is delivered, it is cancelled,
  failed, or, with `close_all`, sure to see its flag before it installs (`Doomed`). The last
  part is why `close_all` wins even over an absorbed cancellation, and what a
  `close_peer` cannot have, as another close call may clear its flag.

### CorrelationsProofs

The proofs assume that the limits are positive, the inbound connections are
connections and `None` is not one; calls and connections may be infinitely many.

- `TypeCorrect`: `Spec => []TypeOK`, which includes that the tables of requests
  and ACKs are finite and within their limits.
- `TablesAreExact`, `WaitsAreOwned`, `AnswersAreExact`, `HeartbeatIsJust`:
  TablesExact, Owned, ExactConnection and NoFalseAlarm.

All follow from the inductive invariant `Inv`, the conjunction of TypeOK, the
three state properties and `WaitInv`. `WaitInv` is needed because the tables
alone do not say which call may register where: a session in the table belongs
to a running node and its connection has not been read to its end (or a new call
could wait there unowned); each table holds its own kind of call; a call only
waits for its reply after its ACK was read; a pending future has not been
answered, so a deadline that passes over one passes over an unanswered call; and a
call that timed out did so after its deadline. The last two give NoFalseAlarm. It
does not say that an answer read after the deadline is still returned, nor that the
heartbeat looks again before it closes: neither is so.

### OutboundChannelProofs

The proofs assume that `MaxQueue` is positive, that the calls with a deadline are
calls and that `None` is not one. They cover both backpressure policies.

- `TypeCorrect`: `Spec => []TypeOK`.
- `SuccessIsReal`: ReturnedMeansWritten.
- `NothingIsLost`: Accounted.
- `WakeupsAreNotLost`: NoLostWakeup.

The invariant `Kept` adds what these leave open. The deque of putters holds the
calls blocked in `put()`, each once, so a wake-up is never spent on a call that
has left (`Blocked`). What is queued or in the writer's hands belongs to a call
whose `put()` is over (`Owned`), and a write that failed has answered its call
(`InHand`). A call that has queued its frame and has no answer is with the
writer or in the queue (`Owed`), and a future is only resolved with success after
the write (`Real`). NoLostWakeup counts the woken calls, so `Promised` adds that they
are finitely many, even if the calls are not.

### SessionSelectionProofs

The proofs assume that the two nodes differ, that the connections they dial are
disjoint sets, that `None` is not one of them, and that the bounds are naturals.
The connections may be infinitely many and the bounds as large as one likes.

- `TypeCorrect`: `Spec => []TypeOK`.
- `NodesAgree`: Agreement. When nothing is left to do, the two nodes have the same
  live canonical connection, or neither has one; and they have one, unless a link
  failed or a `connect()` gave up.
- `NothingHalfDone`: Complete. At that moment, if no caller of `connect()` was ever
  cancelled, every other connection is closed, the canonical one has a reader, and
  the manager names it.

Both are about the moment when everything has come to rest, so the inductive
invariant `Sound` has to say how each unfinished matter will be finished:

- the tables, the tasks and the attempt in flight refer to the connections they
  should (`Directed`, `Refs`, `Flight`), and the hello, the selection and the close
  come in order (`Order`, `ClosedPast`, `Over`, `Greeted`);
- an end of stream has its cause at the other side (`EofCause`);
- a live connection that is not the canonical one is ending, or claimed by the task
  that replaced it and is about to close it (`Closers`). At the node with the
  smaller id this needs `SmallKnows`, that the manager has the replaced connection
  too, as `close_peer()` may cancel the very attempt that would have closed it;
- an installed connection that nobody reads is being replaced, or awaited by a
  caller of `connect()`, as long as no caller was cancelled (`Awaited`, `Expected`);
- once published, the live session is the one the manager has (`MgrKnows`);
- as long as no link failed and no `connect()` gave up, one favoured connection is
  never closed and never replaced: the one the smaller id dialled, else the one the
  greater id dialled (`Kept`, with `Alone`, `Preference`, `Ended` and `Tried`). That
  is why the two independent decisions leave a session.

There are many actions and each moves one connection of one node. `StepKinds` shows
once that a step is one of some 25 kinds, each with its effect on a single
connection, and every conjunct is then preserved kind by kind.

### SessionProofs

`SessionAssumption`: positive sizes, and a frame limit with room for the kind byte
and the largest message. The last is a duty that the documentation gives to whoever
configures a node (`docs/transports.md:63-65`); no check enforces it. `Configs` may
be any set of such configurations.

- `TypeCorrect`: `Spec => []TypeOK`.
- `HonestPeerNotRefused`: NoRefusal.
- `EndsAgree`: SessionsAgree.

Neither property speaks of what is in transit, so the invariant `Sound` does: on
the wire the hello comes first, then only frames that both ends must accept
(`HelloFirst`); before READY an end reads, queues and handles nothing
(`QuietBeforeReady`); and a session is the one the two configurations determine
(`SessionsSound`). That negotiation is symmetric in limit and capabilities is a
lemma of its own.

### ReconnectProofs

The proofs assume that `max_attempts` is positive and the names do not overlap.

- `TypeCorrect`: `Spec => []TypeOK`.
- `OneLoopAtATime`: OneLoop.
- `DisconnectIsFinal`: DisconnectHolds.

The invariant adds that a loop that may still fail has attempts left
(`AttemptsLeft`), and that a suppressed peer has no running loop, and an attempt in
flight only if it is one that a running `disconnect()` has yet to cancel
(`Suppressed`). DisconnectHolds alone says nothing of the moment between the
suppression and the cancellation.

### NodeLifecycleProofs

The proofs assume `AdapterAssumption` and `NodeAssumption`: distinct names, positive
limits, and finitely many dispatch workers.

- `TypeCorrect`: `Spec => []TypeOK`.
- `WorkersAreExact` and `DialsStayCurrent`: WorkersExact and DialsCurrent.
- `Refines`: `Spec => Implements`. The node with its adapter implements
  `Lifecycle`; `Lifecycle` states no fairness, so this is the whole of it.

The refinement needs that a stopped node holds nothing, which nobody decides in one
step. The invariant `Sound` follows each resource to whoever will release it: one
call has the lock exactly while a transition is under way (`Locked`); only the
listener of that transition is open (`OneListener`); what is up is still on the list
of what the transition has to stop (`ServicesUp`); every open connection is known to
somebody who will close it, the transport, a listener or the cleanup (`Known`,
`Reached`); and a node that does not run has cancelled every task it owns
(`TasksCancelled`, `WorkersSound`). The refinement then goes step by step: each kind
of step is a stutter, `Work`, or the one abstract transition it performs.

### DiscoveryProofs

`DiscoveryAssumption`: positive limits, finitely many peers, and `None` and `Shared`
distinct from peers and observations.

- `TypeCorrect`: `Spec => []TypeOK`, with the cache within its limit.
- `StopForgets`: NoGhosts. `stop()` empties every place an observation can be in, so
  wherever one is kept it is of the current run, or was handed to `connect()` by the
  application in the current run (`Current`).
- `NewestObservationWins`: NewestWins, the action property, from the same invariant:
  except as time passes, what the node knows of a peer is never replaced by an
  older observation.

### What is only model-checked

- Liveness: CallsAnswered, Settles, HostCallsReturn, ReconnectingEnds, Tracked and
  NotStuck. Fairness and ENABLED are outside this prover's reach, so these hold for
  the instances of their runs only.
- CallEnds, HasReader, CallsReturn and HeartbeatEnds, which are violated: TLC's
  counterexample is the result.

## Plan

What could follow, in this order:

1. An abstract registry of one session per peer that `ConnectionManager`
   implements, and the proof of that refinement. `NoLeak`, `StateAgrees` and
   `FlightInv` are most of the invariant it needs.
2. The composition of `SessionSelection` with `Reconnect` and with `stop()`, for two
   of the listed hazards that no property covers: an attempt cancelled or overtaken
   by `stop()` after its session was registered, and the end of the loser's reader
   between the selection and the publication.
3. The waits of a closed session that its successor deactivates: `Correlations`
   with the sessions that `SessionSelection` chooses.

## Not modelled

- Node events: best effort and one way. A full queue drops the new event, an
  observer's exception is logged, and nothing in the node reads the outcome.
- Serializers and envelopes, address parsing and interface enumeration, the
  set-up of TLS contexts, value types: no state, and no control of interest.
- Configuration checks and the arithmetic of backoff delays: the limits appear as
  constants with their assumptions, and a delay ends.
- The bytes of a frame's length prefix and `frame_payload_timeout`: a frame
  arrives whole or the connection ends.
- `compatibility_tests/`: a harness that drives two nodes from the outside.
