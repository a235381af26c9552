------------------------------ MODULE Reconnect ------------------------------
(***************************************************************************)
(* One node and one peer: connect(), disconnect(), a session that is lost   *)
(* or replaced, and the reconnect loop (core/node.py:587-688, 1121-1158,    *)
(* 1280-1339) over a manager reduced to its canonical connection, the       *)
(* attempt in flight, the closing flag and the logical state.               *)
(*                                                                          *)
(* A cancelled loop ends in the same step: its await ends within one turn   *)
(* of the event loop, and ending a session takes several.  The node stays   *)
(* running (see NodeLifecycle) and its policy enables reconnect.            *)
(***************************************************************************)
EXTENDS Naturals, FiniteSets

CONSTANTS
  Sessions,     \* READY sessions with the peer, one per connection
  Loops,        \* reconnect loop tasks
  Connects,     \* calls of connect()
  Disconnects,  \* calls of disconnect()
  MaxAttempts,  \* ReconnectPolicy.max_attempts, a number: None, the default, sets no limit
  None

ASSUME ReconnectAssumption ==
  /\ MaxAttempts \in Nat \ {0}
  /\ None \notin Sessions \cup Loops \cup Connects \cup Disconnects
  /\ Loops \cap Connects = {}

VARIABLES
  sess,        \* each session: new, registered, ending as the canonical one or not, ended
  open,        \* sessions whose connection is open
  canon,       \* _peer_connections[peer]
  mgr,         \* the manager's _connections[peer]
  state,       \* the manager's _states[peer]
  attempt,     \* an open task is in flight
  closing,     \* peer \in _closing_peers
  wait,        \* loops and connect() calls inside ConnectionManager.connect
  result,      \* what the attempt they awaited ended with
  known,       \* _known_peers[peer]: absent, fresh or expired
  suppressed,  \* peer \in _reconnect_suppressed
  entry,       \* _reconnect_tasks[peer]
  loop,        \* each loop task
  failures,    \* its local `attempt`
  seen,        \* its local `discovered` is still fresh
  connect,     \* each connect() call
  disconnect   \* each disconnect() call

table   == <<sess, open, canon>>
manager == <<mgr, state, attempt, closing>>
loops   == <<entry, loop, failures, seen>>
vars    == <<table, manager, wait, result, known, suppressed, loops, connect, disconnect>>

Waiters == Loops \cup Connects
Results == Sessions \cup {"none", "failed", "cancelled"}
LoopPCs == {"new", "top", "sleep", "attempt", "closePeer", "done", "gone"}

TypeOK ==
  /\ sess \in [Sessions -> {"new", "ready", "ending", "leaving", "ended"}]
  /\ open \subseteq Sessions
  /\ canon \in Sessions \cup {None} /\ mgr \in Sessions \cup {None}
  /\ state \in {"unset", "DISCONNECTED", "CONNECTING", "CONNECTED", "RECONNECTING",
                "CLOSING", "CLOSED"}
  /\ attempt \in BOOLEAN /\ closing \in BOOLEAN
  /\ wait \subseteq Waiters /\ result \in [Waiters -> Results]
  /\ known \in {"absent", "fresh", "expired"} /\ suppressed \in BOOLEAN
  /\ entry \in Loops \cup {None}
  /\ loop \in [Loops -> LoopPCs]
  /\ failures \in [Loops -> 0..MaxAttempts]
  /\ seen \in [Loops -> BOOLEAN]
  /\ connect \in [Connects -> {"new", "attempt", "closePeer", "done"}]
  /\ disconnect \in [Disconnects -> {"new", "session", "close", "closing", "done"}]

Init ==
  /\ sess = [s \in Sessions |-> "new"] /\ open = {} /\ canon = None
  /\ mgr = None /\ state = "unset" /\ attempt = FALSE /\ closing = FALSE
  /\ wait = {} /\ result = [x \in Waiters |-> "none"]
  /\ known = "fresh" /\ suppressed = FALSE
  /\ entry = None /\ loop = [l \in Loops |-> "new"]
  /\ failures = [l \in Loops |-> 0] /\ seen = [l \in Loops |-> FALSE]
  /\ connect = [c \in Connects |-> "new"] /\ disconnect = [d \in Disconnects |-> "new"]

-----------------------------------------------------------------------------
Live(s)  == IF s \in open THEN s ELSE None
NewOnes  == {s \in Sessions : sess[s] = "new"}
Fresh    == CHOOSE s \in NewOnes : TRUE
Running(l) == loop[l] \notin {"new", "done", "gone"}

\* A loop ends, by itself or cancelled; its done callback is still to run.
EndLoops(S) == loop' = [l \in Loops |-> IF l \in S /\ Running(l) THEN "done" ELSE loop[l]]

NewLoop == CHOOSE l \in Loops : loop[l] = "new"

StartLoop ==
  /\ \E l \in Loops : loop[l] = "new"
  /\ entry' = NewLoop
  /\ loop' = [loop EXCEPT ![NewLoop] = "top"]
  /\ UNCHANGED <<failures, seen>>

\* Mutant: the entry of a loop that has ended still counts.
Schedule_AnyEntry ==
  IF suppressed \/ known # "fresh" \/ entry # None
  THEN UNCHANGED loops
  ELSE StartLoop

\* _schedule_reconnect
Schedule ==
  IF suppressed \/ known # "fresh" \/ (entry # None /\ Running(entry))
  THEN UNCHANGED loops
  ELSE StartLoop

-----------------------------------------------------------------------------
(* Sessions *)

\* An inbound connection finishes its handshake.  It is refused while the peer is
\* closing, and displaces a session over an older connection.
InboundReady ==
  /\ NewOnes # {} /\ ~closing
  /\ canon' = Fresh /\ mgr' = Fresh /\ state' = "CONNECTED"
  /\ sess' = [sess EXCEPT ![Fresh] = "ready"]
  /\ open' = (open \ {canon, mgr}) \cup {Fresh}
  /\ UNCHANGED <<attempt, closing, wait, result, known, suppressed, loops, connect, disconnect>>

\* The remote end, the network or the heartbeat closes a connection.
ConnectionBreaks(s) ==
  /\ s \in open
  /\ open' = open \ {s}
  /\ UNCHANGED <<sess, canon, manager, wait, result, known, suppressed, loops, connect,
                 disconnect>>

\* The reader leaves its loop: _connection_ended up to its first await.
SessionEnds(s) ==
  /\ sess[s] = "ready" /\ s \notin open
  /\ sess' = [sess EXCEPT ![s] = IF canon = s THEN "ending" ELSE "leaving"]
  /\ canon' = IF canon = s THEN None ELSE canon
  /\ UNCHANGED <<open, manager, wait, result, known, suppressed, loops, connect, disconnect>>

\* connection_lost(), and, if the session was canonical or its connection the
\* manager's, DISCONNECTED and _schedule_reconnect.
SessionEnded(s) ==
  /\ sess[s] \in {"ending", "leaving"}
  /\ sess' = [sess EXCEPT ![s] = "ended"]
  /\ mgr' = IF mgr = s THEN None ELSE mgr
  /\ state' = IF mgr = s /\ ~closing THEN "DISCONNECTED" ELSE state
  /\ IF sess[s] = "ending" \/ mgr = s THEN Schedule ELSE UNCHANGED loops
  /\ UNCHANGED <<open, canon, attempt, closing, wait, result, known, suppressed, connect,
                 disconnect>>

-----------------------------------------------------------------------------
(* The shared attempt *)

\* ConnectionManager.connect, called by x without a live canonical session: refused
\* while closing, answered by a live canonical connection, or one more waiter.
Join(x, creating) ==
  IF closing
  THEN result' = [result EXCEPT ![x] = "failed"] /\ UNCHANGED <<manager, wait>>
  ELSE IF Live(mgr) # None
  THEN result' = [result EXCEPT ![x] = mgr] /\ UNCHANGED <<manager, wait>>
  ELSE /\ wait' = wait \cup {x}
       /\ result' = [result EXCEPT ![x] = "none"]
       /\ mgr' = None
       /\ state' = IF attempt THEN state ELSE creating
       /\ attempt' = TRUE
       /\ UNCHANGED closing

\* _remember: the observation the attempt was made with, which discover() may have
\* dropped since because it expired, is known again; it may have been refreshed.
Remember(r) ==
  IF r \in Sessions /\ known = "absent" THEN known' \in {"expired", "fresh"}
  ELSE UNCHANGED known

Answer(r) ==
  /\ wait' = {}
  /\ result' = [x \in Waiters |-> IF x \in wait THEN r ELSE result[x]]

\* The attempt yields a session: its own, or the inbound one that came first.
AttemptSucceeds ==
  /\ attempt
  /\ attempt' = FALSE /\ state' = "CONNECTED"
  /\ IF Live(canon) # None
     THEN mgr' = canon /\ Answer(canon) /\ UNCHANGED table
     ELSE /\ NewOnes # {}
          /\ canon' = Fresh /\ mgr' = Fresh /\ Answer(Fresh)
          /\ sess' = [sess EXCEPT ![Fresh] = "ready"] /\ open' = open \cup {Fresh}
  /\ UNCHANGED <<closing, known, suppressed, loops, connect, disconnect>>

AttemptFails ==
  /\ attempt
  /\ attempt' = FALSE
  /\ mgr' = Live(mgr)
  /\ state' = IF Live(mgr) = None THEN "DISCONNECTED" ELSE state
  /\ Answer("failed")
  /\ UNCHANGED <<closing, table, known, suppressed, loops, connect, disconnect>>

\* close_peer() up to its await: the canonical connection is closed, and whoever
\* awaits the attempt gets CancelledError.
ClosePeer ==
  /\ closing' = TRUE /\ state' = "CLOSING" /\ attempt' = FALSE
  /\ mgr' = None /\ open' = open \ {mgr}
  /\ IF attempt THEN Answer("cancelled") ELSE UNCHANGED <<wait, result>>

\* Its last locked section.
PeerClosed ==
  /\ closing' = FALSE
  /\ state' = IF mgr = None /\ ~attempt THEN "CLOSED" ELSE state
  /\ UNCHANGED <<mgr, attempt>>

\* The loop is cancelled and awaited.  One that is inside close_peer() runs the last
\* locked section of it on its way out.
CancelLoop ==
  /\ EndLoops({entry})
  /\ wait' = wait \ {entry}
  /\ IF entry # None /\ loop[entry] = "closePeer" THEN PeerClosed ELSE UNCHANGED manager
  /\ UNCHANGED result

-----------------------------------------------------------------------------
(* connect() *)

Connect(c) ==
  /\ connect[c] = "new"
  /\ known # "absent" \/ Live(canon) # None
  /\ suppressed' = FALSE
  /\ IF Live(canon) # None \/ known # "fresh"
     THEN connect' = [connect EXCEPT ![c] = "done"] /\ UNCHANGED <<manager, wait, result>>
     ELSE connect' = [connect EXCEPT ![c] = "attempt"] /\ Join(c, "CONNECTING")
  /\ UNCHANGED <<table, known, loops, disconnect>>

\* The attempt ended.  Success cancels the reconnect loop; a session that has been
\* lost meanwhile makes connect() close the peer and raise.
ConnectReturns(c) ==
  /\ connect[c] = "attempt" /\ c \notin wait
  /\ IF result[c] \in {"failed", "cancelled"}
     THEN /\ connect' = [connect EXCEPT ![c] = "done"]
          /\ UNCHANGED <<open, manager, wait, result, loop>>
     ELSE IF canon = result[c]
     THEN /\ connect' = [connect EXCEPT ![c] = "done"]
          /\ CancelLoop /\ UNCHANGED open
     ELSE /\ connect' = [connect EXCEPT ![c] = "closePeer"]
          /\ ClosePeer /\ UNCHANGED loop
  /\ Remember(result[c])
  /\ UNCHANGED <<sess, canon, suppressed, entry, failures, seen, disconnect>>

ConnectClosed(c) ==
  /\ connect[c] = "closePeer"
  /\ connect' = [connect EXCEPT ![c] = "done"]
  /\ PeerClosed
  /\ UNCHANGED <<table, wait, result, known, suppressed, loops, disconnect>>

-----------------------------------------------------------------------------
(* _reconnect_loop *)

\* Mutant: the attempts are counted from one.
Exhausted_OffByOne(l) == failures[l] >= MaxAttempts + 1

\* max_attempts is reached; with max_attempts = None this is never so.
Exhausted(l) == failures[l] >= MaxAttempts

\* The head of the loop: give up (mark_disconnected), or mark_reconnecting and sleep.
LoopTop(l) ==
  /\ loop[l] = "top"
  /\ mgr' = Live(mgr)
  /\ IF suppressed \/ Exhausted(l) \/ known # "fresh"
     THEN /\ loop' = [loop EXCEPT ![l] = "done"]
          /\ state' = IF Live(mgr) = None /\ ~closing THEN "DISCONNECTED" ELSE state
          /\ UNCHANGED seen
     ELSE /\ loop' = [loop EXCEPT ![l] = "sleep"]
          /\ seen' = [seen EXCEPT ![l] = TRUE]
          /\ state' = IF Live(mgr) = None /\ ~closing THEN "RECONNECTING" ELSE state
  /\ UNCHANGED <<table, attempt, closing, wait, result, known, suppressed, entry, failures,
                 connect, disconnect>>

\* The delay is over: _connect_discovered with the observation of before it.
LoopWakes(l) ==
  /\ loop[l] = "sleep"
  /\ IF suppressed \/ Live(canon) # None
     THEN loop' = [loop EXCEPT ![l] = "done"] /\ UNCHANGED <<manager, wait, result, failures>>
     ELSE IF ~seen[l]                              \* PeerExpiredError
     THEN /\ loop' = [loop EXCEPT ![l] = "top"]
          /\ failures' = [failures EXCEPT ![l] = @ + 1]
          /\ UNCHANGED <<manager, wait, result>>
     ELSE /\ loop' = [loop EXCEPT ![l] = "attempt"]
          /\ Join(l, "RECONNECTING") /\ UNCHANGED failures
  /\ UNCHANGED <<table, known, suppressed, entry, seen, connect, disconnect>>

\* The attempt ended: the loop ends with a session or a CancelledError, and goes on
\* after a failure; a session lost meanwhile counts as one, after close_peer().
LoopResumes(l) ==
  /\ loop[l] = "attempt" /\ l \notin wait
  /\ IF result[l] = "cancelled" \/ (result[l] \in Sessions /\ canon = result[l])
     THEN loop' = [loop EXCEPT ![l] = "done"]
          /\ UNCHANGED <<open, manager, wait, result, failures>>
     ELSE IF result[l] = "failed"
     THEN /\ loop' = [loop EXCEPT ![l] = "top"]
          /\ failures' = [failures EXCEPT ![l] = @ + 1]
          /\ UNCHANGED <<open, manager, wait, result>>
     ELSE loop' = [loop EXCEPT ![l] = "closePeer"] /\ ClosePeer /\ UNCHANGED failures
  /\ Remember(result[l])
  /\ UNCHANGED <<sess, canon, suppressed, entry, seen, connect, disconnect>>

LoopClosed(l) ==
  /\ loop[l] = "closePeer"
  /\ loop' = [loop EXCEPT ![l] = "top"]
  /\ failures' = [failures EXCEPT ![l] = @ + 1]
  /\ PeerClosed
  /\ UNCHANGED <<table, wait, result, known, suppressed, entry, seen, connect, disconnect>>

\* Mutant: the callback removes whatever entry there is.
LoopFinished_AnyEntry(l) ==
  /\ loop[l] = "done"
  /\ loop' = [loop EXCEPT ![l] = "gone"]
  /\ entry' = None
  /\ UNCHANGED <<table, manager, wait, result, known, suppressed, failures, seen, connect,
                 disconnect>>

\* _reconnect_finished
LoopFinished(l) ==
  /\ loop[l] = "done"
  /\ loop' = [loop EXCEPT ![l] = "gone"]
  /\ entry' = IF entry = l THEN None ELSE entry
  /\ UNCHANGED <<table, manager, wait, result, known, suppressed, failures, seen, connect,
                 disconnect>>

-----------------------------------------------------------------------------
(* disconnect() *)

\* Mutant: disconnect() leaves the loop alone.
Disconnect_KeepsLoop(d) ==
  /\ disconnect[d] = "new"
  /\ disconnect' = [disconnect EXCEPT ![d] = "session"]
  /\ suppressed' = TRUE
  /\ UNCHANGED <<table, manager, known, wait, result, loops, connect>>

\* Suppress, and cancel and await the loop.
Disconnect(d) ==
  /\ disconnect[d] = "new"
  /\ disconnect' = [disconnect EXCEPT ![d] = "session"]
  /\ suppressed' = TRUE
  /\ CancelLoop
  /\ UNCHANGED <<table, known, entry, failures, seen, connect>>

\* Take the session down, if there is one; the awaits of its heartbeat and writer.
DisconnectSession(d) ==
  /\ disconnect[d] = "session"
  /\ disconnect' = [disconnect EXCEPT ![d] = "close"]
  /\ canon' = None
  /\ UNCHANGED <<sess, open, manager, wait, result, known, suppressed, loops, connect>>

DisconnectCloses(d) ==
  /\ disconnect[d] = "close"
  /\ disconnect' = [disconnect EXCEPT ![d] = "closing"]
  /\ ClosePeer
  /\ UNCHANGED <<sess, canon, known, suppressed, loops, connect>>

Disconnected(d) ==
  /\ disconnect[d] = "closing"
  /\ disconnect' = [disconnect EXCEPT ![d] = "done"]
  /\ PeerClosed
  /\ UNCHANGED <<table, wait, result, known, suppressed, loops, connect>>

-----------------------------------------------------------------------------
(* Discovery *)

\* The observation ages past peer_ttl, the copies of it that loops hold with it.
Expire ==
  /\ known = "fresh" /\ known' = "expired"
  /\ seen' = [l \in Loops |-> FALSE]
  /\ UNCHANGED <<table, manager, wait, result, suppressed, entry, loop, failures, connect,
                 disconnect>>

\* An announcement refreshes the observation, and the loop's if it is the same object.
Announced ==
  /\ known = "expired" /\ known' = "fresh"
  /\ seen' \in {seen, [l \in Loops |-> TRUE]}
  /\ UNCHANGED <<table, manager, wait, result, suppressed, entry, loop, failures, connect,
                 disconnect>>

\* discover() drops an expired peer, or finds one anew.
Discover ==
  /\ \/ known = "expired" /\ known' = "absent"
     \/ known = "absent" /\ known' = "fresh"
  /\ UNCHANGED <<table, manager, wait, result, suppressed, loops, connect, disconnect>>

-----------------------------------------------------------------------------
LoopStep(l) == LoopTop(l) \/ LoopWakes(l) \/ LoopResumes(l) \/ LoopClosed(l) \/ LoopFinished(l)

Next ==
  \/ InboundReady \/ AttemptSucceeds \/ AttemptFails \/ Expire \/ Announced \/ Discover
  \/ \E s \in Sessions : ConnectionBreaks(s) \/ SessionEnds(s) \/ SessionEnded(s)
  \/ \E c \in Connects : Connect(c) \/ ConnectReturns(c) \/ ConnectClosed(c)
  \/ \E l \in Loops : LoopStep(l)
  \/ \E d \in Disconnects : Disconnect(d) \/ DisconnectSession(d) \/ DisconnectCloses(d)
                            \/ Disconnected(d)

\* Timers fire, attempts end (they have deadlines) and every ready task runs.
Fairness ==
  /\ \A l \in Loops : WF_vars(LoopStep(l))
  /\ \A s \in Sessions : WF_vars(SessionEnds(s) \/ SessionEnded(s))
  /\ WF_vars(AttemptSucceeds \/ AttemptFails)
  /\ WF_vars(\E c \in Connects : ConnectReturns(c) \/ ConnectClosed(c))
  /\ WF_vars(\E d \in Disconnects : DisconnectSession(d) \/ DisconnectCloses(d) \/ Disconnected(d))

Spec == Init /\ [][Next]_vars /\ Fairness

-----------------------------------------------------------------------------
(* Properties *)

\* At most one reconnect loop runs, and it is the one in _reconnect_tasks, where
\* disconnect(), connect() and stop() find it to cancel it.
OneLoop == \A l \in Loops : Running(l) => entry = l

Disconnecting == \E d \in Disconnects : disconnect[d] \in {"session", "close", "closing"}

\* disconnect() is final: when it has returned, and until connect() is called again,
\* no loop runs and no attempt is in flight, so only the peer can reconnect.
DisconnectHolds == suppressed /\ ~Disconnecting => ~attempt /\ \A l \in Loops : ~Running(l)

\* Reconnecting is bounded by a max_attempts that is not None: while the observation
\* of the peer stays fresh, finitely many lost sessions are followed by finitely many
\* attempts, after which the peer is no longer RECONNECTING, whatever connect() and
\* disconnect() do to the loop.
ReconnectingEnds == [](known = "fresh") => <>[](state # "RECONNECTING")
=============================================================================
