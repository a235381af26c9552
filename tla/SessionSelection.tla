-------------------------- MODULE SessionSelection --------------------------
(***************************************************************************)
(* Two nodes that dial each other: the hello exchange, the choice of the   *)
(* canonical READY connection, retiring the loser, publishing the winner   *)
(* in each node's ConnectionManager, the readers, and the end of a session *)
(* (core/node.py:587-688 and 863-1156 with the parts of core/manager.py    *)
(* they call).  A step is the code between two awaits of one task.         *)
(*                                                                         *)
(* A node's sessions are abstracted to its canonical connection: a session *)
(* is only registered after any other session of the peer is deactivated.  *)
(* Not here: message traffic, heartbeats, disconnect(), stop(), admission  *)
(* by max_connections, and events and reconnect after a loss.              *)
(***************************************************************************)
EXTENDS Naturals, FiniteSets

CONSTANTS
  Small, Large,          \* the nodes; Small has the lexicographically smaller id
  FromSmall, FromLarge,  \* the connections each of them may dial, one per attempt
  MaxConnects,           \* bound: connect() calls of both nodes
  MaxFaults,             \* bound: link failures, idle timeouts and cancelled callers
  None

Nodes == {Small, Large}
Conns == FromSmall \cup FromLarge

ASSUME ConstantsAssumption ==
  /\ Small # Large
  /\ FromSmall \cap FromLarge = {}
  /\ None \notin Conns
  /\ MaxConnects \in Nat /\ MaxFaults \in Nat

VARIABLES
  step,      \* step[n][c]: where n's task for connection c is
  loser,     \* loser[n][c]: the connection that task is retiring
  selected,  \* selected[n][c]: what n's attempt on c hands to the manager
  shut,      \* shut[n][c]: n closed its end of c
  eof,       \* eof[n][c]: the end of the stream has arrived at n
  canon,     \* _peer_connections[peer] of each node
  mgr,       \* its manager's _connections[peer]
  inFlight,  \* its manager's _in_flight[peer]
  closing,   \* its manager has the peer in _closing_peers
  waiter,    \* the attempt its connect() call awaits
  connects,  \* connect() calls made so far
  failed,    \* connections the network broke
  failures,  \* link failures and idle timeouts so far
  cancels,   \* cancelled connect() calls so far
  gaveUp     \* history: some connect() found no session and called close_peer()

local == <<step, loser, selected>>
link  == <<shut, eof, failed, failures>>
node  == <<canon, mgr, inFlight, closing>>
user  == <<waiter, connects, cancels, gaveUp>>
vars  == <<local, link, node, user>>

Steps == {"none", "dial", "pending", "hello", "retire", "retired", "closeOpened",
          "closePrev", "retirePrev", "retiredPrev", "installed", "reading", "ending",
          "ended"}

TypeOK ==
  /\ step \in [Nodes -> [Conns -> Steps]]
  /\ loser \in [Nodes -> [Conns -> Conns \cup {None}]]
  /\ selected \in [Nodes -> [Conns -> Conns \cup {None}]]
  /\ shut \in [Nodes -> [Conns -> BOOLEAN]] /\ eof \in [Nodes -> [Conns -> BOOLEAN]]
  /\ canon \in [Nodes -> Conns \cup {None}]
  /\ mgr \in [Nodes -> Conns \cup {None}]
  /\ inFlight \in [Nodes -> Conns \cup {None}]
  /\ closing \in [Nodes -> BOOLEAN]
  /\ waiter \in [Nodes -> Conns \cup {None}]
  /\ connects \in [Nodes -> 0..MaxConnects]
  /\ failed \subseteq Conns /\ failures \in 0..MaxFaults
  /\ cancels \in 0..MaxFaults /\ gaveUp \in BOOLEAN
  /\ \A n \in Nodes, c \in Conns :
       step[n][c] \in {"retire", "retired", "retirePrev", "retiredPrev"} => loser[n][c] # None

Init ==
  /\ step = [n \in Nodes |-> [c \in Conns |-> "none"]]
  /\ loser = [n \in Nodes |-> [c \in Conns |-> None]]
  /\ selected = [n \in Nodes |-> [c \in Conns |-> None]]
  /\ shut = [n \in Nodes |-> [c \in Conns |-> FALSE]]
  /\ eof = [n \in Nodes |-> [c \in Conns |-> FALSE]]
  /\ canon = [n \in Nodes |-> None]
  /\ mgr = [n \in Nodes |-> None]
  /\ inFlight = [n \in Nodes |-> None]
  /\ closing = [n \in Nodes |-> FALSE]
  /\ waiter = [n \in Nodes |-> None]
  /\ connects = [n \in Nodes |-> 0]
  /\ failed = {} /\ failures = 0 /\ cancels = 0 /\ gaveUp = FALSE

-----------------------------------------------------------------------------
Other(n)  == IF n = Small THEN Large ELSE Small
Dialer(c) == IF c \in FromSmall THEN Small ELSE Large
Dir(n, c) == IF Dialer(c) = n THEN "OUTBOUND" ELSE "INBOUND"

\* Its incoming or outgoing task has sent n's hello on c.
SentHello(n, c) == step[n][c] \notin {"none", "dial", "pending"}

\* is_closed: closed here, or end of stream with nothing left to read.
IsClosed(n, c) ==
  shut[n][c] \/ (eof[n][c] /\ step[n][c] \notin {"dial", "pending", "hello"})

\* connection_for_peer, and the manager's get_by_id.
LiveCanon(n) == IF canon[n] # None /\ ~IsClosed(n, canon[n]) THEN canon[n] ELSE None
LiveMgr(n)   == IF mgr[n] # None /\ ~IsClosed(n, mgr[n]) THEN mgr[n] ELSE None

\* What has gone wrong, and the connect() calls made so far.
Faults == failures + cancels
Connects == connects[Small] + connects[Large]

GoTo(n, c, s) == step' = [step EXCEPT ![n][c] = s]
Shut(n, S)    == shut' = [shut EXCEPT ![n] = [c \in Conns |-> shut[n][c] \/ c \in S]]

\* _deactivate_session(c) when `now` is the canonical connection.
Deactivated(now, c) == IF now = c THEN None ELSE now

-----------------------------------------------------------------------------
(* connect() and _connect_discovered *)

\* The connections n has not dialled yet, which are interchangeable.
Fresh(n) == {c \in Conns : Dialer(c) = n /\ step[n][c] = "none"}

\* No READY connection and none in the manager: join or create the attempt.
Connect(n) ==
  /\ waiter[n] = None /\ ~closing[n] /\ Connects < MaxConnects
  /\ LiveCanon(n) = None /\ LiveMgr(n) = None
  /\ connects' = [connects EXCEPT ![n] = @ + 1]
  /\ mgr' = [mgr EXCEPT ![n] = None]
  /\ IF inFlight[n] # None
     THEN waiter' = [waiter EXCEPT ![n] = inFlight[n]] /\ UNCHANGED <<inFlight, step>>
     ELSE LET c == CHOOSE x \in Fresh(n) : TRUE
          IN
            /\ Fresh(n) # {}
            /\ GoTo(n, c, "dial")
            /\ inFlight' = [inFlight EXCEPT ![n] = c]
            /\ waiter' = [waiter EXCEPT ![n] = c]
  /\ UNCHANGED <<loser, selected, link, canon, closing, cancels, gaveUp>>

\* close_peer() as called when the manager hands out a connection without a
\* session.  An attempt in flight is cancelled: its connection is closed, its
\* session, if it has one already, stays in the table.
ClosePeer(n) ==
  /\ mgr' = [mgr EXCEPT ![n] = None]
  /\ inFlight' = [inFlight EXCEPT ![n] = None]
  /\ closing' = [closing EXCEPT ![n] = mgr[n] # None \/ inFlight[n] # None]
  /\ step' = [step EXCEPT ![n] = [c \in Conns |-> IF c = inFlight[n] THEN "ended" ELSE step[n][c]]]
  /\ Shut(n, {mgr[n], inFlight[n]})
  /\ gaveUp' = TRUE

\* The manager still has a live connection whose session is being torn down.
ConnectStale(n) ==
  /\ waiter[n] = None /\ ~closing[n] /\ Connects < MaxConnects
  /\ LiveCanon(n) = None /\ LiveMgr(n) # None
  /\ connects' = [connects EXCEPT ![n] = @ + 1]
  /\ ClosePeer(n)
  /\ UNCHANGED <<loser, selected, eof, failed, failures, canon, waiter, cancels>>

ClosePeerReturns(n) ==
  /\ closing[n]
  /\ closing' = [closing EXCEPT ![n] = FALSE]
  /\ UNCHANGED <<local, link, canon, mgr, inFlight, user>>

\* Mutant: connect() returns the connection without starting its reader.
ConnectReturns_NoReader(n) ==
  /\ waiter[n] # None
  /\ step[n][waiter[n]] \in {"installed", "reading", "ending", "ended"}
  /\ inFlight[n] # waiter[n]
  /\ waiter' = [waiter EXCEPT ![n] = None]
  /\ UNCHANGED <<local, link, node, connects, cancels, gaveUp>>

\* The attempt succeeded: start the reader, or, if its connection has lost its
\* session meanwhile, close_peer() and raise.
ConnectReturns(n) ==
  /\ waiter[n] # None
  /\ step[n][waiter[n]] \in {"installed", "reading", "ending", "ended"}
  /\ inFlight[n] # waiter[n]
  /\ waiter' = [waiter EXCEPT ![n] = None]
  /\ LET sel == selected[n][waiter[n]]
     IN  IF sel = None                        \* the attempt failed
         THEN UNCHANGED <<step, mgr, inFlight, closing, shut, gaveUp>>
         ELSE IF canon[n] = sel
         THEN /\ step' = [step EXCEPT ![n][sel] = IF @ = "installed" THEN "reading" ELSE @]
              /\ UNCHANGED <<mgr, inFlight, closing, shut, gaveUp>>
         ELSE ClosePeer(n)
  /\ UNCHANGED <<loser, selected, eof, failed, failures, canon, connects, cancels>>

\* The caller gives up; the shared attempt goes on.
ConnectCancelled(n) ==
  /\ Faults < MaxFaults
  /\ cancels' = cancels + 1
  /\ waiter[n] # None
  /\ waiter' = [waiter EXCEPT ![n] = None]
  /\ UNCHANGED <<local, link, node, connects, gaveUp>>

-----------------------------------------------------------------------------
(* Transport and listener *)

Dialled(n, c) ==
  /\ step[n][c] = "dial"
  /\ step' = [step EXCEPT ![n][c] = "hello", ![Other(n)][c] = "pending"]
  /\ UNCHANGED <<loser, selected, link, node, user>>

\* _accept_loop hands the connection to its _run_incoming_connection task.
Accept(n, c) ==
  /\ step[n][c] = "pending"
  /\ GoTo(n, c, "hello")
  /\ UNCHANGED <<loser, selected, link, node, user>>

LinkFails(c) ==
  /\ Faults < MaxFaults
  /\ c \notin failed /\ \E n \in Nodes : SentHello(n, c)
  /\ failed' = failed \cup {c}
  /\ failures' = failures + 1
  /\ UNCHANGED <<local, shut, eof, node, user>>

DeliverEof(n, c) ==
  /\ shut[Other(n)][c] \/ c \in failed
  /\ ~eof[n][c] /\ ~shut[n][c] /\ step[n][c] # "none"
  /\ eof' = [eof EXCEPT ![n][c] = TRUE]
  /\ UNCHANGED <<local, shut, failed, failures, node, user>>

-----------------------------------------------------------------------------
(* Publishing the winner *)

\* Manager's locked section of _open_connection for n's attempt on c.
Install(n, c, sel) ==
  /\ mgr' = [mgr EXCEPT ![n] = sel]
  /\ selected' = [selected EXCEPT ![n][c] = sel]
  /\ IF mgr[n] \notin {None, sel}
     THEN /\ GoTo(n, c, "closePrev")
          /\ Shut(n, {mgr[n]})
          /\ UNCHANGED inFlight
     ELSE /\ GoTo(n, c, IF sel = c THEN "installed" ELSE "ended")
          /\ inFlight' = [inFlight EXCEPT ![n] = None]
          /\ UNCHANGED shut

\* adopt() and what follows it in _run_incoming_connection; `now` is the
\* canonical connection and l the loser the task has retired.
Adopt(n, c, now, l) ==
  /\ UNCHANGED <<selected, inFlight>>
  /\ loser' = [loser EXCEPT ![n][c] =
                 IF closing[n] \/ mgr[n] \in {None, c, l} THEN None ELSE mgr[n]]
  /\ IF closing[n]
     THEN /\ GoTo(n, c, "ended") /\ Shut(n, {c})
          /\ canon' = [canon EXCEPT ![n] = Deactivated(now, c)]
          /\ UNCHANGED mgr
     ELSE IF mgr[n] \notin {None, c, l}
     THEN /\ GoTo(n, c, "retirePrev")
          /\ mgr' = [mgr EXCEPT ![n] = c]
          /\ canon' = [canon EXCEPT ![n] = Deactivated(now, mgr[n])]
          /\ UNCHANGED shut
     ELSE IF now = c
     THEN /\ GoTo(n, c, "reading")
          /\ mgr' = [mgr EXCEPT ![n] = c]
          /\ canon' = [canon EXCEPT ![n] = c]
          /\ UNCHANGED shut
     ELSE /\ GoTo(n, c, "ended") /\ Shut(n, {c})
          /\ mgr' = [mgr EXCEPT ![n] = None]
          /\ canon' = [canon EXCEPT ![n] = now]

Publish(n, c, now, l) ==
  IF Dir(n, c) = "OUTBOUND"
  THEN /\ Install(n, c, c)
       /\ canon' = [canon EXCEPT ![n] = now]
       /\ loser' = [loser EXCEPT ![n][c] = None]
  ELSE Adopt(n, c, now, l)

-----------------------------------------------------------------------------
(* _select_ready_connection *)

\* Mutant: the two peer ids are not compared.
Preferred_Outbound(n) == "OUTBOUND"

Preferred(n) == IF n = Small THEN "OUTBOUND" ELSE "INBOUND"

\* c becomes canonical: there is no live session, or c has the preferred
\* direction and the existing session has the other one.
Wins(n, c) ==
  \/ LiveCanon(n) = None
  \/ Dir(n, c) = Preferred(n) /\ Dir(n, LiveCanon(n)) # Preferred(n)

\* Mutant: the loser is retired without looking whether there is one.
HelloDone_RetiresNone(n, c) ==
  /\ step[n][c] = "hello"
  /\ SentHello(Other(n), c)
  /\ Wins(n, c)
  /\ loser' = [loser EXCEPT ![n][c] = LiveCanon(n)]
  /\ canon' = [canon EXCEPT ![n] = c]
  /\ GoTo(n, c, "retire")
  /\ UNCHANGED <<selected, link, mgr, inFlight, closing, user>>

\* The remote hello has been read: select, and go on to the first await.
HelloDone(n, c) ==
  /\ step[n][c] = "hello"
  /\ SentHello(Other(n), c)
  /\ IF Wins(n, c)
     THEN LET old == LiveCanon(n)
          IN  IF old = None
              THEN Publish(n, c, c, None)
              ELSE /\ loser' = [loser EXCEPT ![n][c] = old]
                   /\ canon' = [canon EXCEPT ![n] = c]
                   /\ GoTo(n, c, "retire")
                   /\ UNCHANGED <<mgr, selected, inFlight, shut>>
     ELSE /\ Shut(n, {c})
          /\ selected' = [selected EXCEPT ![n][c] = LiveCanon(n)]
          /\ GoTo(n, c, IF Dir(n, c) = "OUTBOUND" THEN "closeOpened" ELSE "ended")
          /\ UNCHANGED <<loser, canon, mgr, inFlight>>
  /\ UNCHANGED <<eof, failed, failures, closing, user>>

\* Mutant: a failed attempt stays in flight.
HelloFails_StaysInFlight(n, c) ==
  /\ step[n][c] = "hello"
  /\ eof[n][c]
  /\ SentHello(Other(n), c) => c \in failed
  /\ GoTo(n, c, "ended")
  /\ Shut(n, {c})
  /\ UNCHANGED <<loser, selected, eof, failed, failures, node, user>>

\* The stream ends without the remote hello: the connection is closed and the
\* attempt fails.
HelloFails(n, c) ==
  /\ step[n][c] = "hello"
  /\ eof[n][c]
  /\ SentHello(Other(n), c) => c \in failed
  /\ GoTo(n, c, "ended")
  /\ Shut(n, {c})
  /\ IF inFlight[n] = c
     THEN /\ inFlight' = [inFlight EXCEPT ![n] = None]
          /\ mgr' = [mgr EXCEPT ![n] = LiveMgr(n)]
     ELSE UNCHANGED <<inFlight, mgr>>
  /\ UNCHANGED <<loser, selected, eof, failed, failures, canon, closing, user>>

\* _retire_replaced_connection: its writer is gone, now close the loser, ...
RetireCloses(n, c) ==
  /\ \/ step[n][c] = "retire" /\ GoTo(n, c, "retired")
     \/ step[n][c] = "retirePrev" /\ GoTo(n, c, "retiredPrev")
  /\ Shut(n, {loser[n][c]})
  /\ UNCHANGED <<loser, selected, eof, failed, failures, node, user>>

\* ... and publish the winner.
Retired(n, c) ==
  /\ step[n][c] = "retired"
  /\ Publish(n, c, canon[n], loser[n][c])
  /\ UNCHANGED <<eof, failed, failures, closing, user>>

\* The connection adopt() returned is closed: read, unless replaced meanwhile.
RetiredPrev(n, c) ==
  /\ step[n][c] = "retiredPrev"
  /\ IF canon[n] = c
     THEN GoTo(n, c, "reading") /\ UNCHANGED <<mgr, shut>>
     ELSE /\ GoTo(n, c, "ended") /\ Shut(n, {c})
          /\ mgr' = [mgr EXCEPT ![n] = Deactivated(@, c)]
  /\ loser' = [loser EXCEPT ![n][c] = None]
  /\ UNCHANGED <<selected, eof, failed, failures, canon, inFlight,
                 closing, user>>

\* The losing dial is closed: the attempt's result is the existing connection.
OpenedClosed(n, c) ==
  /\ step[n][c] = "closeOpened"
  /\ Install(n, c, selected[n][c])
  /\ UNCHANGED <<loser, eof, failed, failures, canon, closing, user>>

PreviousClosed(n, c) ==
  /\ step[n][c] = "closePrev"
  /\ GoTo(n, c, IF selected[n][c] = c THEN "installed" ELSE "ended")
  /\ inFlight' = [inFlight EXCEPT ![n] = None]
  /\ UNCHANGED <<loser, selected, link, canon, mgr, closing, user>>

-----------------------------------------------------------------------------
(* _read_connection and _connection_ended *)

\* The reader leaves its loop; _connection_ended up to its first await.
EndSession(n, c) ==
  /\ step[n][c] = "reading"
  /\ canon' = [canon EXCEPT ![n] = Deactivated(@, c)]
  /\ GoTo(n, c, "ending")
  /\ UNCHANGED <<loser, selected, shut, eof, failed, mgr, inFlight, closing, user>>

ReaderEnds(n, c) == IsClosed(n, c) /\ EndSession(n, c) /\ UNCHANGED failures

\* Idle timeout or protocol error: the connection is still open.
ReaderAborts(n, c) ==
  /\ Faults < MaxFaults
  /\ failures' = failures + 1
  /\ ~IsClosed(n, c)
  /\ EndSession(n, c)

\* connection_lost() and close().
SessionEnded(n, c) ==
  /\ step[n][c] = "ending"
  /\ GoTo(n, c, "ended")
  /\ Shut(n, {c})
  /\ mgr' = [mgr EXCEPT ![n] = Deactivated(@, c)]
  /\ UNCHANGED <<loser, selected, eof, failed, failures, canon, inFlight, closing, user>>

-----------------------------------------------------------------------------
ConnectionStep(n, c) ==
  \/ Dialled(n, c) \/ Accept(n, c) \/ DeliverEof(n, c)
  \/ HelloDone(n, c) \/ HelloFails(n, c)
  \/ RetireCloses(n, c) \/ Retired(n, c) \/ RetiredPrev(n, c)
  \/ OpenedClosed(n, c) \/ PreviousClosed(n, c)
  \/ ReaderEnds(n, c) \/ SessionEnded(n, c)

NodeStep(n) == ConnectReturns(n) \/ ClosePeerReturns(n)

Next ==
  \/ \E n \in Nodes : \/ Connect(n) \/ ConnectStale(n) \/ ConnectCancelled(n)
                      \/ NodeStep(n)
  \/ \E n \in Nodes, c \in Conns : ConnectionStep(n, c) \/ ReaderAborts(n, c)
  \/ \E c \in Conns : LinkFails(c)

\* As long as some task can run or TCP has something to deliver, one of them does:
\* less than the event loop gives, and enough, as every step uses something up.
SystemStep ==
  \/ \E n \in Nodes : NodeStep(n)
  \/ \E n \in Nodes, c \in Conns : ConnectionStep(n, c)
Fairness == WF_vars(SystemStep)

Spec == Init /\ [][Next]_vars /\ Fairness

-----------------------------------------------------------------------------
(* Properties *)

\* Nothing is under way at either node and every end of stream has arrived.
Quiescent ==
  /\ \A n \in Nodes : waiter[n] = None /\ inFlight[n] = None /\ ~closing[n]
  /\ \A n \in Nodes, c \in Conns :
       /\ step[n][c] \in {"none", "installed", "reading", "ended"}
       /\ step[n][c] = "reading" => ~IsClosed(n, c)
       /\ step[n][c] # "none" /\ (shut[Other(n)][c] \/ c \in failed)
            => eof[n][c] \/ shut[n][c]

\* Duplicate resolution agrees: once things settle, both nodes have the same
\* canonical READY connection, or neither has one; and it leaves one, over a link
\* that never failed and unless a connect() gave up on a session it had lost.
Agreement ==
  Quiescent =>
    /\ LiveCanon(Small) = LiveCanon(Large)
    /\ failures = 0 /\ ~gaveUp /\ Connects > 0
         => LiveCanon(Small) # None

\* Once things settle a node has closed its end of every connection except the
\* canonical one, and its manager and its session table name the same one.
NoStray ==
  Quiescent => \A n \in Nodes :
    /\ LiveMgr(n) = LiveCanon(n)
    /\ \A c \in Conns : step[n][c] # "none" => shut[n][c] \/ c = canon[n]

\* "Each READY connection has one reader task": once things settle the canonical
\* connection is being read.
HasReader ==
  Quiescent => \A n \in Nodes : LiveCanon(n) # None => step[n][LiveCanon(n)] = "reading"

\* While no connect() caller has been cancelled, the attempt, the incoming task
\* and the connect() that share the work of one session leave it complete: read,
\* known to the manager, and with every other connection closed.
Complete == cancels = 0 => NoStray /\ HasReader

\* Things always settle: no cycle of closing and replacing, no lost hand-over.
Settles == []<>Quiescent
=============================================================================
