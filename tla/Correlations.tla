---------------------------- MODULE Correlations ----------------------------
(***************************************************************************)
(* The pending requests, technical ACKs and heartbeat PINGs of one node:   *)
(* registration, resolution on the exact connection, deadlines and         *)
(* cancellation, and what a lost session, a replaced session and stop() do *)
(* to them (core/node.py:690-804, 1060-1278, 1757-1932).                   *)
(*                                                                         *)
(* A call is a send() with ACK, a request() or one PING of a heartbeat     *)
(* loop; it stands for its message or ping id too, which is unique.  A     *)
(* connection belongs to one peer for life, so the code's comparison of    *)
(* peer ids follows from its comparison of connections.  _queue_frame() is *)
(* reduced to its outcomes: the frame is written, or the call fails.       *)
(*                                                                         *)
(* A wait that ends early takes three steps: the deadline passes, which    *)
(* puts the timer's callback behind what the event loop has to do in this  *)
(* turn; the callback (or the caller's task.cancel()) cancels the future;  *)
(* and a turn later the task resumes, in its except and finally clauses.   *)
(* The reader may run between any two of them.                             *)
(***************************************************************************)
EXTENDS Naturals, FiniteSets

CONSTANTS
  Calls,         \* calls, each made at most once
  Conns,         \* physical connections; each has at most one session
  Inbound,       \* the ones that were accepted
  MaxRequests,   \* config.max_pending_requests
  MaxAcks,       \* config.max_pending_acknowledgements
  None

ASSUME ConstantsAssumption ==
  /\ Inbound \subseteq Conns
  /\ None \notin Conns
  /\ MaxRequests \in Nat \ {0} /\ MaxAcks \in Nat \ {0}

VARIABLES
  running,
  session,   \* session[c]: "none", "ready" (in _sessions) or "gone"
  open,      \* open[c]: not is_closed
  reader,    \* reader[c]: c's _read_connection task
  closing,   \* closing[c]: a teardown of c waits for its heartbeat task
  pc,        \* pc[k]: the await call k is in, or how it ended
  conn,      \* conn[k]: the connection call k uses
  form,      \* form[k]: what kind of call k is
  frame,     \* frame[k]: its frame
  doomed,    \* PINGs whose heartbeat task has been cancelled
  deadline,  \* deadline[k]: of the wait k is in: ahead, or passed, and then
             \* whether the awaited answer had been read by then (history)
  pendReq,   \* keys of _pending_requests
  pendAck,   \* keys of _pending_acknowledgements
  pendPing,  \* keys of _pending_heartbeats
  fut,       \* fut[k]: the future for its reply or PONG
  ackFut,    \* ackFut[k]: the future for its ACK
  answers,   \* history: calls whose reply or PONG was read on their connection
  acks       \* history: calls whose ACK was read on their connection

linkVars == <<running, session, open, reader, closing>>
waitVars == <<pendReq, pendAck, pendPing, fut, ackFut>>
history  == <<answers, acks>>
vars     == <<linkVars, pc, conn, form, frame, doomed, deadline, waitVars, history>>

Waiting  == {"queue", "ack", "answer"}
Ending   == {"expired", "cancelled", "close"}   \* the task is yet to clean up
Finished == {"ok", "raised"}
Forms    == {"send", "request", "acked request", "ping"}
Futures  == {"none", "pending", "result", "error", "cancelled"}

IsPing(k)     == form[k] = "ping"
WantsReply(k) == form[k] \in {"request", "acked request"}
WantsAck(k)   == form[k] \in {"send", "acked request"}

Bounded(S, n) == IsFiniteSet(S) /\ Cardinality(S) <= n

TypeOK ==
  /\ running \in BOOLEAN
  /\ session \in [Conns -> {"none", "ready", "gone"}]
  /\ open \in [Conns -> BOOLEAN]
  /\ reader \in [Conns -> {"idle", "reading", "ended"}]
  /\ closing \in [Conns -> BOOLEAN]
  /\ pc \in [Calls -> {"idle"} \cup Waiting \cup Ending \cup Finished]
  /\ conn \in [Calls -> Conns \cup {None}]
  /\ form \in [Calls -> Forms]
  /\ frame \in [Calls -> {"none", "queued", "written"}]
  /\ doomed \subseteq Calls
  /\ deadline \in [Calls -> {"ahead", "unanswered", "answered"}]
  /\ pendReq \subseteq Calls /\ Bounded(pendReq, MaxRequests)
  /\ pendAck \subseteq Calls /\ Bounded(pendAck, MaxAcks)
  /\ pendPing \subseteq Calls
  /\ fut \in [Calls -> Futures] /\ ackFut \in [Calls -> Futures]
  /\ answers \subseteq Calls /\ acks \subseteq Calls
  /\ \A k \in Calls : pc[k] = "idle" \/ conn[k] # None

Init ==
  /\ running = TRUE
  /\ session = [c \in Conns |-> "none"]
  /\ open = [c \in Conns |-> TRUE]
  /\ reader = [c \in Conns |-> "idle"]
  /\ closing = [c \in Conns |-> FALSE]
  /\ pc = [k \in Calls |-> "idle"]
  /\ conn = [k \in Calls |-> None]
  /\ form \in [Calls -> Forms]
  /\ frame = [k \in Calls |-> "none"]
  /\ doomed = {}
  /\ deadline = [k \in Calls |-> "ahead"]
  /\ pendReq = {} /\ pendAck = {} /\ pendPing = {}
  /\ fut = [k \in Calls |-> "none"] /\ ackFut = [k \in Calls |-> "none"]
  /\ answers = {} /\ acks = {}

-----------------------------------------------------------------------------
On(c)    == {k \in Calls : conn[k] = c}
Pings(c) == {k \in On(c) : IsPing(k) /\ pc[k] \in Waiting \cup Ending}

\* Only a future that is still pending changes.
Resolve(f, S, value) ==
  [k \in Calls |-> IF k \in S /\ f[k] = "pending" THEN value ELSE f[k]]

\* Mutant: the ACKs of the lost connection are forgotten.
FailPending_OnlyRequests(S) ==
  /\ pendReq' = pendReq \ S
  /\ fut' = Resolve(fut, pendReq \cap S, "error")
  /\ UNCHANGED <<pendAck, ackFut>>

\* _fail_pending_for_connection and _fail_all_pending.
FailPending(S) ==
  /\ pendReq' = pendReq \ S
  /\ pendAck' = pendAck \ S
  /\ fut' = Resolve(fut, pendReq \cap S, "error")
  /\ ackFut' = Resolve(ackFut, pendAck \cap S, "error")

-----------------------------------------------------------------------------
(* Sessions: selection, the reader, teardown, stop() *)

SessionReady(c) ==
  /\ running /\ session[c] = "none"
  /\ session' = [session EXCEPT ![c] = "ready"]
  /\ UNCHANGED <<running, open, reader, closing, pc, conn, form, frame, doomed,
                 deadline, waitVars, history>>

\* The incoming task, or the connect() caller when it resumes, starts to read
\* and starts the heartbeat.
ReaderStarts(c) ==
  /\ session[c] = "ready" /\ reader[c] = "idle"
  /\ reader' = [reader EXCEPT ![c] = "reading"]
  /\ UNCHANGED <<running, session, open, closing, pc, conn, form, frame, doomed,
                 deadline, waitVars, history>>

LinkCloses(c) ==
  /\ session[c] # "none" /\ open[c]
  /\ open' = [open EXCEPT ![c] = FALSE]
  /\ UNCHANGED <<running, session, reader, closing, pc, conn, form, frame, doomed,
                 deadline, waitVars, history>>

\* Another connection of the peer becomes READY and finds this one closed: it is
\* deactivated, and whoever is waiting on it is left to its reader.
Displace(c) ==
  /\ session[c] = "ready" /\ ~open[c]
  /\ session' = [session EXCEPT ![c] = "gone"]
  /\ UNCHANGED <<running, open, reader, closing, pc, conn, form, frame, doomed,
                 deadline, waitVars, history>>

\* The first section of _retire_replaced_connection, _connection_ended and
\* disconnect(), up to awaiting the cancelled heartbeat task.
Teardown(c) ==
  /\ session' = [session EXCEPT ![c] = "gone"]
  /\ FailPending(On(c))
  /\ doomed' = doomed \cup Pings(c)
  /\ closing' = [closing EXCEPT ![c] = TRUE]
  /\ UNCHANGED <<running, open, pc, conn, form, frame, deadline, pendPing, history>>

\* The session lost the selection, or the user calls disconnect().
Retire(c) == session[c] = "ready" /\ Teardown(c) /\ UNCHANGED reader

EndReader(c) ==
  /\ reader[c] = "reading"
  /\ reader' = [reader EXCEPT ![c] = "ended"]
  /\ Teardown(c)

ReaderEnds(c) == (~open[c] \/ ~running) /\ EndReader(c)

\* Idle timeout or protocol error: the connection is still open.
ReaderAborts(c) == open[c] /\ running /\ EndReader(c)

TeardownCloses(c) ==
  /\ closing[c] /\ Pings(c) = {}
  /\ closing' = [closing EXCEPT ![c] = FALSE]
  /\ open' = [open EXCEPT ![c] = FALSE]
  /\ UNCHANGED <<running, session, reader, pc, conn, form, frame, doomed, deadline,
                 waitVars, history>>

\* An incoming task ends before it reads.
IncomingEnds(c) ==
  /\ c \in Inbound /\ session[c] # "none" /\ reader[c] = "idle"
  /\ session' = [session EXCEPT ![c] = "gone"]
  /\ reader' = [reader EXCEPT ![c] = "ended"]
  /\ open' = [open EXCEPT ![c] = FALSE]
  /\ FailPending(On(c))
  /\ UNCHANGED <<running, closing, pc, conn, form, frame, doomed, deadline, pendPing, history>>

\* _fail_all_pending, _fail_all_heartbeats, and the cancellation of the tasks.
Stop ==
  /\ running
  /\ running' = FALSE
  /\ session' = [c \in Conns |-> IF session[c] = "none" THEN "none" ELSE "gone"]
  /\ open' = [c \in Conns |-> FALSE]
  /\ pendReq' = {} /\ pendAck' = {} /\ pendPing' = {}
  /\ fut' = Resolve(Resolve(fut, pendReq, "error"), pendPing, "cancelled")
  /\ ackFut' = Resolve(ackFut, pendAck, "error")
  /\ doomed' = doomed \cup UNION {Pings(c) : c \in Conns}
  /\ UNCHANGED <<reader, closing, pc, conn, form, frame, deadline, history>>

-----------------------------------------------------------------------------
(* The calls *)

\* The histories keep the answers of calls under way and of those that returned.
Kept(H, k, outcome) == IF outcome = "ok" THEN H ELSE H \ {k}

\* Mutant: the finally clause leaves the entry of an unanswered request.
Finish_KeepsUnanswered(k, outcome) ==
  /\ pc' = [pc EXCEPT ![k] = outcome]
  /\ pendAck' = pendAck \ {k} /\ pendPing' = pendPing \ {k}
  /\ fut' = [fut EXCEPT ![k] = "none"] /\ ackFut' = [ackFut EXCEPT ![k] = "none"]
  /\ deadline' = [deadline EXCEPT ![k] = "ahead"] /\ doomed' = doomed \ {k}
  /\ answers' = Kept(answers, k, outcome) /\ acks' = Kept(acks, k, outcome)
  /\ UNCHANGED <<linkVars, conn, form, frame, pendReq>>

\* The finally clauses: the call ends, its entries are removed and a future
\* nobody completed is cancelled; both are garbage now, and so is the timer.
Finish(k, outcome) ==
  /\ pc' = [pc EXCEPT ![k] = outcome]
  /\ pendReq' = pendReq \ {k} /\ pendAck' = pendAck \ {k} /\ pendPing' = pendPing \ {k}
  /\ fut' = [fut EXCEPT ![k] = "none"] /\ ackFut' = [ackFut EXCEPT ![k] = "none"]
  /\ deadline' = [deadline EXCEPT ![k] = "ahead"] /\ doomed' = doomed \ {k}
  /\ answers' = Kept(answers, k, outcome) /\ acks' = Kept(acks, k, outcome)
  /\ UNCHANGED <<linkVars, conn, form, frame>>

\* Mutant: the limits are compared with > instead of >=.
NoRoom_OffByOne(k) ==
  \/ WantsReply(k) /\ Cardinality(pendReq) > MaxRequests
  \/ WantsAck(k) /\ Cardinality(pendAck) > MaxAcks

NoRoom(k) ==
  \/ WantsReply(k) /\ Cardinality(pendReq) >= MaxRequests
  \/ WantsAck(k) /\ Cardinality(pendAck) >= MaxAcks

\* connect() has returned c: register, and start to queue the frame.  A request
\* whose ACK finds no room is removed again before the call raises.
Call(k, c) ==
  /\ ~IsPing(k) /\ pc[k] = "idle"
  /\ running /\ session[c] = "ready"
  /\ conn' = [conn EXCEPT ![k] = c]
  /\ IF NoRoom(k)
     THEN /\ pc' = [pc EXCEPT ![k] = "raised"]
          /\ UNCHANGED <<frame, pendReq, pendAck, fut, ackFut>>
     ELSE /\ pc' = [pc EXCEPT ![k] = "queue"]
          /\ frame' = [frame EXCEPT ![k] = "queued"]
          /\ pendReq' = IF WantsReply(k) THEN pendReq \cup {k} ELSE pendReq
          /\ pendAck' = IF WantsAck(k) THEN pendAck \cup {k} ELSE pendAck
          /\ fut' = [fut EXCEPT ![k] = IF WantsReply(k) THEN "pending" ELSE @]
          /\ ackFut' = [ackFut EXCEPT ![k] = IF WantsAck(k) THEN "pending" ELSE @]
  /\ UNCHANGED <<linkVars, form, doomed, deadline, pendPing, history>>

\* Mutant: the PING is queued before its PONG is registered.
Ping_RegistersLate(k, c) ==
  /\ IsPing(k) /\ pc[k] = "idle"
  /\ running /\ open[c] /\ session[c] = "ready" /\ reader[c] # "idle"
  /\ Pings(c) = {}
  /\ conn' = [conn EXCEPT ![k] = c]
  /\ pc' = [pc EXCEPT ![k] = "queue"]
  /\ frame' = [frame EXCEPT ![k] = "queued"]
  /\ fut' = [fut EXCEPT ![k] = "pending"]
  /\ UNCHANGED <<linkVars, form, doomed, deadline, pendReq, pendAck, pendPing, ackFut, history>>

\* The heartbeat task has slept for an interval without a frame.
Ping(k, c) ==
  /\ IsPing(k) /\ pc[k] = "idle"
  /\ running /\ open[c] /\ session[c] = "ready" /\ reader[c] # "idle"
  /\ Pings(c) = {}
  /\ conn' = [conn EXCEPT ![k] = c]
  /\ pc' = [pc EXCEPT ![k] = "queue"]
  /\ frame' = [frame EXCEPT ![k] = "queued"]
  /\ pendPing' = pendPing \cup {k}
  /\ fut' = [fut EXCEPT ![k] = "pending"]
  /\ UNCHANGED <<linkVars, form, doomed, deadline, pendReq, pendAck, ackFut, history>>

\* The writer sends a queued frame, also when its caller has given up.
FrameWritten(k) ==
  /\ frame[k] = "queued" /\ open[conn[k]]
  /\ frame' = [frame EXCEPT ![k] = "written"]
  /\ UNCHANGED <<linkVars, pc, conn, form, doomed, deadline, waitVars, history>>

QueueReturns(k) ==
  /\ pc[k] = "queue" /\ frame[k] = "written"
  /\ pc' = [pc EXCEPT ![k] = IF WantsAck(k) THEN "ack" ELSE "answer"]
  /\ deadline' = [deadline EXCEPT ![k] = "ahead"]
  /\ UNCHANGED <<linkVars, conn, form, frame, doomed, waitVars, history>>

\* The queue is full under the fail-fast policy, or the write fails.
QueueFails(k) == pc[k] = "queue" /\ frame[k] = "queued" /\ Finish(k, "raised")

AckReturns(k) ==
  /\ pc[k] = "ack"
  /\ \/ ackFut[k] = "error" /\ Finish(k, "raised")
     \/ ackFut[k] = "result" /\ ~WantsReply(k) /\ Finish(k, "ok")
     \/ /\ ackFut[k] = "result" /\ WantsReply(k)
        /\ pc' = [pc EXCEPT ![k] = "answer"]
        /\ deadline' = [deadline EXCEPT ![k] = "ahead"]
        /\ UNCHANGED <<linkVars, conn, form, frame, doomed, waitVars, history>>

AnswerReturns(k) ==
  /\ pc[k] = "answer"
  /\ \/ fut[k] = "result" /\ Finish(k, "ok")
     \/ fut[k] = "error" /\ Finish(k, "raised")

\* What k waits for has been read.
Answered(k) ==
  \/ pc[k] = "ack" /\ k \in acks
  \/ pc[k] = "answer" /\ k \in answers

\* The deadline of the write, the ACK, the reply or the PONG passes: the timer is
\* in the event loop's ready queue.  A timer that comes due after the future was
\* completed runs behind the task's wake-up, which cancels it.  The write of a
\* PING has no deadline.
DeadlinePasses(k) ==
  /\ pc[k] \in Waiting /\ deadline[k] = "ahead"
  /\ IsPing(k) => pc[k] = "answer"
  /\ pc[k] = "ack" => ackFut[k] = "pending"
  /\ pc[k] = "answer" => fut[k] = "pending"
  /\ deadline' = [deadline EXCEPT ![k] = IF Answered(k) THEN "answered" ELSE "unanswered"]
  /\ UNCHANGED <<linkVars, pc, conn, form, frame, doomed, waitVars, history>>

\* The wait ends early: the future it awaits is cancelled unless it is done.
EndWait(k, how) ==
  /\ pc' = [pc EXCEPT ![k] = how]
  /\ fut' = IF pc[k] = "answer" THEN Resolve(fut, {k}, "cancelled") ELSE fut
  /\ ackFut' = IF pc[k] = "ack" THEN Resolve(ackFut, {k}, "cancelled") ELSE ackFut
  /\ UNCHANGED <<linkVars, conn, form, frame, doomed, deadline, pendReq, pendAck,
                 pendPing, history>>

\* The timer's callback in wait_for().  The answer may have been read since the
\* deadline passed: Python 3.12 and later raise TimeoutError all the same, earlier
\* ones return the result (AckReturns and AnswerReturns).
Timeout(k) ==
  /\ pc[k] \in Waiting /\ deadline[k] # "ahead" /\ k \notin doomed
  /\ EndWait(k, "expired")

\* The caller's task is cancelled.
Cancelled(k) == ~IsPing(k) /\ pc[k] \in Waiting /\ EndWait(k, "cancelled")

\* The task resumes with the TimeoutError or the CancelledError.
Raised(k) == ~IsPing(k) /\ pc[k] \in {"expired", "cancelled"} /\ Finish(k, "raised")

\* The heartbeat loop resumes with the TimeoutError: it closes the connection, with
\* its entry still in the table, without looking whether a PONG came since.
PingTimeout(k) ==
  /\ IsPing(k) /\ pc[k] = "expired" /\ k \notin doomed
  /\ pc' = [pc EXCEPT ![k] = "close"]
  /\ open' = [open EXCEPT ![conn[k]] = FALSE]
  /\ UNCHANGED <<running, session, reader, closing, conn, form, frame, doomed,
                 deadline, waitVars, history>>

PingCloses(k) == pc[k] = "close" /\ Finish(k, "raised")

HeartbeatCancelled(k) ==
  /\ k \in doomed /\ pc[k] \in Waiting \cup {"expired"}
  /\ Finish(k, "raised")

-----------------------------------------------------------------------------
(* What the reader of c does with an answer to k.  Answers may be late, *)
(* repeated, in any order, or come on another connection.               *)

Reads(c, k) == running /\ reader[c] = "reading" /\ frame[k] = "written"

\* The histories are about calls under way; a late answer changes nothing.
Note(H, k) == IF pc[k] \in Finished THEN H ELSE H \cup {k}

\* Mutant: a reply completes the request whatever connection it came on.
ReceiveReply_AnyConnection(c, k) ==
  /\ Reads(c, k) /\ WantsReply(k)
  /\ answers' = IF conn[k] = c THEN Note(answers, k) ELSE answers
  /\ pendReq' = pendReq \ {k}
  /\ fut' = Resolve(fut, {k} \cap pendReq, "result")
  /\ UNCHANGED <<linkVars, pc, conn, form, frame, doomed, deadline, pendAck, pendPing,
                 ackFut, acks>>

\* _resolve_reply.
ReceiveReply(c, k) ==
  /\ Reads(c, k) /\ WantsReply(k)
  /\ IF conn[k] = c
     THEN /\ answers' = Note(answers, k)
          /\ pendReq' = pendReq \ {k}
          /\ fut' = Resolve(fut, {k} \cap pendReq, "result")
     ELSE UNCHANGED <<answers, pendReq, fut>>
  /\ UNCHANGED <<linkVars, pc, conn, form, frame, doomed, deadline, pendAck, pendPing,
                 ackFut, acks>>

\* _resolve_acknowledgement.
ReceiveAck(c, k) ==
  /\ Reads(c, k) /\ WantsAck(k)
  /\ IF conn[k] = c
     THEN /\ acks' = Note(acks, k)
          /\ pendAck' = pendAck \ {k}
          /\ ackFut' = Resolve(ackFut, {k} \cap pendAck, "result")
     ELSE UNCHANGED <<acks, pendAck, ackFut>>
  /\ UNCHANGED <<linkVars, pc, conn, form, frame, doomed, deadline, pendReq, pendPing,
                 fut, answers>>

\* _resolve_heartbeat.
ReceivePong(c, k) ==
  /\ Reads(c, k) /\ IsPing(k)
  /\ IF conn[k] = c
     THEN /\ answers' = Note(answers, k)
          /\ pendPing' = pendPing \ {k}
          /\ fut' = Resolve(fut, {k} \cap pendPing, "result")
     ELSE UNCHANGED <<answers, pendPing, fut>>
  /\ UNCHANGED <<linkVars, pc, conn, form, frame, doomed, deadline, pendReq, pendAck,
                 ackFut, acks>>

-----------------------------------------------------------------------------
Next ==
  \/ Stop
  \/ \E c \in Conns :
       \/ SessionReady(c) \/ ReaderStarts(c) \/ LinkCloses(c) \/ Displace(c)
       \/ Retire(c) \/ ReaderEnds(c) \/ ReaderAborts(c) \/ TeardownCloses(c)
       \/ IncomingEnds(c)
  \/ \E k \in Calls :
       \/ FrameWritten(k) \/ QueueReturns(k) \/ QueueFails(k)
       \/ AckReturns(k) \/ AnswerReturns(k)
       \/ DeadlinePasses(k) \/ Timeout(k) \/ Cancelled(k) \/ Raised(k)
       \/ PingTimeout(k) \/ PingCloses(k) \/ HeartbeatCancelled(k)
  \/ \E c \in Conns, k \in Calls :
       \/ Call(k, c) \/ Ping(k, c)
       \/ ReceiveReply(c, k) \/ ReceiveAck(c, k) \/ ReceivePong(c, k)

Spec == Init /\ [][Next]_vars

-----------------------------------------------------------------------------
(* Properties *)

\* "Remove the pending entry in every terminal path": an entry and its unfinished
\* future come and go together and belong to a call that is still under way, so
\* no slot of the limits is lost and no call waits for a future nobody can find.
\* Only a call whose wait has just been ended by its deadline or a cancellation,
\* and whose finally clauses are yet to run, may have an entry without one.
TablesExact ==
  \A k \in Calls :
    /\ fut[k] = "pending" => k \in pendReq \cup pendPing
    /\ k \in pendReq \cup pendPing => fut[k] = "pending" \/ pc[k] \in Ending
    /\ ackFut[k] = "pending" => k \in pendAck
    /\ k \in pendAck => ackFut[k] = "pending" \/ pc[k] \in Ending
    /\ k \in pendReq \cup pendAck \cup pendPing => pc[k] \in Waiting \cup Ending

\* Nobody waits on a connection after its reader has ended, nor after stop():
\* whichever teardown came first, the waiting calls have been failed.
Owned == \A k \in pendReq \cup pendAck : running /\ reader[conn[k]] # "ended"

\* Late, repeated and foreign answers complete nothing: a call is completed by an
\* answer to it, read on the connection it was sent on.
ExactConnection ==
  \A k \in Calls :
    /\ fut[k] = "result" => k \in answers
    /\ ackFut[k] = "result" => k \in acks
    /\ pc[k] = "ok" => /\ WantsAck(k) => k \in acks
                       /\ form[k] # "send" => k \in answers

\* A call gives up, and the heartbeat closes its connection, only if what it waited
\* for had not been read when its deadline passed.  An answer read after that, but
\* before the timer's callback, the task or close() has run, need not save it: on
\* Python 3.12 and later even a PONG that has completed the future does not.
NoFalseAlarm ==
  \A k \in Calls : pc[k] \in {"expired", "close"} => deadline[k] = "unanswered"
=============================================================================
