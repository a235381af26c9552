--------------------------- MODULE OutboundChannel ---------------------------
(***************************************************************************)
(* The bounded writer channel of one READY connection (core/node.py,       *)
(* _ensure_outbound_channel to _fail_outbound_queue): coroutines inside    *)
(* _queue_frame, the asyncio.Queue between them and the single writer      *)
(* task, and the ways the channel ends: a failed write, a teardown that    *)
(* cancels the writer, and stop().                                         *)
(*                                                                         *)
(* A step is the code between two awaits.  A call s \in Calls is one       *)
(* execution of _queue_frame and names its frame and its future as well.   *)
(***************************************************************************)
EXTENDS Naturals, Sequences, FiniteSets

CONSTANTS
  Calls,        \* executions of _queue_frame on this connection
  Reader,       \* the one made by the connection's own reader (an ACK or a PONG)
  Deadline,     \* calls under a send timeout (_wait_for(_queue_frame(...), timeout))
  Teardowns,    \* executions of _close_outbound_channel
  ReaderTeardown, \* the one of the reader's own _connection_ended
  MaxQueue,     \* max_outbound_queue
  None

ASSUME ConstantsAssumption ==
  /\ Deadline \subseteq Calls
  /\ MaxQueue \in Nat \ {0}
  /\ None \notin Calls

VARIABLES
  wait,      \* outbound_backpressure is BackpressurePolicy.WAIT; never changes
  running,   \* self._running
  closed,    \* connection.is_closed
  channel,   \* the connection has an entry in _outbound_channels
  queue,     \* the asyncio.Queue's items
  putters,   \* its _putters: calls blocked in put()
  pc,        \* where each call is
  future,    \* each call's future
  wpc,       \* where the writer task is
  current,   \* channel.current
  wcancel,   \* the writer task has been cancelled and has not noticed yet
  teardown,  \* where each teardown is
  written    \* frames send_frame() completed

vars == <<wait, running, closed, channel, queue, putters, pc, future, wpc, current,
          wcancel, teardown, written>>

Inside  == {"putting", "woken", "waiting"}
Pending == "pending"

TypeOK ==
  /\ wait \in BOOLEAN /\ running \in BOOLEAN /\ closed \in BOOLEAN /\ channel \in BOOLEAN
  /\ queue \in Seq(Calls) /\ Len(queue) <= MaxQueue
  /\ putters \in Seq(Calls)
  /\ pc \in [Calls -> {"idle", "returned", "raised"} \cup Inside]
  /\ future \in [Calls -> {"none", Pending, "ok", "error", "cancelled"}]
  /\ wpc \in {"start", "get", "send", "close", "done"}
  /\ current \in Calls \cup {None}
  /\ wcancel \in BOOLEAN
  /\ teardown \in [Teardowns -> {"idle", "gather", "done"}]
  /\ written \subseteq Calls

Init ==
  /\ wait \in BOOLEAN
  /\ running = TRUE /\ closed = FALSE /\ channel = TRUE
  /\ queue = <<>> /\ putters = <<>>
  /\ pc = [s \in Calls |-> "idle"]
  /\ future = [s \in Calls |-> "none"]
  /\ wpc = "start" /\ current = None /\ wcancel = FALSE
  /\ teardown = [k \in Teardowns |-> "idle"]
  /\ written = {}

-----------------------------------------------------------------------------
(* asyncio.Queue *)

\* Mutant: one frame too many.
Full_OffByOne == Len(queue) > MaxQueue

Full == Len(queue) >= MaxQueue

Elems(s) == {s[i] : i \in 1..Len(s)}

\* get_nowait() wakes the first blocked putter; n gets wake the first n.
WokenBy(n) == {putters[i] : i \in {j \in 1..Len(putters) : j <= n}}
PuttersAfter(n) == SubSeq(putters, n + 1, Len(putters))

\* A cancelled putter leaves the deque.
Without(s) ==
  LET i == CHOOSE i \in 1..Len(putters) : putters[i] = s
  IN  SubSeq(putters, 1, i - 1) \o SubSeq(putters, i + 1, Len(putters))

Wake(f, S) == [s \in Calls |-> IF s \in S THEN "woken" ELSE f[s]]

(* futures *)

\* _set_future_error: a future that is already done is left alone.
SetError(f, S) == [s \in Calls |-> IF s \in S /\ f[s] = Pending THEN "error" ELSE f[s]]

\* Mutant: the queue is emptied and nobody is told.
DrainQueue_Silent(f) ==
  /\ future' = f
  /\ queue' = <<>>
  /\ pc' = Wake(pc, WokenBy(Len(queue)))
  /\ putters' = PuttersAfter(Len(queue))

\* _fail_outbound_queue: fail every queued frame, which wakes blocked putters.
DrainQueue(f) ==
  /\ future' = SetError(f, Elems(queue))
  /\ queue' = <<>>
  /\ pc' = Wake(pc, WokenBy(Len(queue)))
  /\ putters' = PuttersAfter(Len(queue))

-----------------------------------------------------------------------------
(* _queue_frame, call s *)

\* The channel is gone, its writer ended, or the connection is closed.
Refuse(s) ==
  /\ pc[s] = "idle"
  /\ ~channel \/ wpc = "done" \/ closed
  /\ pc' = [pc EXCEPT ![s] = "raised"]
  /\ UNCHANGED <<wait, running, closed, channel, queue, putters, future, wpc, current,
                 wcancel, teardown, written>>

Put(s) ==
  /\ queue' = Append(queue, s)
  /\ pc' = [pc EXCEPT ![s] = "waiting"]
  /\ UNCHANGED putters

\* (The writer is scheduled when the session is registered, so it has run, or
\* been cancelled, before any call that starts after stop().)
QueueFrame(s) ==
  /\ pc[s] = "idle"
  /\ channel /\ wpc # "done" /\ ~closed
  /\ ~running => wpc # "start" /\ s # Reader       \* stop() cancels the reader
  /\ future' = [future EXCEPT ![s] = Pending]
  /\ \/ ~Full /\ Put(s)
     \/ /\ Full /\ wait
        /\ putters' = Append(putters, s)
        /\ pc' = [pc EXCEPT ![s] = "putting"]
        /\ UNCHANGED queue
     \/ /\ Full /\ ~wait                  \* ResourceLimitError
        /\ pc' = [pc EXCEPT ![s] = "raised"]
        /\ UNCHANGED <<queue, putters>>
  /\ UNCHANGED <<wait, running, closed, channel, wpc, current, wcancel, teardown, written>>

\* A woken putter re-checks the queue: another call may have taken the slot.
PutterRuns(s) ==
  /\ pc[s] = "woken"
  /\ IF Full
     THEN /\ putters' = Append(putters, s)
          /\ pc' = [pc EXCEPT ![s] = "putting"]
          /\ UNCHANGED queue
     ELSE Put(s)
  /\ UNCHANGED <<wait, running, closed, channel, future, wpc, current, wcancel, teardown,
                 written>>

\* `await future` ends.
FutureReturns(s) ==
  /\ pc[s] = "waiting"
  /\ future[s] # Pending
  /\ pc' = [pc EXCEPT ![s] = IF future[s] = "ok" THEN "returned" ELSE "raised"]
  /\ UNCHANGED <<wait, running, closed, channel, queue, putters, future, wpc, current,
                 wcancel, teardown, written>>

\* Mutant: a cancelled call that had been woken keeps the wake-up to itself.
CallCancelled_KeepsWakeup(s) ==
  /\ s \in Deadline \/ (s = Reader /\ ~running)
  /\ pc[s] \in Inside
  /\ putters' = SelectSeq(putters, LAMBDA p : p # s)
  /\ pc' = [pc EXCEPT ![s] = "raised"]
  /\ future' = [future EXCEPT ![s] = IF @ = Pending THEN "cancelled" ELSE @]
  /\ UNCHANGED <<wait, running, closed, channel, queue, wpc, current, wcancel, teardown,
                 written>>

\* The call is cancelled: its send timeout passes, or stop() cancels the reader.
\* A woken putter that cannot take the slot wakes the next one; a frame that is
\* already queued stays there with its future cancelled.
CallCancelled(s) ==
  /\ s \in Deadline \/ (s = Reader /\ ~running)
  /\ \/ /\ pc[s] = "putting"
        /\ putters' = Without(s)
        /\ pc' = [pc EXCEPT ![s] = "raised"]
        /\ UNCHANGED future
     \/ /\ pc[s] = "woken"
        /\ LET n == IF Full THEN 0 ELSE 1
           IN  /\ pc' = Wake([pc EXCEPT ![s] = "raised"], WokenBy(n))
               /\ putters' = PuttersAfter(n)
        /\ UNCHANGED future
     \/ /\ pc[s] = "waiting"
        /\ future' = [future EXCEPT ![s] = IF @ = Pending THEN "cancelled" ELSE @]
        /\ pc' = [pc EXCEPT ![s] = "raised"]
        /\ UNCHANGED putters
  /\ UNCHANGED <<wait, running, closed, channel, queue, wpc, current, wcancel, teardown,
                 written>>

-----------------------------------------------------------------------------
(* _outbound_worker *)

\* The writer ends: its `finally` fails every queued frame.
WriterEnds(f) ==
  /\ wpc' = "done"
  /\ current' = None
  /\ DrainQueue(f)

\* The loop condition, then queue.get(), which does not wait when there is an item.
LoopTop(f) ==
  IF ~running \/ closed
  THEN WriterEnds(f)
  ELSE /\ future' = f
       /\ IF queue = <<>>
          THEN /\ wpc' = "get"
               /\ current' = None
               /\ UNCHANGED <<queue, pc, putters>>
          ELSE /\ wpc' = "send"
               /\ current' = Head(queue)
               /\ queue' = Tail(queue)
               /\ pc' = Wake(pc, WokenBy(1))
               /\ putters' = PuttersAfter(1)

WriterStarts ==
  /\ wpc = "start" /\ ~wcancel
  /\ LoopTop(future)
  /\ UNCHANGED <<wait, running, closed, channel, wcancel, teardown, written>>

\* queue.get() returns; the loop condition is not looked at again.
WriterGets ==
  /\ wpc = "get" /\ ~wcancel
  /\ queue # <<>>
  /\ wpc' = "send"
  /\ current' = Head(queue)
  /\ queue' = Tail(queue)
  /\ pc' = Wake(pc, WokenBy(1))
  /\ putters' = PuttersAfter(1)
  /\ UNCHANGED <<wait, running, closed, channel, future, wcancel, teardown, written>>

\* send_frame() returns: resolve the future unless it is done, and go round.
SendDone ==
  /\ wpc = "send" /\ ~wcancel
  /\ written' = written \cup {current}
  /\ LoopTop([future EXCEPT ![current] = IF @ = Pending THEN "ok" ELSE @])
  /\ UNCHANGED <<wait, running, closed, channel, wcancel, teardown>>

\* Mutant: a failed write resolves the future as if it had been sent.
SendFails_ReportsSuccess ==
  /\ wpc = "send" /\ ~wcancel
  /\ future' = [future EXCEPT ![current] = IF @ = Pending THEN "ok" ELSE @]
  /\ closed' = TRUE
  /\ wpc' = "close"
  /\ UNCHANGED <<wait, running, channel, queue, putters, pc, current, wcancel, teardown,
                 written>>

\* send_frame() raises: fail the frame and close the connection.
SendFails ==
  /\ wpc = "send" /\ ~wcancel
  /\ future' = SetError(future, {current})
  /\ closed' = TRUE
  /\ wpc' = "close"
  /\ UNCHANGED <<wait, running, channel, queue, putters, pc, current, wcancel, teardown,
                 written>>

WriterClosed ==
  /\ wpc = "close" /\ ~wcancel
  /\ WriterEnds(future)
  /\ UNCHANGED <<wait, running, closed, channel, wcancel, teardown, written>>

\* CancelledError reaches the writer; one that never started runs no `finally`.
WriterCancelled ==
  /\ wcancel /\ wpc # "done"
  /\ wcancel' = FALSE
  /\ IF wpc = "start"
     THEN wpc' = "done" /\ UNCHANGED <<current, future, queue, pc, putters>>
     ELSE WriterEnds(SetError(future, {current}))
  /\ UNCHANGED <<wait, running, closed, channel, teardown, written>>

\* The done callback _outbound_finished, and stop()'s final clear.
OutboundFinished ==
  /\ wpc = "done" /\ channel
  /\ channel' = FALSE
  /\ UNCHANGED <<wait, running, closed, queue, putters, pc, future, wpc, current, wcancel,
                 teardown, written>>

-----------------------------------------------------------------------------
(* _close_outbound_channel, and the rest of a teardown as far as it matters here *)

TeardownStarts(k) ==
  /\ teardown[k] = "idle"
  /\ k = ReaderTeardown => pc[Reader] \notin Inside
  /\ IF channel
     THEN /\ channel' = FALSE
          /\ wcancel' = (wpc # "done")
          /\ teardown' = [teardown EXCEPT ![k] = "gather"]
          /\ UNCHANGED closed
     ELSE /\ teardown' = [teardown EXCEPT ![k] = "done"]
          /\ closed' = TRUE
          /\ UNCHANGED <<channel, wcancel>>
  /\ UNCHANGED <<wait, running, queue, putters, pc, future, wpc, current, written>>

\* The writer has ended: drain what was queued meanwhile, close the connection.
TeardownEnds(k) ==
  /\ teardown[k] = "gather"
  /\ wpc = "done"
  /\ DrainQueue(future)
  /\ teardown' = [teardown EXCEPT ![k] = "done"]
  /\ closed' = TRUE
  /\ UNCHANGED <<wait, running, channel, wpc, current, wcancel, written>>

ConnectionCloses ==
  /\ ~closed
  /\ closed' = TRUE
  /\ UNCHANGED <<wait, running, channel, queue, putters, pc, future, wpc, current, wcancel,
                 teardown, written>>

\* stop(): cancel the writer and _fail_all_outbound, if the channel is registered.
Stop ==
  /\ running
  /\ running' = FALSE
  /\ IF channel
     THEN /\ wcancel' = (wpc # "done")
          /\ DrainQueue(SetError(future, {current}))
     ELSE UNCHANGED <<wcancel, future, queue, pc, putters>>
  /\ UNCHANGED <<wait, closed, channel, wpc, current, teardown, written>>

-----------------------------------------------------------------------------
CallStep(s) == PutterRuns(s) \/ FutureReturns(s)
WriterStep  == WriterStarts \/ WriterGets \/ WriterClosed \/ WriterCancelled
SendStep    == SendDone \/ SendFails

Next ==
  \/ \E s \in Calls : Refuse(s) \/ QueueFrame(s) \/ CallStep(s) \/ CallCancelled(s)
  \/ WriterStep \/ SendStep \/ OutboundFinished
  \/ \E k \in Teardowns : TeardownStarts(k) \/ TeardownEnds(k)
  \/ ConnectionCloses \/ Stop

\* The event loop runs what is ready; a write ends, well or badly; a deadline
\* passes, and the cancellation of the reader is delivered.
Fairness ==
  /\ \A s \in Calls : WF_vars(CallStep(s))
  /\ \A s \in Calls : WF_vars(CallCancelled(s))
  /\ WF_vars(WriterStep) /\ WF_vars(SendStep) /\ WF_vars(OutboundFinished)
  /\ \A k \in Teardowns : WF_vars(TeardownEnds(k))

Spec == Init /\ [][Next]_vars /\ Fairness

-----------------------------------------------------------------------------
(* Properties *)

WokenCalls == {s \in Calls : pc[s] = "woken"}

\* No lost wake-up: while a call is blocked in put(), every slot of the queue is
\* taken or promised to a call that has been woken and will fill it or pass it on.
NoLostWakeup == putters # <<>> => Len(queue) + Cardinality(WokenCalls) >= MaxQueue

\* Success is real: a call returns normally only if its frame was handed to the
\* transport in full, whatever cancelled or closed the channel meanwhile.
ReturnedMeansWritten == \A s \in Calls : pc[s] = "returned" => s \in written

\* Every unresolved call is in the writer's hands, in the queue, or on its way
\* into the queue: none is lost between the structures.
Accounted ==
  \A s \in Calls :
    /\ pc[s] = "putting" => s \in Elems(putters)
    /\ pc[s] = "waiting" /\ future[s] = Pending => s = current \/ s \in Elems(queue)

\* Every call of _queue_frame returns or raises.
CallEnds == \A s \in Calls : pc[s] \in Inside ~> pc[s] \notin Inside
=============================================================================
